------------------------- MODULE IValueImporterProofs -------------------------
(***************************************************************************)
(* Theorems about IValueImporter: every reference in the module it builds  *)
(* is to an earlier op, the module is isomorphic to the object graph, its  *)
(* annotations are what the user has asked for, and the verifiers accept   *)
(* it.                                                                     *)
(*                                                                         *)
(* The invariants are operators of a world w, a block b, a value map vm    *)
(* and frames fs, so that the lemmas are about constants.                  *)
(***************************************************************************)
EXTENDS IValueImporter, InductionLemmas

OpNames == {"func", "class_type", "literal", "value", "incomplete"}

IsSeq(s) == s \in Seq({s[i] : i \in DOMAIN s})

\* The position of the literal of v among the operands, if it has one.
Before(w, v) == IF w.values[v].kind = "per_tensor_affine" THEN 1 ELSE 0

\* The operands are what has been imported of v when n elements have.
Consists(w, b, vm, v, operands, n) ==
  /\ operands \in Seq(1 .. Len(b))
  /\ n \in 0 .. Len(w.values[v].elems)
  /\ Len(operands) = Before(w, v) + n
  /\ Before(w, v) = 1 => b[operands[1]].op = "literal" /\ b[operands[1]].of = v
  /\ \A j \in 1 .. n :
       /\ w.values[v].elems[j] \in DOMAIN vm
       /\ operands[Before(w, v) + j] = vm[w.values[v].elems[j]]

BlockInv(w, b, vm) ==
  /\ IsSeq(b)
  /\ \A i \in 1 .. Len(b) :
       /\ b[i].op \in OpNames
       /\ \A j \in DOMAIN b[i].operands : b[i].operands[j] \in 1 .. i - 1
       /\ b[i].op = "value" => b[i].of \in DOMAIN vm /\ vm[b[i].of] = i
  /\ \A v \in DOMAIN vm :
       /\ v \in DOMAIN w.values
       /\ vm[v] \in 1 .. Len(b)
       /\ b[vm[v]].op = "value"
       /\ b[vm[v]].of = v
       /\ Consists(w, b, vm, v, b[vm[v]].operands, Len(w.values[v].elems))

FrameSet(w) == [value : DOMAIN w.values, at : Nat \ {0}, operands : Seq(Nat)]

FrameOK(w, b, vm, frame) ==
  /\ frame.value \notin DOMAIN vm
  /\ Consists(w, b, vm, frame.value, frame.operands, frame.at - 1)

\* A frame is that of the element which the frame below it is at.
FramesInv(w, b, vm, fs) ==
  /\ fs \in Seq(FrameSet(w))
  /\ \A i \in 1 .. Len(fs) : FrameOK(w, b, vm, fs[i])
  /\ \A i \in 1 .. Len(fs) - 1 :
       /\ fs[i].at <= Len(w.values[fs[i].value].elems)
       /\ fs[i + 1].value = w.values[fs[i].value].elems[fs[i].at]
  /\ \A i, j \in 1 .. Len(fs) : i < j => w.depth[fs[j].value] < w.depth[fs[i].value]

Inv ==
  /\ world \in Worlds
  /\ pc \in {"annotate", "import", "throw", "done", "error"}
  /\ BlockInv(world, block, valueMap)
  /\ FramesInv(world, block, valueMap, frames)
  /\ pc = "done" => world.root \in DOMAIN valueMap

-----------------------------------------------------------------------------
\* Sequences

LEMMA AppendIsSeq ==
  ASSUME NEW s, NEW x, IsSeq(s)
  PROVE  /\ IsSeq(Append(s, x))
         /\ Len(s) \in Nat
         /\ DOMAIN s = 1 .. Len(s)
         /\ Len(Append(s, x)) = Len(s) + 1
         /\ \A i \in 1 .. Len(s) : Append(s, x)[i] = s[i]
         /\ Append(s, x)[Len(s) + 1] = x
<1> DEFINE S == {s[i] : i \in DOMAIN s} \cup {x}
<1>1. s \in Seq(S) /\ x \in S
  BY DEF IsSeq
<1>2. /\ Len(s) \in Nat
      /\ DOMAIN s = 1 .. Len(s)
      /\ Append(s, x) \in Seq(S)
      /\ Len(Append(s, x)) = Len(s) + 1
      /\ \A i \in 1 .. Len(s) : Append(s, x)[i] = s[i]
      /\ Append(s, x)[Len(s) + 1] = x
  <2> HIDE DEF S
  <2> QED  BY <1>1
<1>3. IsSeq(Append(s, x))
  <2> DEFINE t == Append(s, x)
  <2>1. t \in Seq(S)
    BY <1>2
  <2> HIDE DEF t, S
  <2>2. t \in Seq({t[i] : i \in DOMAIN t})
    BY <2>1
  <2> QED  BY <2>2 DEF IsSeq, t
<1> QED  BY <1>2, <1>3

LEMMA ConcatIsSeq ==
  ASSUME NEW s, NEW t, IsSeq(s), IsSeq(t)
  PROVE  /\ IsSeq(s \o t)
         /\ Len(s) \in Nat /\ Len(t) \in Nat
         /\ Len(s \o t) = Len(s) + Len(t)
         /\ \A i \in 1 .. Len(s) : (s \o t)[i] = s[i]
         /\ \A i \in 1 .. Len(t) : (s \o t)[Len(s) + i] = t[i]
<1> DEFINE S == {s[i] : i \in DOMAIN s} \cup {t[i] : i \in DOMAIN t}
<1>1. s \in Seq(S) /\ t \in Seq(S)
  BY DEF IsSeq
<1>2. /\ Len(s) \in Nat /\ Len(t) \in Nat
      /\ s \o t \in Seq(S)
      /\ Len(s \o t) = Len(s) + Len(t)
      /\ \A i \in 1 .. Len(s) : (s \o t)[i] = s[i]
      /\ \A i \in 1 .. Len(t) : (s \o t)[Len(s) + i] = t[i]
  <2> HIDE DEF S
  <2> QED  BY <1>1
<1>3. IsSeq(s \o t)
  <2> DEFINE u == s \o t
  <2>1. u \in Seq(S)
    BY <1>2
  <2> HIDE DEF u, S
  <2>2. u \in Seq({u[i] : i \in DOMAIN u})
    BY <2>1
  <2> QED  BY <2>2 DEF IsSeq, u
<1> QED  BY <1>2, <1>3

-----------------------------------------------------------------------------
\* Blocks and value maps that grow

Extends(b, b2) == Len(b) <= Len(b2) /\ \A i \in 1 .. Len(b) : b2[i] = b[i]

MapExtends(vm, vm2) ==
  DOMAIN vm \subseteq DOMAIN vm2 /\ \A v \in DOMAIN vm : vm2[v] = vm[v]

LEMMA SeqOfMore ==
  ASSUME NEW S, NEW T, S \subseteq T, NEW s \in Seq(S)
  PROVE  s \in Seq(T)
OBVIOUS

\* What has been imported of a value stays so.
LEMMA ConsistsKept ==
  ASSUME NEW w, NEW b, NEW b2, NEW vm, NEW vm2, NEW v, NEW operands, NEW n,
         IsSeq(b), IsSeq(b2), Extends(b, b2), MapExtends(vm, vm2),
         Consists(w, b, vm, v, operands, n), Len(w.values[v].elems) \in Nat
  PROVE  Consists(w, b2, vm2, v, operands, n)
<1>1. Len(b) \in Nat /\ Len(b2) \in Nat
  BY AppendIsSeq
<1>2. 1 .. Len(b) \subseteq 1 .. Len(b2)
  BY <1>1 DEF Extends
<1>3. operands \in Seq(1 .. Len(b2))
  <2>1. operands \in Seq(1 .. Len(b))
    BY DEF Consists
  <2> QED  BY <1>2, <2>1, SeqOfMore
<1>4. Before(w, v) = 1 => b2[operands[1]].op = "literal" /\ b2[operands[1]].of = v
  <2>1. SUFFICES ASSUME Before(w, v) = 1
                 PROVE  b2[operands[1]] = b[operands[1]]
    BY DEF Consists
  <2>2. operands[1] \in 1 .. Len(b)
    BY <2>1 DEF Consists
  <2> QED  BY <2>2 DEF Extends
<1>5. \A j \in 1 .. n : /\ w.values[v].elems[j] \in DOMAIN vm2
                        /\ operands[Before(w, v) + j] = vm2[w.values[v].elems[j]]
  BY DEF Consists, MapExtends
<1> QED  BY <1>3, <1>4, <1>5 DEF Consists

\* One more element.
LEMMA ConsistsOfNext ==
  ASSUME NEW w, NEW b, NEW vm, NEW v, NEW operands, NEW n, NEW p \in 1 .. Len(b),
         IsSeq(b), Consists(w, b, vm, v, operands, n), Len(w.values[v].elems) \in Nat,
         n + 1 <= Len(w.values[v].elems),
         w.values[v].elems[n + 1] \in DOMAIN vm,
         vm[w.values[v].elems[n + 1]] = p
  PROVE  Consists(w, b, vm, v, Append(operands, p), n + 1)
<1>1. Len(b) \in Nat
  BY AppendIsSeq
<1>2. PICK f \in 0 .. 1 : f = Before(w, v)
  BY DEF Before
<1>3. PICK l \in Nat : l = Len(operands)
  BY DEF Consists
<1>4. n \in Nat /\ l = f + n
  BY <1>2, <1>3 DEF Consists
<1>5. /\ Append(operands, p) \in Seq(1 .. Len(b))
      /\ Len(Append(operands, p)) = l + 1
      /\ \A j \in 1 .. l : Append(operands, p)[j] = operands[j]
      /\ Append(operands, p)[l + 1] = p
  <2> DEFINE S == 1 .. Len(b)
  <2>1. operands \in Seq(S) /\ p \in S
    BY DEF Consists
  <2> HIDE DEF S
  <2>2. /\ Append(operands, p) \in Seq(S)
        /\ Len(Append(operands, p)) = l + 1
        /\ \A j \in 1 .. l : Append(operands, p)[j] = operands[j]
        /\ Append(operands, p)[l + 1] = p
    BY <2>1, <1>3
  <2> QED  BY <2>2 DEF S
<1>6. n + 1 \in 0 .. Len(w.values[v].elems)
  BY <1>4
<1>7. f = 1 => b[Append(operands, p)[1]].op = "literal" /\ b[Append(operands, p)[1]].of = v
  BY <1>2, <1>4, <1>5 DEF Consists
<1>8. ASSUME NEW j \in 1 .. n + 1
      PROVE  /\ w.values[v].elems[j] \in DOMAIN vm
             /\ Append(operands, p)[f + j] = vm[w.values[v].elems[j]]
  <2>1. CASE j = n + 1
    <3>1. f + j = l + 1
      BY <2>1, <1>2, <1>4
    <3> QED  BY <2>1, <3>1, <1>5
  <2>2. CASE j \in 1 .. n
    <3>1. f + j \in 1 .. l
      BY <2>2, <1>2, <1>4
    <3>2. w.values[v].elems[j] \in DOMAIN vm /\ operands[f + j] = vm[w.values[v].elems[j]]
      BY <2>2, <1>2 DEF Consists
    <3> QED  BY <3>1, <3>2, <1>5
  <2>3. j = n + 1 \/ j \in 1 .. n
    BY <1>4
  <2> QED  BY <2>1, <2>2, <2>3
<1>9. Len(Append(operands, p)) = f + (n + 1)
  BY <1>2, <1>4, <1>5
<1> QED  BY <1>2, <1>5, <1>6, <1>7, <1>8, <1>9 DEF Consists

\* What WorldsWellFormed says of the values of a world.
ValuesOK(w) ==
  \A v \in DOMAIN w.values :
    /\ Len(w.values[v].elems) \in Nat
    /\ w.depth[v] \in Nat
    /\ \A i \in 1 .. Len(w.values[v].elems) :
         /\ w.values[v].elems[i] \in DOMAIN w.values
         /\ w.depth[w.values[v].elems[i]] < w.depth[v]

\* Ops that are no values and refer to nothing that comes later.
LEMMA PlainOps ==
  ASSUME NEW w, NEW b, NEW ops, NEW vm, BlockInv(w, b, vm), ValuesOK(w), IsSeq(ops),
         \A i \in 1 .. Len(ops) :
           /\ ops[i].op \in OpNames \ {"value"}
           /\ \A j \in DOMAIN ops[i].operands : ops[i].operands[j] \in 1 .. Len(b)
  PROVE  BlockInv(w, b \o ops, vm) /\ Extends(b, b \o ops) /\ IsSeq(b \o ops)
<1>1. IsSeq(b)
  BY DEF BlockInv
<1>2. PICK n \in Nat, m \in Nat : n = Len(b) /\ m = Len(ops)
  BY <1>1, ConcatIsSeq
<1>3. PICK c : c = b \o ops
  OBVIOUS
<1>4. /\ IsSeq(c) /\ Len(c) = n + m
      /\ \A i \in 1 .. n : c[i] = b[i]
      /\ \A i \in 1 .. m : c[n + i] = ops[i]
  BY <1>1, <1>2, <1>3, ConcatIsSeq
<1>5. Extends(b, c)
  BY <1>2, <1>4 DEF Extends
<1>6. ASSUME NEW i \in 1 .. Len(c)
      PROVE  /\ c[i].op \in OpNames
             /\ \A j \in DOMAIN c[i].operands : c[i].operands[j] \in 1 .. i - 1
             /\ c[i].op = "value" => c[i].of \in DOMAIN vm /\ vm[c[i].of] = i
  <2>1. CASE i \in 1 .. n
    BY <2>1, <1>2, <1>4 DEF BlockInv
  <2>2. CASE i \notin 1 .. n
    <3>1. PICK k \in 1 .. m : i = n + k
      <4>1. i - n \in 1 .. m /\ i = n + (i - n)
        BY <2>2, <1>4
      <4> QED  BY <4>1
    <3>2. c[i] = ops[k]
      BY <3>1, <1>4
    <3>3. /\ ops[k].op \in OpNames \ {"value"}
          /\ \A j \in DOMAIN ops[k].operands : ops[k].operands[j] \in 1 .. n
      BY <1>2
    <3> QED  BY <3>1, <3>2, <3>3
  <2> QED  BY <2>1, <2>2
<1>7. ASSUME NEW v \in DOMAIN vm
      PROVE  /\ v \in DOMAIN w.values
             /\ vm[v] \in 1 .. Len(c)
             /\ c[vm[v]].op = "value"
             /\ c[vm[v]].of = v
             /\ Consists(w, c, vm, v, c[vm[v]].operands, Len(w.values[v].elems))
  <2>1. /\ v \in DOMAIN w.values
        /\ vm[v] \in 1 .. n
        /\ b[vm[v]].op = "value"
        /\ b[vm[v]].of = v
        /\ Consists(w, b, vm, v, b[vm[v]].operands, Len(w.values[v].elems))
    BY <1>2 DEF BlockInv
  <2>2. c[vm[v]] = b[vm[v]]
    BY <2>1, <1>4
  <2>3. Consists(w, c, vm, v, b[vm[v]].operands, Len(w.values[v].elems))
    BY <2>1, <1>1, <1>4, <1>5, ConsistsKept DEF ValuesOK, MapExtends
  <2>4. vm[v] \in 1 .. Len(c)
    BY <2>1, <1>4
  <2> QED  BY <2>1, <2>2, <2>3, <2>4
<1>8. BlockInv(w, c, vm)
  BY <1>4, <1>6, <1>7 DEF BlockInv
<1> QED  BY <1>3, <1>4, <1>5, <1>8

\* vm2 is vm with v at position p.
Adds(vm, vm2, v, p) ==
  DOMAIN vm2 = DOMAIN vm \cup {v} /\ vm2[v] = p /\ \A u \in DOMAIN vm : vm2[u] = vm[u]

\* The op of a value all of whose elements have been imported.
LEMMA ValueOp ==
  ASSUME NEW w, NEW b, NEW vm, NEW vm2, NEW v \in DOMAIN w.values, NEW op, NEW b2,
         BlockInv(w, b, vm), ValuesOK(w), v \notin DOMAIN vm,
         op.op = "value", op.of = v, Consists(w, b, vm, v, op.operands, Len(w.values[v].elems)),
         b2 = Append(b, op), Adds(vm, vm2, v, Len(b2))
  PROVE  /\ BlockInv(w, b2, vm2) /\ Extends(b, b2) /\ MapExtends(vm, vm2)
         /\ IsSeq(b2)
<1>0. PICK operands : operands = op.operands
  OBVIOUS
<1>1. IsSeq(b)
  BY DEF BlockInv
<1>2. PICK n \in Nat : n = Len(b)
  BY <1>1, AppendIsSeq
<1>3. PICK c : c = Append(b, op)
  OBVIOUS
<1>4. IsSeq(c) /\ Len(c) = n + 1 /\ c[n + 1] = op /\ \A i \in 1 .. n : c[i] = b[i]
  BY <1>1, <1>2, <1>3, AppendIsSeq
<1>5. Extends(b, c)
  BY <1>2, <1>4 DEF Extends
<1>6. MapExtends(vm, vm2) /\ DOMAIN vm2 = DOMAIN vm \cup {v} /\ vm2[v] = n + 1
  BY <1>3, <1>4 DEF MapExtends, Adds
<1>7. ASSUME NEW i \in 1 .. Len(c)
      PROVE  /\ c[i].op \in OpNames
             /\ \A j \in DOMAIN c[i].operands : c[i].operands[j] \in 1 .. i - 1
             /\ c[i].op = "value" => c[i].of \in DOMAIN vm2 /\ vm2[c[i].of] = i
  <2>1. CASE i \in 1 .. n
    <3>1. /\ b[i].op \in OpNames
          /\ \A j \in DOMAIN b[i].operands : b[i].operands[j] \in 1 .. i - 1
          /\ b[i].op = "value" => b[i].of \in DOMAIN vm /\ vm[b[i].of] = i
      BY <2>1, <1>2 DEF BlockInv
    <3> QED  BY <2>1, <3>1, <1>4, <1>6 DEF MapExtends
  <2>2. CASE i \notin 1 .. n
    <3>1. i = n + 1
      BY <2>2, <1>4
    <3>2. c[i].op = "value" /\ c[i].of = v /\ c[i].operands = operands
      BY <3>1, <1>0, <1>4
    <3>3. \A j \in DOMAIN operands : operands[j] \in 1 .. n
      BY <1>0, <1>2 DEF Consists
    <3> QED  BY <3>1, <3>2, <3>3, <1>6 DEF OpNames
  <2> QED  BY <2>1, <2>2
<1>8. ASSUME NEW u \in DOMAIN vm2
      PROVE  /\ u \in DOMAIN w.values
             /\ vm2[u] \in 1 .. Len(c)
             /\ c[vm2[u]].op = "value"
             /\ c[vm2[u]].of = u
             /\ Consists(w, c, vm2, u, c[vm2[u]].operands, Len(w.values[u].elems))
  <2>1. CASE u = v
    <3>1. Consists(w, c, vm2, v, operands, Len(w.values[v].elems))
      BY <1>0, <1>1, <1>4, <1>5, <1>6, ConsistsKept DEF ValuesOK
    <3>2. c[vm2[v]].op = "value" /\ c[vm2[v]].of = v /\ c[vm2[v]].operands = operands
      BY <1>0, <1>4, <1>6
    <3>3. vm2[v] \in 1 .. Len(c)
      BY <1>4, <1>6
    <3> QED  BY <2>1, <3>1, <3>2, <3>3
  <2>2. CASE u # v
    <3>1. u \in DOMAIN vm /\ vm2[u] = vm[u]
      BY <2>2, <1>6 DEF MapExtends
    <3>2. /\ u \in DOMAIN w.values
          /\ vm[u] \in 1 .. n
          /\ b[vm[u]].op = "value"
          /\ b[vm[u]].of = u
          /\ Consists(w, b, vm, u, b[vm[u]].operands, Len(w.values[u].elems))
      BY <3>1, <1>2 DEF BlockInv
    <3>3. Consists(w, c, vm2, u, b[vm[u]].operands, Len(w.values[u].elems))
      BY <3>2, <1>1, <1>4, <1>5, <1>6, ConsistsKept DEF ValuesOK
    <3>4. c[vm2[u]] = b[vm[u]] /\ vm2[u] \in 1 .. Len(c)
      BY <3>1, <3>2, <1>4
    <3> QED  BY <3>2, <3>3, <3>4
  <2> QED  BY <2>1, <2>2
<1>9. BlockInv(w, c, vm2)
  BY <1>4, <1>7, <1>8 DEF BlockInv
<1> QED  BY <1>2, <1>3, <1>4, <1>5, <1>6, <1>9
-----------------------------------------------------------------------------
\* Frames

LEMMA FramesKept ==
  ASSUME NEW w, NEW b, NEW b2, NEW vm, NEW vm2, NEW fs, ValuesOK(w),
         IsSeq(b), IsSeq(b2), Extends(b, b2), MapExtends(vm, vm2),
         FramesInv(w, b, vm, fs),
         \A i \in 1 .. Len(fs) : fs[i].value \notin DOMAIN vm2
  PROVE  FramesInv(w, b2, vm2, fs)
<1>1. ASSUME NEW i \in 1 .. Len(fs)
      PROVE  FrameOK(w, b2, vm2, fs[i])
  <2>1. FrameOK(w, b, vm, fs[i]) /\ fs[i] \in FrameSet(w)
    BY DEF FramesInv
  <2>2. fs[i].value \in DOMAIN w.values
    BY <2>1 DEF FrameSet
  <2>3. Consists(w, b2, vm2, fs[i].value, fs[i].operands, fs[i].at - 1)
    BY <2>1, <2>2, ConsistsKept DEF FrameOK, ValuesOK
  <2> QED  BY <2>3 DEF FrameOK
<1> QED  BY <1>1 DEF FramesInv

LEMMA FramesPop ==
  ASSUME NEW w, NEW b, NEW vm, NEW fs, ValuesOK(w), FramesInv(w, b, vm, fs), fs # <<>>
  PROVE  /\ FramesInv(w, b, vm, Front(fs))
         /\ Last(fs) \in FrameSet(w)
         /\ FrameOK(w, b, vm, Last(fs))
         /\ \A i \in 1 .. Len(Front(fs)) : Front(fs)[i].value # Last(fs).value
         /\ Front(fs) # <<>> =>
              LET below == Last(Front(fs))
              IN /\ below.at <= Len(w.values[below.value].elems)
                 /\ Last(fs).value = w.values[below.value].elems[below.at]
<1>1. PICK n \in Nat : n = Len(fs)
  BY DEF FramesInv
<1>2. fs \in Seq(FrameSet(w)) /\ n > 0
  BY <1>1 DEF FramesInv
<1>3. PICK gs : gs = Front(fs)
  OBVIOUS
<1>4. gs \in Seq(FrameSet(w)) /\ Len(gs) = n - 1 /\ \A i \in 1 .. n - 1 : gs[i] = fs[i]
  BY <1>1, <1>2, <1>3 DEF Front
<1>5. Last(fs) = fs[n]
  BY <1>1 DEF Last
<1>6. \A i \in 1 .. n : fs[i] \in FrameSet(w) /\ FrameOK(w, b, vm, fs[i])
  BY <1>1, <1>2 DEF FramesInv
<1>7. n \in 1 .. n
  BY <1>2
<1>8. \A i \in 1 .. Len(gs) : FrameOK(w, b, vm, gs[i])
  BY <1>4, <1>6
<1>9. \A i \in 1 .. Len(gs) - 1 :
        /\ gs[i].at <= Len(w.values[gs[i].value].elems)
        /\ gs[i + 1].value = w.values[gs[i].value].elems[gs[i].at]
  <2>1. ASSUME NEW i \in 1 .. n - 2
        PROVE  /\ gs[i].at <= Len(w.values[gs[i].value].elems)
               /\ gs[i + 1].value = w.values[gs[i].value].elems[gs[i].at]
    <3>1. i \in 1 .. n - 1 /\ i + 1 \in 1 .. n - 1
      OBVIOUS
    <3>2. /\ fs[i].at <= Len(w.values[fs[i].value].elems)
          /\ fs[i + 1].value = w.values[fs[i].value].elems[fs[i].at]
      BY <3>1, <1>1 DEF FramesInv
    <3> QED  BY <3>1, <3>2, <1>4
  <2> QED  BY <2>1, <1>4
<1>10. \A i, j \in 1 .. n : i < j => w.depth[fs[j].value] < w.depth[fs[i].value]
  BY <1>1 DEF FramesInv
<1>11. \A i, j \in 1 .. Len(gs) : i < j => w.depth[gs[j].value] < w.depth[gs[i].value]
  <2>1. ASSUME NEW i \in 1 .. n - 1, NEW j \in 1 .. n - 1, i < j
        PROVE  w.depth[gs[j].value] < w.depth[gs[i].value]
    <3>1. i \in 1 .. n /\ j \in 1 .. n /\ gs[i] = fs[i] /\ gs[j] = fs[j]
      BY <1>4
    <3> QED  BY <3>1, <2>1, <1>10
  <2> QED  BY <2>1, <1>4
<1>12. ASSUME NEW i \in 1 .. Len(gs)
       PROVE  gs[i].value # fs[n].value
  <2>1. i \in 1 .. n /\ i < n /\ gs[i] = fs[i]
    BY <1>4
  <2>2. w.depth[fs[n].value] < w.depth[fs[i].value]
    BY <2>1, <1>7, <1>10
  <2>3. w.depth[fs[n].value] \in Nat
    BY <1>6, <1>7 DEF FrameSet, ValuesOK
  <2> QED  BY <2>1, <2>2, <2>3
<1>13. FramesInv(w, b, vm, gs)
  BY <1>4, <1>8, <1>9, <1>11 DEF FramesInv
<1>14. ASSUME gs # <<>>
       PROVE  /\ Last(gs).at <= Len(w.values[Last(gs).value].elems)
              /\ fs[n].value = w.values[Last(gs).value].elems[Last(gs).at]
  <2>1. n - 1 \in 1 .. n - 1 /\ (n - 1) + 1 = n
    BY <1>4, <1>14
  <2>2. Last(gs) = fs[n - 1]
    BY <1>4, <2>1 DEF Last
  <2>3. /\ fs[n - 1].at <= Len(w.values[fs[n - 1].value].elems)
        /\ fs[(n - 1) + 1].value = w.values[fs[n - 1].value].elems[fs[n - 1].at]
    BY <1>1, <2>1 DEF FramesInv
  <2> QED  BY <2>1, <2>2, <2>3
<1> QED  BY <1>3, <1>5, <1>6, <1>7, <1>12, <1>13, <1>14

LEMMA FramesPush ==
  ASSUME NEW w, NEW b, NEW vm, NEW fs, NEW v \in DOMAIN w.values, NEW operands,
         IsSeq(b), ValuesOK(w), FramesInv(w, b, vm, fs), v \notin DOMAIN vm,
         Consists(w, b, vm, v, operands, 0),
         fs # <<>> => /\ Last(fs).at <= Len(w.values[Last(fs).value].elems)
                      /\ v = w.values[Last(fs).value].elems[Last(fs).at]
  PROVE  FramesInv(w, b, vm, Append(fs, Frame(v, operands)))
<1> DEFINE f == Frame(v, operands)
<1>1. PICK n \in Nat : n = Len(fs)
  BY DEF FramesInv
<1>2. f \in FrameSet(w) /\ FrameOK(w, b, vm, f) /\ f.value = v
  <2>1. operands \in Seq(1 .. Len(b)) /\ 1 .. Len(b) \subseteq Nat
    BY AppendIsSeq DEF Consists
  <2>2. operands \in Seq(Nat)
    BY <2>1, SeqOfMore
  <2>3. f = [value |-> v, at |-> 1, operands |-> operands] /\ 1 - 1 = 0 /\ 1 \in Nat \ {0}
    BY DEF Frame
  <2> HIDE DEF f
  <2> QED  BY <2>2, <2>3 DEF FrameSet, FrameOK
<1>3. PICK gs : gs = Append(fs, f)
  OBVIOUS
<1>4. /\ gs \in Seq(FrameSet(w)) /\ Len(gs) = n + 1
      /\ gs[n + 1] = f
      /\ \A i \in 1 .. n : gs[i] = fs[i]
  <2> HIDE DEF f
  <2>1. fs \in Seq(FrameSet(w))
    BY DEF FramesInv
  <2> QED  BY <1>1, <1>2, <1>3, <2>1
<1> HIDE DEF f
<1>5. n # 0 => /\ fs[n].at <= Len(w.values[fs[n].value].elems)
               /\ v = w.values[fs[n].value].elems[fs[n].at]
  BY <1>1 DEF Last, FramesInv
<1>6. \A i \in 1 .. n : fs[i] \in FrameSet(w) /\ FrameOK(w, b, vm, fs[i])
  BY <1>1 DEF FramesInv
<1>7. \A i \in 1 .. n + 1 : FrameOK(w, b, vm, gs[i])
  <2>1. ASSUME NEW i \in 1 .. n + 1
        PROVE  FrameOK(w, b, vm, gs[i])
    <3>1. i = n + 1 \/ i \in 1 .. n
      OBVIOUS
    <3> QED  BY <3>1, <1>2, <1>4, <1>6
  <2> QED  BY <2>1
<1>8. ASSUME NEW i \in 1 .. n
      PROVE  /\ gs[i].at <= Len(w.values[gs[i].value].elems)
             /\ gs[i + 1].value = w.values[gs[i].value].elems[gs[i].at]
  <2>1. CASE i = n
    BY <2>1, <1>2, <1>4, <1>5
  <2>2. CASE i \in 1 .. n - 1
    <3>1. i + 1 \in 1 .. n /\ gs[i + 1] = fs[i + 1] /\ gs[i] = fs[i]
      BY <2>2, <1>4
    <3>2. /\ fs[i].at <= Len(w.values[fs[i].value].elems)
          /\ fs[i + 1].value = w.values[fs[i].value].elems[fs[i].at]
      BY <2>2, <1>1 DEF FramesInv
    <3> QED  BY <3>1, <3>2
  <2>3. i = n \/ i \in 1 .. n - 1
    OBVIOUS
  <2> QED  BY <2>1, <2>2, <2>3
<1>9. ASSUME NEW i \in 1 .. n
      PROVE  w.depth[v] < w.depth[fs[i].value]
  <2>1. /\ fs[n] \in FrameSet(w) /\ n \in 1 .. n /\ fs[i] \in FrameSet(w)
    BY <1>6
  <2>2. fs[n].value \in DOMAIN w.values /\ fs[n].at \in Nat \ {0} /\ fs[i].value \in DOMAIN w.values
    BY <2>1 DEF FrameSet
  <2>3. PICK a \in Nat \ {0}, l \in Nat : a = fs[n].at /\ l = Len(w.values[fs[n].value].elems)
    BY <2>2 DEF ValuesOK
  <2>4. a \in 1 .. l
    BY <2>3, <1>5
  <2>5. w.depth[v] < w.depth[fs[n].value]
    <3>1. \A k \in 1 .. l : w.depth[w.values[fs[n].value].elems[k]] < w.depth[fs[n].value]
      BY <2>2, <2>3 DEF ValuesOK
    <3>2. v = w.values[fs[n].value].elems[a]
      BY <2>3, <1>5
    <3> QED  BY <3>1, <3>2, <2>4
  <2>6. i < n => w.depth[fs[n].value] < w.depth[fs[i].value]
    BY <1>1, <2>1 DEF FramesInv
  <2>7. w.depth[v] \in Nat /\ w.depth[fs[n].value] \in Nat /\ w.depth[fs[i].value] \in Nat
    BY <2>2 DEF ValuesOK
  <2>8. i = n \/ i < n
    OBVIOUS
  <2> QED  BY <2>5, <2>6, <2>7, <2>8
<1>10. ASSUME NEW i \in 1 .. n + 1, NEW j \in 1 .. n + 1, i < j
       PROVE  w.depth[gs[j].value] < w.depth[gs[i].value]
  <2>1. i \in 1 .. n /\ gs[i] = fs[i]
    BY <1>10, <1>4
  <2>2. CASE j = n + 1
    BY <2>1, <2>2, <1>2, <1>4, <1>9
  <2>3. CASE j \in 1 .. n
    <3>1. w.depth[fs[j].value] < w.depth[fs[i].value]
      BY <1>10, <2>1, <2>3, <1>1 DEF FramesInv
    <3> QED  BY <3>1, <2>1, <2>3, <1>4
  <2>4. j = n + 1 \/ j \in 1 .. n
    OBVIOUS
  <2> QED  BY <2>2, <2>3, <2>4
<1>11. FramesInv(w, b, vm, gs)
  <2>1. Len(gs) = n + 1 /\ Len(gs) - 1 = n
    BY <1>4
  <2> QED  BY <2>1, <1>4, <1>7, <1>8, <1>10 DEF FramesInv
<1> QED  BY <1>3, <1>11 DEF f

LEMMA FramesReturn ==
  ASSUME NEW w, NEW b, NEW vm, NEW fs, NEW u \in DOMAIN vm,
         IsSeq(b), ValuesOK(w), FramesInv(w, b, vm, fs), vm[u] \in 1 .. Len(b),
         fs # <<>> => /\ Last(fs).at <= Len(w.values[Last(fs).value].elems)
                      /\ u = w.values[Last(fs).value].elems[Last(fs).at]
  PROVE  FramesInv(w, b, vm, Return(fs, vm[u]))
<1>1. CASE fs = <<>>
  BY <1>1 DEF Return
<1>2. CASE fs # <<>>
  <2>1. PICK n \in Nat : n = Len(fs)
    BY DEF FramesInv
  <2>2. fs \in Seq(FrameSet(w)) /\ n > 0 /\ n \in 1 .. n
    BY <1>2, <2>1 DEF FramesInv
  <2>3. PICK f : f = fs[n]
    OBVIOUS
  <2>4. f \in FrameSet(w) /\ FrameOK(w, b, vm, f) /\ Last(fs) = f
    BY <2>1, <2>2, <2>3 DEF FramesInv, Last
  <2>5. PICK p \in 1 .. Len(b) : p = vm[u]
    OBVIOUS
  <2>6. PICK a \in Nat \ {0} : a = f.at
    BY <2>4 DEF FrameSet
  <2>7. PICK g : g = [value |-> f.value, at |-> a + 1, operands |-> Append(f.operands, p)]
    OBVIOUS
  <2>9. g \in FrameSet(w)
    <3>1. p \in Nat
      BY AppendIsSeq
    <3>2. f.operands \in Seq(Nat) /\ f.value \in DOMAIN w.values
      BY <2>4 DEF FrameSet
    <3>3. Append(f.operands, p) \in Seq(Nat) /\ a + 1 \in Nat \ {0}
      BY <3>1, <3>2
    <3> QED  BY <3>2, <3>3, <2>7 DEF FrameSet
  <2>10. FrameOK(w, b, vm, g)
    <3>1. f.value \in DOMAIN w.values
      BY <2>4 DEF FrameSet
    <3>2. Len(w.values[f.value].elems) \in Nat /\ a <= Len(w.values[f.value].elems)
      BY <3>1, <1>2, <2>4, <2>6 DEF ValuesOK
    <3>3. (a - 1) + 1 = a /\ (a + 1) - 1 = a
      OBVIOUS
    <3>4. Consists(w, b, vm, f.value, f.operands, a - 1)
      BY <2>4, <2>6 DEF FrameOK
    <3>5. u = w.values[f.value].elems[a]
      BY <1>2, <2>4, <2>6
    <3>6. Consists(w, b, vm, f.value, Append(f.operands, p), (a - 1) + 1)
      BY <3>2, <3>3, <3>4, <3>5, <2>5, ConsistsOfNext
    <3> QED  BY <3>3, <3>6, <2>4, <2>7 DEF FrameOK
  <2>11. PICK gs : gs = Append(Front(fs), g)
    OBVIOUS
  <2>12. /\ gs \in Seq(FrameSet(w)) /\ Len(gs) = n /\ gs[n] = g
         /\ \A i \in 1 .. n - 1 : gs[i] = fs[i]
    <3>1. /\ Front(fs) \in Seq(FrameSet(w)) /\ Len(Front(fs)) = n - 1
          /\ \A i \in 1 .. n - 1 : Front(fs)[i] = fs[i]
      BY <2>1, <2>2 DEF Front
    <3> QED  BY <3>1, <2>9, <2>11
  <2>13. \A i \in 1 .. n : gs[i].value = fs[i].value
    BY <2>3, <2>7, <2>12
  <2>14. ASSUME NEW i \in 1 .. n
         PROVE  FrameOK(w, b, vm, gs[i])
    <3>1. i = n \/ i \in 1 .. n - 1
      OBVIOUS
    <3>2. FrameOK(w, b, vm, fs[i])
      BY <2>1 DEF FramesInv
    <3> QED  BY <3>1, <3>2, <2>10, <2>12
  <2>15. ASSUME NEW i \in 1 .. n - 1
         PROVE  /\ gs[i].at <= Len(w.values[gs[i].value].elems)
                /\ gs[i + 1].value = w.values[gs[i].value].elems[gs[i].at]
    <3>1. /\ fs[i].at <= Len(w.values[fs[i].value].elems)
          /\ fs[i + 1].value = w.values[fs[i].value].elems[fs[i].at]
      BY <2>1 DEF FramesInv
    <3>2. gs[i] = fs[i] /\ i + 1 \in 1 .. n
      BY <2>12
    <3> QED  BY <3>1, <3>2, <2>13
  <2>16. ASSUME NEW i \in 1 .. n, NEW j \in 1 .. n, i < j
         PROVE  w.depth[gs[j].value] < w.depth[gs[i].value]
    <3>1. w.depth[fs[j].value] < w.depth[fs[i].value]
      BY <2>1, <2>16 DEF FramesInv
    <3> QED  BY <3>1, <2>13
  <2>17. FramesInv(w, b, vm, gs)
    BY <2>12, <2>14, <2>15, <2>16 DEF FramesInv
  <2>18. Return(fs, vm[u]) = gs
    BY <1>2, <2>4, <2>5, <2>6, <2>7, <2>11 DEF Return, Advance
  <2> QED  BY <2>17, <2>18
<1> QED  BY <1>1, <1>2

-----------------------------------------------------------------------------
\* The steps

LEMMA WorldOK ==
  ASSUME NEW w \in Worlds
  PROVE  /\ ValuesOK(w)
         /\ w.root \in DOMAIN w.values
<1>1. ASSUME NEW v \in DOMAIN w.values
      PROVE  /\ Len(w.values[v].elems) \in Nat
             /\ w.depth[v] \in Nat
             /\ \A i \in 1 .. Len(w.values[v].elems) :
                  /\ w.values[v].elems[i] \in DOMAIN w.values
                  /\ w.depth[w.values[v].elems[i]] < w.depth[v]
  <2>1. /\ w.values[v].elems \in Seq(DOMAIN w.values)
        /\ w.depth[v] \in Nat
        /\ \A i \in DOMAIN w.values[v].elems : w.depth[w.values[v].elems[i]] < w.depth[v]
    BY WorldsWellFormed
  <2> QED  BY <2>1
<1>2. w.root \in DOMAIN w.values
  BY WorldsWellFormed
<1> QED  BY <1>1, <1>2 DEF ValuesOK

LEMMA UnitsAreSeqs ==
  ASSUME NEW w \in Worlds, NEW v \in DOMAIN w.values, w.values[v].kind = "module"
  PROVE  IsSeq(w.units[w.unitOf[v]])
<1>1. w.unitOf[v] \in DOMAIN w.units
  BY WorldsWellFormed
<1>2. w.units[w.unitOf[v]] \in Seq(ToSet(w.units[w.unitOf[v]]))
  BY <1>1, WorldsWellFormed
<1> QED  BY <1>2 DEF ToSet, IsSeq

\* Ops that may be appended at any time.
Plain(ops, n) ==
  /\ IsSeq(ops)
  /\ \A i \in 1 .. Len(ops) : /\ ops[i].op \in OpNames \ {"value"}
                              /\ \A j \in DOMAIN ops[i].operands : ops[i].operands[j] \in 1 .. n

LEMMA OneOp ==
  ASSUME NEW op, NEW n, op.op \in OpNames \ {"value"},
         \A j \in DOMAIN op.operands : op.operands[j] \in 1 .. n
  PROVE  Plain(<<op>>, n)
BY DEF Plain, IsSeq

LEMMA NoOps ==
  ASSUME NEW n
  PROVE  Plain(<<>>, n)
BY DEF Plain, IsSeq

LEMMA FuncOpsPlain ==
  ASSUME NEW funcs, NEW n, IsSeq(funcs)
  PROVE  Plain(FuncOps(funcs), n)
<1>1. PICK l \in Nat : l = Len(funcs) /\ DOMAIN funcs = 1 .. l
  BY AppendIsSeq
<1> DEFINE O(i) == Op("func", funcs[i], <<>>, TypeBounds(funcs[i]))
<1>2. FuncOps(funcs) = [i \in 1 .. l |-> O(i)]
  BY <1>1 DEF FuncOps
<1>3. \A i \in 1 .. l : O(i).op = "func" /\ O(i).operands = <<>>
  BY DEF Op
<1> HIDE DEF O
<1>4. PICK ops : ops = [i \in 1 .. l |-> O(i)]
  OBVIOUS
<1>5. ops \in Seq({ops[i] : i \in DOMAIN ops}) /\ Len(ops) = l
  BY <1>4
<1>6. \A i \in 1 .. l : ops[i].op = "func" /\ ops[i].operands = <<>>
  BY <1>3, <1>4
<1> QED  BY <1>2, <1>4, <1>5, <1>6 DEF Plain, IsSeq, OpNames

LEMMA AppendIsConcat ==
  ASSUME NEW s, NEW x, IsSeq(s)
  PROVE  Append(s, x) = s \o <<x>>
<1> DEFINE S == {s[i] : i \in DOMAIN s} \cup {x}
<1>1. s \in Seq(S) /\ x \in S
  BY DEF IsSeq
<1> HIDE DEF S
<1> QED  BY <1>1

\* A step that appends such ops and leaves the rest alone.
LEMMA PlainGrowth ==
  ASSUME NEW w, NEW b, NEW vm, NEW fs, NEW ops, NEW n, n = Len(b), ValuesOK(w),
         BlockInv(w, b, vm), FramesInv(w, b, vm, fs), Plain(ops, n)
  PROVE  /\ BlockInv(w, b \o ops, vm)
         /\ FramesInv(w, b \o ops, vm, fs)
         /\ IsSeq(b \o ops)
         /\ Extends(b, b \o ops)
<1>1. BlockInv(w, b \o ops, vm) /\ Extends(b, b \o ops) /\ IsSeq(b \o ops)
  BY PlainOps DEF Plain
<1>2. IsSeq(b) /\ MapExtends(vm, vm)
  BY DEF BlockInv, MapExtends
<1>3. \A i \in 1 .. Len(fs) : fs[i].value \notin DOMAIN vm
  BY DEF FramesInv, FrameOK
<1>4. FramesInv(w, b \o ops, vm, fs)
  BY <1>1, <1>2, <1>3, FramesKept
<1> QED  BY <1>1, <1>4

LEMMA NothingYet ==
  ASSUME NEW w, NEW b, NEW vm, NEW v \in DOMAIN w.values, ValuesOK(w),
         w.values[v].kind # "per_tensor_affine"
  PROVE  Consists(w, b, vm, v, <<>>, 0)
BY DEF Consists, Before, ValuesOK

LEMMA InitInv == Init => Inv
<1> SUFFICES ASSUME Init
             PROVE  Inv
  OBVIOUS
<1>1. world \in Worlds /\ pc = "annotate" /\ block = <<>> /\ frames = <<>> /\ DOMAIN valueMap = {}
  BY DEF Init, AnnotatorInit
<1>2. BlockInv(world, block, valueMap)
  BY <1>1 DEF BlockInv, IsSeq
<1>3. FramesInv(world, block, valueMap, frames)
  BY <1>1 DEF FramesInv
<1> QED  BY <1>1, <1>2, <1>3 DEF Inv

\* The value that is imported next is one of the world's, and the innermost
\* frame is at it.
LEMMA NextValue ==
  ASSUME NEW v, Inv, IsNext(v)
  PROVE  /\ v \in DOMAIN world.values
         /\ frames # <<>> => /\ Last(frames).at <= Len(world.values[Last(frames).value].elems)
                             /\ v = world.values[Last(frames).value].elems[Last(frames).at]
<1>1. CASE frames = <<>>
  <2>1. v = world.root
    BY <1>1 DEF IsNext, AtElement
  <2> QED  BY <1>1, <2>1, WorldOK DEF Inv
<1>2. CASE frames # <<>>
  <2>1. /\ Last(frames).at <= Len(world.values[Last(frames).value].elems)
        /\ v = world.values[Last(frames).value].elems[Last(frames).at]
    BY <1>2 DEF IsNext, AtElement, Top, Elems
  <2>2. ValuesOK(world)
    BY WorldOK DEF Inv
  <2>3. Last(frames) \in FrameSet(world)
    BY <1>2, <2>2, FramesPop DEF Inv
  <2>4. PICK a \in Nat \ {0} : a = Last(frames).at
    BY <2>3 DEF FrameSet
  <2>5. PICK l \in Nat : l = Len(world.values[Last(frames).value].elems)
    BY <2>2, <2>3 DEF FrameSet, ValuesOK
  <2>6. a \in 1 .. l
    BY <2>1, <2>4, <2>5
  <2>7. \A k \in 1 .. l : world.values[Last(frames).value].elems[k] \in DOMAIN world.values
    BY <2>2, <2>3, <2>5 DEF FrameSet, ValuesOK
  <2> QED  BY <2>1, <2>4, <2>6, <2>7
<1> QED  BY <1>1, <1>2

\* A step that throws.
LEMMA ThrowStep ==
  ASSUME NEW kind, NEW v, NEW ops, Inv, Throw(kind, v, ops), Plain(ops, Len(block)),
         UNCHANGED <<world, valueMap, frames>>
  PROVE  Inv'
<1>1. ValuesOK(world)
  BY WorldOK DEF Inv
<1>2. block' = block \o ops /\ pc' = "throw"
  BY DEF Throw
<1>3. /\ BlockInv(world, block \o ops, valueMap)
      /\ FramesInv(world, block \o ops, valueMap, frames)
  BY <1>1, PlainGrowth DEF Inv
<1> QED  BY <1>2, <1>3 DEF Inv

LEMMA EnterValueStep ==
  ASSUME NEW v, Inv, EnterValue(v)
  PROVE  Inv'
<1>1. ValuesOK(world) /\ v \in DOMAIN world.values /\ v \notin DOMAIN valueMap
  BY WorldOK, NextValue DEF Inv, EnterValue
<1>2. world' = world /\ valueMap' = valueMap /\ pc' = pc /\ pc # "done"
  BY DEF EnterValue, IsNext
<1>3. IsSeq(block) /\ BlockInv(world, block, valueMap) /\ FramesInv(world, block, valueMap, frames)
  BY DEF Inv, BlockInv
<1>4. CASE world.values[v].kind = "per_tensor_affine"
  <2> DEFINE op == Op("literal", v, <<>>, <<>>)
  <2>1. block' = Append(block, op) /\ frames' = Append(frames, Frame(v, <<Len(block')>>))
    BY <1>4 DEF EnterValue, Kind
  <2>2. op.op = "literal" /\ op.of = v /\ op.operands = <<>>
    BY DEF Op
  <2> HIDE DEF op
  <2>3. Plain(<<op>>, Len(block))
    <3>1. \A j \in DOMAIN op.operands : op.operands[j] \in 1 .. Len(block)
      BY <2>2
    <3> QED  BY <2>2, <3>1, OneOp DEF OpNames
  <2>4. PICK b : b = Append(block, op)
    OBVIOUS
  <2>5. b = block \o <<op>>
    BY <1>3, <2>4, AppendIsConcat
  <2>6. /\ BlockInv(world, b, valueMap)
        /\ FramesInv(world, b, valueMap, frames)
        /\ IsSeq(b)
    BY <1>1, <1>3, <2>3, <2>5, PlainGrowth
  <2>7. PICK n \in Nat : n = Len(block)
    BY <1>3, AppendIsSeq
  <2>8. Len(b) = n + 1 /\ b[n + 1] = op
    BY <1>3, <2>4, <2>7, AppendIsSeq
  <2>9. Consists(world, b, valueMap, v, <<n + 1>>, 0)
    <3>1. <<n + 1>> \in Seq(1 .. Len(b)) /\ Len(<<n + 1>>) = 1 /\ <<n + 1>>[1] = n + 1
      BY <2>8
    <3>2. Before(world, v) = 1
      BY <1>4 DEF Before
    <3>3. 0 \in 0 .. Len(world.values[v].elems) /\ 1 = 1 + 0
      BY <1>1 DEF ValuesOK
    <3> QED  BY <2>2, <2>8, <3>1, <3>2, <3>3 DEF Consists
  <2>10. FramesInv(world, b, valueMap, Append(frames, Frame(v, <<n + 1>>)))
    BY <1>1, <2>6, <2>9, NextValue, FramesPush DEF EnterValue
  <2>11. block' = b /\ frames' = Append(frames, Frame(v, <<n + 1>>))
    BY <2>1, <2>4, <2>8
  <2> QED  BY <1>2, <2>6, <2>10, <2>11 DEF Inv
<1>5. CASE world.values[v].kind # "per_tensor_affine"
  <2>1. block' = block /\ frames' = Append(frames, Frame(v, <<>>))
    BY <1>5 DEF EnterValue, Kind
  <2>2. Consists(world, block, valueMap, v, <<>>, 0)
    BY <1>1, <1>5, NothingYet
  <2>3. FramesInv(world, block, valueMap, frames')
    BY <1>1, <1>3, <2>1, <2>2, NextValue, FramesPush DEF EnterValue
  <2> QED  BY <1>2, <1>3, <2>1, <2>3 DEF Inv
<1> QED  BY <1>4, <1>5

LEMMA NewFuncsSeq ==
  ASSUME NEW v \in DOMAIN world.values, Inv, IsModule(v)
  PROVE  IsSeq(NewFuncs(v))
<1>1. IsSeq(world.units[world.unitOf[v]])
  BY UnitsAreSeqs DEF Inv, IsModule, Kind
<1>2. IsSeq(<<>>)
  BY DEF IsSeq
<1> QED  BY <1>1, <1>2 DEF NewFuncs

LEMMA EnterModuleStep ==
  ASSUME NEW v, Inv, EnterModule(v)
  PROVE  Inv'
<1>1. ValuesOK(world) /\ v \in DOMAIN world.values /\ v \notin DOMAIN valueMap /\ IsModule(v)
  BY WorldOK, NextValue DEF Inv, EnterModule
<1>2. world' = world /\ valueMap' = valueMap /\ pc' = pc /\ pc # "done"
  BY DEF EnterModule, IsNext
<1>3. BlockInv(world, block, valueMap) /\ FramesInv(world, block, valueMap, frames)
  BY DEF Inv
<1>4. Plain(FuncOps(NewFuncs(v)), Len(block))
  BY <1>1, NewFuncsSeq, FuncOpsPlain
<1>5. PICK b : b = block \o FuncOps(NewFuncs(v))
  OBVIOUS
<1>6. BlockInv(world, b, valueMap) /\ FramesInv(world, b, valueMap, frames)
  BY <1>1, <1>3, <1>4, <1>5, PlainGrowth
<1>7. Plain(ClassTypeOps(Of(v)), Len(b))
  <2>1. PICK op : op = ClassTypeOp(Of(v))
    OBVIOUS
  <2>2. op.op = "class_type" /\ op.operands = <<>>
    BY <2>1 DEF ClassTypeOp, Op
  <2>3. Plain(<<op>>, Len(b))
    <3>1. \A j \in DOMAIN op.operands : op.operands[j] \in 1 .. Len(b)
      BY <2>2
    <3> QED  BY <2>2, <3>1, OneOp DEF OpNames
  <2> QED  BY <2>1, <2>3, NoOps DEF ClassTypeOps
<1>8. PICK c : c = b \o ClassTypeOps(Of(v))
  OBVIOUS
<1>9. BlockInv(world, c, valueMap) /\ FramesInv(world, c, valueMap, frames) /\ IsSeq(c)
  BY <1>1, <1>6, <1>7, <1>8, PlainGrowth
<1>10. block' = c /\ frames' = Append(frames, Frame(v, <<>>))
  BY <1>5, <1>8 DEF EnterModule
<1>11. Consists(world, c, valueMap, v, <<>>, 0)
  BY <1>1, NothingYet DEF IsModule, Kind
<1>12. FramesInv(world, c, valueMap, frames')
  BY <1>1, <1>9, <1>10, <1>11, NextValue, FramesPush DEF EnterModule
<1> QED  BY <1>2, <1>9, <1>10, <1>12 DEF Inv

LEMMA RejectFunctionStep ==
  ASSUME NEW v, Inv, RejectFunction(v)
  PROVE  Inv'
<1>1. v \in DOMAIN world.values /\ IsModule(v)
  BY NextValue DEF RejectFunction
<1>2. PICK funcs : funcs = NewFuncs(v)
  OBVIOUS
<1>3. IsSeq(funcs)
  BY <1>1, <1>2, NewFuncsSeq
<1>4. PICK i \in DOMAIN funcs : Throw("function", v, FuncOps(SubSeq(funcs, 1, i - 1)))
  BY <1>2 DEF RejectFunction
<1>5. IsSeq(SubSeq(funcs, 1, i - 1))
  <2> DEFINE S == {funcs[k] : k \in DOMAIN funcs}
  <2>1. funcs \in Seq(S)
    BY <1>3 DEF IsSeq
  <2> HIDE DEF S
  <2>2. PICK t : t = SubSeq(funcs, 1, i - 1)
    OBVIOUS
  <2>3. PICK l \in Nat : l = Len(funcs) /\ DOMAIN funcs = 1 .. l
    BY <2>1
  <2>4. i - 1 \in 0 .. l
    BY <2>3
  <2>5. t \in Seq(S)
    BY <2>1, <2>2, <2>3, <2>4
  <2>6. t \in Seq({t[k] : k \in DOMAIN t})
    BY <2>5
  <2> QED  BY <2>2, <2>6 DEF IsSeq
<1>6. Plain(FuncOps(SubSeq(funcs, 1, i - 1)), Len(block))
  BY <1>5, FuncOpsPlain
<1> QED  BY <1>4, <1>6, ThrowStep DEF RejectFunction

LEMMA UnwindStep ==
  ASSUME Inv, Unwind
  PROVE  Inv'
<1>1. ValuesOK(world) /\ frames # <<>>
  BY WorldOK DEF Inv, Unwind
<1>2. world' = world /\ valueMap' = valueMap /\ pc' = pc /\ pc = "throw" /\ frames' = Front(frames)
  BY DEF Unwind
<1>3. BlockInv(world, block, valueMap) /\ IsSeq(block)
  BY DEF Inv, BlockInv
<1>4. FramesInv(world, block, valueMap, Front(frames)) /\ FrameOK(world, block, valueMap, Last(frames))
  BY <1>1, FramesPop DEF Inv
<1>5. CASE IsModule(Top.value)
  <2>1. PICK op : op = Op("incomplete", Top.value, Top.operands, <<>>)
    OBVIOUS
  <2>2. op.op = "incomplete" /\ op.operands = Last(frames).operands
    BY <2>1 DEF Op, Top
  <2>3. \A j \in DOMAIN op.operands : op.operands[j] \in 1 .. Len(block)
    BY <1>4, <2>2 DEF FrameOK, Consists
  <2>4. Plain(<<op>>, Len(block))
    BY <2>2, <2>3, OneOp DEF OpNames
  <2>5. block' = block \o <<op>>
    BY <1>3, <1>5, <2>1, AppendIsConcat DEF Unwind
  <2>6. /\ BlockInv(world, block \o <<op>>, valueMap)
        /\ FramesInv(world, block \o <<op>>, valueMap, Front(frames))
    BY <1>1, <1>3, <1>4, <2>4, PlainGrowth
  <2> QED  BY <1>2, <2>5, <2>6 DEF Inv
<1>6. CASE ~ IsModule(Top.value)
  <2>1. block' = block
    BY <1>6 DEF Unwind
  <2> QED  BY <1>2, <1>3, <1>4, <2>1 DEF Inv
<1> QED  BY <1>5, <1>6

LEMMA LeaveStep ==
  ASSUME Inv, Leave
  PROVE  Inv'
<1>1. ValuesOK(world) /\ frames # <<>>
  BY WorldOK DEF Inv, Leave
<1>2. world' = world /\ pc' = pc /\ pc = "import"
  BY DEF Leave
<1>3. BlockInv(world, block, valueMap) /\ IsSeq(block)
  BY DEF Inv, BlockInv
<1>4. PICK f : f = Last(frames)
  OBVIOUS
<1>5. PICK gs : gs = Front(frames)
  OBVIOUS
<1>6. /\ FramesInv(world, block, valueMap, gs)
      /\ f \in FrameSet(world)
      /\ FrameOK(world, block, valueMap, f)
      /\ \A i \in 1 .. Len(gs) : gs[i].value # f.value
      /\ gs # <<>> => /\ Last(gs).at <= Len(world.values[Last(gs).value].elems)
                      /\ f.value = world.values[Last(gs).value].elems[Last(gs).at]
  BY <1>1, <1>4, <1>5, FramesPop DEF Inv
<1>7. PICK v \in DOMAIN world.values : v = f.value
  BY <1>6 DEF FrameSet
<1>8. v \notin DOMAIN valueMap
  BY <1>6, <1>7 DEF FrameOK
<1>9. Consists(world, block, valueMap, v, f.operands, Len(world.values[v].elems))
  <2>1. PICK a \in Nat \ {0} : a = f.at
    BY <1>6 DEF FrameSet
  <2>2. PICK l \in Nat : l = Len(world.values[v].elems)
    BY <1>1 DEF ValuesOK
  <2>3. ~ (a <= l)
    BY <1>1, <1>4, <1>7, <2>1, <2>2 DEF Leave, AtElement, Top, Elems
  <2>4. Consists(world, block, valueMap, v, f.operands, a - 1)
    BY <1>6, <1>7, <2>1 DEF FrameOK
  <2>5. a - 1 \in 0 .. l
    BY <2>2, <2>4 DEF Consists
  <2>6. a - 1 = l
    BY <2>3, <2>5
  <2> QED  BY <2>2, <2>4, <2>6
<1> DEFINE b == Append(block, [op |-> "value", of |-> v, operands |-> f.operands, info |-> <<>>])
           vm == [u \in DOMAIN valueMap \cup {v} |-> IF u = v THEN Len(block) + 1 ELSE valueMap[u]]
<1>10. /\ BlockInv(world, b, vm) /\ Extends(block, b) /\ MapExtends(valueMap, vm)
       /\ IsSeq(b) /\ Len(b) = Len(block) + 1
  <2>1. PICK vm2 : vm2 = vm
    OBVIOUS
  <2>2. PICK op : op = [op |-> "value", of |-> v, operands |-> f.operands, info |-> <<>>]
    OBVIOUS
  <2>3. op.op = "value" /\ op.of = v /\ op.operands = f.operands
    BY <2>2
  <2>4. PICK b2 : b2 = Append(block, op)
    OBVIOUS
  <2>5. DOMAIN vm2 = DOMAIN valueMap \cup {v} /\ vm2[v] = Len(block) + 1
    BY <2>1
  <2>6. \A u \in DOMAIN valueMap : vm2[u] = valueMap[u]
    BY <1>8, <2>1
  <2>7. Len(b2) = Len(block) + 1
    BY <1>3, <2>4, AppendIsSeq
  <2>8. Adds(valueMap, vm2, v, Len(b2))
    BY <2>5, <2>6, <2>7 DEF Adds
  <2>9. /\ BlockInv(world, b2, vm2) /\ Extends(block, b2) /\ MapExtends(valueMap, vm2)
        /\ IsSeq(b2)
    <3> HIDE DEF b, vm
    <3>1. Consists(world, block, valueMap, v, op.operands, Len(world.values[v].elems))
      BY <1>9, <2>3
    <3> QED  BY <1>1, <1>3, <1>7, <1>8, <2>3, <2>4, <2>8, <3>1, ValueOp
  <2> QED  BY <2>1, <2>2, <2>4, <2>7, <2>9
<1>11. block' = b
  BY <1>4, <1>7 DEF Leave, Emit, Op, Top
<1>12. valueMap' = vm
  <2>1. valueMap' = Record(v, Len(b))
    BY <1>4, <1>7, <1>11 DEF Leave, Top
  <2> QED  BY <2>1, <1>10 DEF Record
<1>13. v \in DOMAIN vm /\ vm[v] = Len(b) /\ DOMAIN vm = DOMAIN valueMap \cup {v}
  BY <1>10
<1> HIDE DEF b, vm
<1>14. \A i \in 1 .. Len(gs) : gs[i].value \notin DOMAIN vm
  BY <1>6, <1>7, <1>13 DEF FramesInv, FrameOK
<1>15. FramesInv(world, b, vm, gs)
  BY <1>1, <1>3, <1>6, <1>10, <1>14, FramesKept
<1>16. vm[v] \in 1 .. Len(b)
  BY <1>10, <1>13 DEF BlockInv
<1>17. FramesInv(world, b, vm, Return(gs, vm[v]))
  BY <1>1, <1>6, <1>7, <1>10, <1>13, <1>15, <1>16, FramesReturn
<1>18. frames' = Return(gs, vm[v])
  BY <1>5, <1>11, <1>13 DEF Leave
<1> QED  BY <1>2, <1>10, <1>11, <1>12, <1>17, <1>18 DEF Inv

LEMMA NextInv == Inv /\ [Next]_vars => Inv'
<1> SUFFICES ASSUME Inv, [Next]_vars
             PROVE  Inv'
  OBVIOUS
<1>1. CASE UNCHANGED vars
  BY <1>1 DEF vars, importVars, Inv
<1>2. CASE Annotate
  <2>1. world' = world
    BY <1>2 DEF Annotate, AnnotatorNext, ExportNone, ExportPath, AnnotateArgs
  <2> QED  BY <1>2, <2>1 DEF Annotate, importVars, Inv
<1>3. CASE StartImport
  BY <1>3 DEF StartImport, importVars, Inv
<1>4. ASSUME NEW v, ImportKnown(v)
      PROVE  Inv'
  <2>1. /\ world' = world /\ block' = block /\ valueMap' = valueMap /\ pc' = pc
        /\ frames' = Return(frames, valueMap[v])
    BY <1>4 DEF ImportKnown
  <2>2. ValuesOK(world) /\ IsSeq(block) /\ v \in DOMAIN valueMap /\ valueMap[v] \in 1 .. Len(block)
    BY <1>4, WorldOK DEF Inv, BlockInv, ImportKnown
  <2>3. FramesInv(world, block, valueMap, Return(frames, valueMap[v]))
    BY <1>4, <2>2, NextValue, FramesReturn DEF Inv, ImportKnown
  <2> QED  BY <2>1, <2>3 DEF Inv
<1>5. ASSUME NEW v, RejectSharedStorage(v)
      PROVE  Inv'
  BY <1>5, NoOps, ThrowStep DEF RejectSharedStorage
<1>6. ASSUME NEW v, RejectUnsupported(v)
      PROVE  Inv'
  <2>1. PICK op : op = Op("literal", v, <<>>, <<>>)
    OBVIOUS
  <2>2. op.op = "literal" /\ op.operands = <<>>
    BY <2>1 DEF Op
  <2>3. \A j \in DOMAIN op.operands : op.operands[j] \in 1 .. Len(block)
    BY <2>2
  <2>4. Plain(<<op>>, Len(block))
    BY <2>2, <2>3, OneOp DEF OpNames
  <2>5. CASE IsTensor(v)
    BY <1>6, <2>1, <2>4, <2>5, ThrowStep DEF RejectUnsupported
  <2>6. CASE ~ IsTensor(v)
    BY <1>6, <2>6, NoOps, ThrowStep DEF RejectUnsupported
  <2> QED  BY <2>5, <2>6
<1>7. ASSUME NEW v, RejectSecondUnit(v)
      PROVE  Inv'
  BY <1>7, NoOps, ThrowStep DEF RejectSecondUnit
<1>8. CASE ImportDone
  BY <1>8 DEF ImportDone, importVars, Inv
<1>9. CASE ImportFails
  BY <1>9 DEF ImportFails, importVars, Inv
<1>10. CASE Terminated
  BY <1>10 DEF Terminated, vars, importVars, Inv
<1> QED  BY <1>1, <1>2, <1>3, <1>4, <1>5, <1>6, <1>7, <1>8, <1>9, <1>10,
            EnterValueStep, EnterModuleStep, RejectFunctionStep, UnwindStep, LeaveStep
         DEF Next, ImportNext

LEMMA Invariance == Spec => []Inv
<1>1. Init => Inv
  BY InitInv
<1>2. Inv /\ [Next]_vars => Inv'
  BY NextInv
<1> QED  BY <1>1, <1>2, PTL DEF Spec

-----------------------------------------------------------------------------
\* The theorems

\* The import keeps its books: what valueMap says is there is there, and every
\* frame is at an element of its value or at their end.
THEOREM ImportTypeCorrect == Spec => []TypeOK
<1>1. Inv => TypeOK
  <2> SUFFICES ASSUME Inv
               PROVE  TypeOK
    OBVIOUS
  <2>1. BlockInv(world, block, valueMap) /\ FramesInv(world, block, valueMap, frames)
    BY DEF Inv
  <2>2. \A i \in Positions : block[i].op \in {"func", "class_type", "literal", "value", "incomplete"}
    BY <2>1 DEF BlockInv, OpNames, Positions
  <2>3. /\ DOMAIN valueMap \subseteq DOMAIN world.values
        /\ \A v \in DOMAIN valueMap : valueMap[v] \in Positions
    BY <2>1 DEF BlockInv, Positions
  <2>4. ASSUME NEW i \in DOMAIN frames
        PROVE  /\ frames[i].value \in DOMAIN world.values
               /\ frames[i].at \in 1 .. Len(Elems(frames[i].value)) + 1
    <3>1. frames[i] \in FrameSet(world) /\ FrameOK(world, block, valueMap, frames[i])
      BY <2>1 DEF FramesInv
    <3>2. frames[i].value \in DOMAIN world.values
      BY <3>1 DEF FrameSet
    <3>3. PICK a \in Nat \ {0} : a = frames[i].at
      BY <3>1 DEF FrameSet
    <3>4. PICK l \in Nat : l = Len(Elems(frames[i].value))
      BY <3>2, WorldOK DEF Inv, ValuesOK, Elems
    <3>5. a - 1 \in 0 .. l
      BY <3>1, <3>3, <3>4 DEF FrameOK, Consists, Elems
    <3>6. a \in 1 .. l + 1
      BY <3>5
    <3> QED  BY <3>2, <3>3, <3>4, <3>6
  <2> QED  BY <2>2, <2>3, <2>4 DEF TypeOK, Inv
<1> QED  BY <1>1, Invariance, PTL

\* Whatever an op refers to comes before it, in what a successful import, a
\* failed one and one that is under way have built.
THEOREM Dominance == Spec => []OperandsDominate
<1>1. Inv => OperandsDominate
  BY DEF Inv, BlockInv, OperandsDominate, Positions
<1> QED  BY <1>1, Invariance, PTL

\* A successful import has the root, and each object it has is one op, whose
\* operands are the ops of the objects that it consists of.
THEOREM Isomorphism == Spec => []ImportedGraphIsIsomorphic
<1>1. Inv => ImportedGraphIsIsomorphic
  <2> SUFFICES ASSUME Inv, pc = "done", NEW v \in DOMAIN valueMap
               PROVE  /\ OpsOf(v) = {valueMap[v]}
                      /\ LET operands == block[valueMap[v]].operands
                             first    == Len(operands) - Len(Elems(v))
                         IN /\ first = IF Kind(v) = "per_tensor_affine" THEN 1 ELSE 0
                            /\ first = 1 => block[operands[1]].op = "literal" /\ block[operands[1]].of = v
                            /\ \A j \in DOMAIN Elems(v) :
                                 /\ Elems(v)[j] \in DOMAIN valueMap
                                 /\ operands[first + j] = valueMap[Elems(v)[j]]
    BY DEF ImportedGraphIsIsomorphic, Inv
  <2>1. BlockInv(world, block, valueMap)
    BY DEF Inv
  <2>2. OpsOf(v) = {valueMap[v]}
    <3>1. \A i \in Positions : block[i].op = "value" /\ block[i].of = v => i = valueMap[v]
      BY <2>1 DEF BlockInv, Positions
    <3>2. valueMap[v] \in Positions /\ block[valueMap[v]].op = "value" /\ block[valueMap[v]].of = v
      BY <2>1 DEF BlockInv, Positions
    <3> QED  BY <3>1, <3>2 DEF OpsOf
  <2>3. PICK operands : operands = block[valueMap[v]].operands
    OBVIOUS
  <2>4. v \in DOMAIN world.values
        /\ Consists(world, block, valueMap, v, operands, Len(world.values[v].elems))
    BY <2>1, <2>3 DEF BlockInv
  <2>5. PICK f \in 0 .. 1 : f = Before(world, v)
    BY DEF Before
  <2>6. f = IF Kind(v) = "per_tensor_affine" THEN 1 ELSE 0
    BY <2>5 DEF Before, Kind
  <2>7. PICK n \in Nat : n = Len(Elems(v)) /\ DOMAIN Elems(v) = 1 .. n
    <3>1. Elems(v) \in Seq(DOMAIN world.values)
      BY <2>4, WorldsWellFormed DEF Elems, Inv
    <3> QED  BY <3>1
  <2>8. Len(operands) - n = f
    <3>1. Len(operands) = f + n
      BY <2>4, <2>5, <2>7 DEF Consists, Elems
    <3> QED  BY <3>1
  <2>9. f = 1 => block[operands[1]].op = "literal" /\ block[operands[1]].of = v
    BY <2>4, <2>5 DEF Consists
  <2>10. \A j \in 1 .. n : Elems(v)[j] \in DOMAIN valueMap /\ operands[f + j] = valueMap[Elems(v)[j]]
    BY <2>4, <2>5, <2>7 DEF Consists, Elems
  <2> QED  BY <2>2, <2>3, <2>6, <2>7, <2>8, <2>9, <2>10
<1> QED  BY <1>1, Invariance, PTL

-----------------------------------------------------------------------------
\* Storages

Values(fs) == {fs[i].value : i \in 1 .. Len(fs)}

\* What has been imported and what is being imported.
Held == DOMAIN valueMap \cup Values(frames)

Unshared(w, held, seen) ==
  \A u \in held : w.values[u].kind \in Tensors =>
    /\ w.values[u].of \in seen
    /\ \A v \in held : v # u /\ w.values[v].kind \in Tensors => w.values[v].of # w.values[u].of

LEMMA FewerValues ==
  ASSUME NEW w, NEW held, NEW held2, NEW seen, NEW seen2,
         Unshared(w, held, seen), held2 \subseteq held, seen \subseteq seen2
  PROVE  Unshared(w, held2, seen2)
BY DEF Unshared

LEMMA OneMoreValue ==
  ASSUME NEW w, NEW held, NEW held2, NEW seen, NEW seen2, NEW v,
         Unshared(w, held, seen), held2 \subseteq held \cup {v}, seen \subseteq seen2,
         w.values[v].kind \in Tensors => w.values[v].of \notin seen /\ w.values[v].of \in seen2
  PROVE  Unshared(w, held2, seen2)
BY DEF Unshared

LEMMA FrameValues ==
  ASSUME NEW w, NEW fs \in Seq(FrameSet(w)), NEW v \in DOMAIN w.values, NEW operands \in Seq(Nat)
  PROVE  /\ Values(Append(fs, Frame(v, operands))) = Values(fs) \cup {v}
         /\ fs # <<>> => Values(fs) = Values(Front(fs)) \cup {Last(fs).value}
<1>1. PICK n \in Nat : n = Len(fs)
  OBVIOUS
<1>2. PICK f : f = Frame(v, operands)
  OBVIOUS
<1>3. f \in FrameSet(w) /\ f.value = v
  BY <1>2 DEF Frame, FrameSet
<1>4. PICK gs : gs = Append(fs, f)
  OBVIOUS
<1>5. Len(gs) = n + 1 /\ gs[n + 1] = f /\ \A i \in 1 .. n : gs[i] = fs[i]
  BY <1>1, <1>3, <1>4
<1>6. \A i : i \in 1 .. n + 1 <=> i = n + 1 \/ i \in 1 .. n
  OBVIOUS
<1>7. Values(gs) = Values(fs) \cup {v}
  BY <1>1, <1>3, <1>5, <1>6 DEF Values
<1>8. ASSUME fs # <<>>
      PROVE  Values(fs) = Values(Front(fs)) \cup {Last(fs).value}
  <2>1. n > 0 /\ n \in 1 .. n /\ Last(fs) = fs[n]
    BY <1>1, <1>8 DEF Last
  <2>2. Len(Front(fs)) = n - 1 /\ \A i \in 1 .. n - 1 : Front(fs)[i] = fs[i]
    BY <1>1, <2>1 DEF Front
  <2>3. \A i : i \in 1 .. n <=> i = n \/ i \in 1 .. n - 1
    BY <2>1
  <2> QED  BY <1>1, <2>1, <2>2, <2>3 DEF Values
<1> QED  BY <1>2, <1>4, <1>7, <1>8

LEMMA ReturnValues ==
  ASSUME NEW w, NEW fs \in Seq(FrameSet(w)), NEW p \in Nat
  PROVE  /\ Len(Return(fs, p)) = Len(fs)
         /\ \A i \in 1 .. Len(fs) : Return(fs, p)[i].value = fs[i].value
         /\ Values(Return(fs, p)) = Values(fs)
<1>1. CASE fs = <<>>
  BY <1>1 DEF Return
<1>2. CASE fs # <<>>
  <2>1. PICK n \in Nat : n = Len(fs)
    OBVIOUS
  <2>2. n > 0 /\ n \in 1 .. n /\ Last(fs) = fs[n]
    BY <1>2, <2>1 DEF Last
  <2>3. PICK g : g = [value |-> fs[n].value, at |-> fs[n].at + 1, operands |-> Append(fs[n].operands, p)]
    OBVIOUS
  <2>4. g \in FrameSet(w) /\ g.value = fs[n].value
    <3>1. fs[n] \in FrameSet(w)
      BY <2>1, <2>2
    <3>2. fs[n].value \in DOMAIN w.values /\ fs[n].at + 1 \in Nat \ {0}
      BY <3>1 DEF FrameSet
    <3>3. Append(fs[n].operands, p) \in Seq(Nat)
      BY <3>1 DEF FrameSet
    <3> QED  BY <2>3, <3>2, <3>3 DEF FrameSet
  <2>5. PICK gs : gs = Append(Front(fs), g)
    OBVIOUS
  <2>6. Return(fs, p) = gs
    BY <1>2, <2>2, <2>3, <2>5 DEF Return, Advance
  <2>7. Len(gs) = n /\ gs[n] = g /\ \A i \in 1 .. n - 1 : gs[i] = fs[i]
    <3>1. /\ Front(fs) \in Seq(FrameSet(w)) /\ Len(Front(fs)) = n - 1
          /\ \A i \in 1 .. n - 1 : Front(fs)[i] = fs[i]
      BY <2>1, <2>2 DEF Front
    <3> QED  BY <3>1, <2>4, <2>5
  <2>8. \A i \in 1 .. n : gs[i].value = fs[i].value
    <3>1. \A i \in 1 .. n : i = n \/ i \in 1 .. n - 1
      OBVIOUS
    <3> QED  BY <3>1, <2>4, <2>7
  <2> QED  BY <2>1, <2>6, <2>7, <2>8 DEF Values
<1> QED  BY <1>1, <1>2

\* A value that is imported next is not one of those being imported: it has a
\* lesser depth than all of them.
LEMMA NextIsNew ==
  ASSUME NEW v, Inv, IsNext(v), v \notin DOMAIN valueMap
  PROVE  v \notin Held
<1> SUFFICES ASSUME NEW i \in 1 .. Len(frames), frames[i].value = v PROVE FALSE
  BY DEF Held, Values
<1>0. frames \in Seq(FrameSet(world)) /\ ValuesOK(world) /\ FramesInv(world, block, valueMap, frames)
  BY WorldOK DEF Inv, FramesInv
<1>2. PICK n \in Nat : n = Len(frames)
  BY <1>0
<1>1. /\ frames # <<>>
      /\ \A k \in 1 .. n : /\ frames[k].value \in DOMAIN world.values
                          /\ frames[k].at \in Nat \ {0}
  <2>1. n # 0
    BY <1>2
  <2>2. ASSUME NEW k \in 1 .. n PROVE frames[k].value \in DOMAIN world.values /\ frames[k].at \in Nat \ {0}
    <3>1. frames[k] \in FrameSet(world)
      BY <1>0, <1>2
    <3> QED  BY <3>1 DEF FrameSet
  <2> QED  BY <1>0, <1>2, <2>1, <2>2
<1>3. n \in 1 .. n /\ Last(frames) = frames[n] /\ (i = n \/ i < n)
  BY <1>1, <1>2 DEF Last
<1>4. PICK t \in DOMAIN world.values : t = frames[n].value
  BY <1>1, <1>2, <1>3
<1>5. /\ Last(frames).at \in 1 .. Len(world.values[t].elems)
      /\ v = world.values[t].elems[Last(frames).at]
  <2>1. /\ Last(frames).at <= Len(world.values[t].elems)
        /\ v = world.values[t].elems[Last(frames).at]
    BY <1>1, <1>3, <1>4, NextValue
  <2>2. Last(frames).at \in Nat \ {0} /\ Len(world.values[t].elems) \in Nat
    BY <1>0, <1>1, <1>3, <1>4 DEF ValuesOK
  <2> QED  BY <2>1, <2>2
<1>6. world.depth[v] < world.depth[t] /\ v \in DOMAIN world.values
  BY <1>0, <1>4, <1>5 DEF ValuesOK
<1>7. world.depth[t] \in Nat /\ world.depth[v] \in Nat
  BY <1>0, <1>4, <1>6 DEF ValuesOK
<1>8. i < n => world.depth[t] < world.depth[v]
  BY <1>0, <1>2, <1>3, <1>4 DEF FramesInv
<1> QED  BY <1>3, <1>4, <1>6, <1>7, <1>8

LEMMA Thrown ==
  ASSUME NEW kind, NEW v, NEW ops, Throw(kind, v, ops)
  PROVE  diag'.kind = kind
BY DEF Throw

\* How what is held and the storages seen change.
LEMMA HeldStep ==
  ASSUME Inv, [Next]_vars
  PROVE  /\ world' = world
         /\ \/ Held' = Held /\ seenStorageImpls' = seenStorageImpls
            \/ \E v \in DOMAIN world.values :
                 /\ IsNext(v) /\ ~ SharesStorage(v)
                 /\ Held' = Held \cup {v} /\ seenStorageImpls' = seenStorageImpls \cup StorageOf(v)
            \/ pc' = "throw" /\ Held' \subseteq Held /\ seenStorageImpls \subseteq seenStorageImpls'
         /\ \/ diag' = diag \/ diag'.kind # "shares storage"
            \/ \E v \in DOMAIN world.values : RejectSharedStorage(v)
<1> DEFINE Goal ==
      /\ world' = world
      /\ \/ Held' = Held /\ seenStorageImpls' = seenStorageImpls
         \/ \E v \in DOMAIN world.values :
              /\ IsNext(v) /\ ~ SharesStorage(v)
              /\ Held' = Held \cup {v} /\ seenStorageImpls' = seenStorageImpls \cup StorageOf(v)
         \/ pc' = "throw" /\ Held' \subseteq Held /\ seenStorageImpls \subseteq seenStorageImpls'
      /\ \/ diag' = diag \/ diag'.kind # "shares storage"
         \/ \E v \in DOMAIN world.values : RejectSharedStorage(v)
<1> SUFFICES Goal
  OBVIOUS
<1>1. frames \in Seq(FrameSet(world))
  BY DEF Inv, FramesInv
<1>2. UNCHANGED <<valueMap, frames>> => Held' = Held
  BY DEF Held
<1>3. CASE UNCHANGED vars
  BY <1>2, <1>3 DEF vars, importVars
<1>4. CASE Annotate
  <2>1. world' = world
    BY <1>4 DEF Annotate, AnnotatorNext, ExportNone, ExportPath, AnnotateArgs
  <2> QED  BY <1>2, <1>4, <2>1 DEF Annotate, importVars
<1>5. CASE StartImport \/ ImportDone \/ ImportFails \/ Terminated
  BY <1>2, <1>5 DEF StartImport, ImportDone, ImportFails, Terminated, vars, importVars
<1>6. ASSUME NEW v \in DOMAIN world.values,
             RejectSharedStorage(v) \/ RejectUnsupported(v) \/ RejectSecondUnit(v) \/ RejectFunction(v)
      PROVE  Goal
  <2>1. world' = world /\ UNCHANGED <<valueMap, frames>> /\ seenStorageImpls \subseteq seenStorageImpls' /\ pc' = "throw"
    BY <1>6 DEF RejectSharedStorage, RejectUnsupported, RejectSecondUnit, RejectFunction, Throw
  <2>2. RejectSharedStorage(v) \/ diag'.kind # "shares storage"
    <3>1. RejectUnsupported(v) => diag'.kind = "unsupported"
      BY DEF RejectUnsupported, Throw
    <3>2. RejectSecondUnit(v) => diag'.kind = "two units"
      <4> SUFFICES ASSUME RejectSecondUnit(v) PROVE diag'.kind = "two units"
        OBVIOUS
      <4>1. Throw("two units", v, <<>>)
        BY Zenon DEF RejectSecondUnit
      <4> QED  BY <4>1, Thrown
    <3>3. RejectFunction(v) => diag'.kind = "function"
      BY DEF RejectFunction, Throw
    <3> QED  BY <1>6, <3>1, <3>2, <3>3
  <2> QED  BY <1>2, <2>1, <2>2
<1>7. ASSUME NEW v, ImportKnown(v)
      PROVE  Goal
  <2>1. valueMap[v] \in Nat
    <3>1. valueMap[v] \in 1 .. Len(block)
      BY <1>7 DEF Inv, BlockInv, ImportKnown
    <3>2. IsSeq(block)
      BY DEF Inv, BlockInv
    <3> QED  BY <3>1, <3>2, AppendIsSeq
  <2>2. /\ frames' = Return(frames, valueMap[v])
        /\ UNCHANGED <<world, valueMap, seenStorageImpls, diag>>
    BY <1>7 DEF ImportKnown
  <2>3. Values(frames') = Values(frames)
    BY <1>1, <2>1, <2>2, ReturnValues
  <2> QED  BY <2>2, <2>3 DEF Held
<1>8. ASSUME NEW v \in DOMAIN world.values, EnterValue(v) \/ EnterModule(v)
      PROVE  Goal
  <2>1. UNCHANGED <<world, valueMap, diag>>
    BY <1>8 DEF EnterValue, EnterModule
  <2>2. PICK operands \in Seq(Nat) : frames' = Append(frames, Frame(v, operands))
    <3>1. Inv'
      BY <1>8, EnterValueStep, EnterModuleStep
    <3>2. Len(block') \in Nat
      <4>1. IsSeq(block')
        BY <3>1 DEF Inv, BlockInv
      <4> QED  BY <4>1, AppendIsSeq
    <3>3. <<>> \in Seq(Nat) /\ <<Len(block')>> \in Seq(Nat)
      BY <3>2
    <3> QED  BY <1>8, <3>3 DEF EnterValue, EnterModule
  <2>3. Held' = Held \cup {v}
    BY <1>1, <2>1, <2>2, FrameValues DEF Held
  <2>4. IsNext(v) /\ ~ SharesStorage(v) /\ seenStorageImpls' = seenStorageImpls \cup StorageOf(v)
    BY <1>8 DEF EnterValue, EnterModule, SharesStorage, StorageOf, IsTensor, IsModule, Tensors
  <2> QED  BY <2>1, <2>3, <2>4
<1>9. CASE Unwind
  <2>1. /\ UNCHANGED <<world, valueMap, seenStorageImpls, diag, pc>> /\ pc = "throw"
        /\ frames # <<>> /\ frames' = Front(frames)
    BY <1>9 DEF Unwind
  <2>2. Values(Front(frames)) \subseteq Values(frames)
    <3>1. Last(frames) \in FrameSet(world)
      BY <2>1, WorldOK, FramesPop DEF Inv
    <3>2. Last(frames).value \in DOMAIN world.values /\ <<>> \in Seq(Nat)
      BY <3>1 DEF FrameSet
    <3> QED  BY <1>1, <2>1, <3>2, FrameValues
  <2> QED  BY <2>1, <2>2 DEF Held
<1>10. CASE Leave
  <2>1. /\ UNCHANGED <<world, seenStorageImpls, diag>> /\ frames # <<>>
        /\ valueMap' = Record(Last(frames).value, Len(block'))
        /\ frames' = Return(Front(frames), Len(block'))
    BY <1>10 DEF Leave, Top
  <2>2. Len(block') \in Nat
    <3>1. Inv'
      BY <1>10, LeaveStep
    <3>2. IsSeq(block')
      BY <3>1 DEF Inv, BlockInv
    <3> QED  BY <3>2, AppendIsSeq
  <2>3. Values(frames) = Values(Front(frames)) \cup {Last(frames).value}
    <3>1. Last(frames) \in FrameSet(world)
      BY <2>1, WorldOK, FramesPop DEF Inv
    <3>2. Last(frames).value \in DOMAIN world.values /\ <<>> \in Seq(Nat)
      BY <3>1 DEF FrameSet
    <3> QED  BY <1>1, <2>1, <3>2, FrameValues
  <2>4. Front(frames) \in Seq(FrameSet(world))
    BY <2>1, WorldOK, FramesPop DEF Inv, FramesInv
  <2>5. Values(frames') = Values(Front(frames))
    BY <2>1, <2>2, <2>4, ReturnValues
  <2>6. DOMAIN valueMap' = DOMAIN valueMap \cup {Last(frames).value}
    BY <2>1 DEF Record
  <2>7. Held' = Held
    BY <2>3, <2>5, <2>6 DEF Held
  <2> QED  BY <2>1, <2>7
<1> HIDE DEF Goal
<1> QED  BY <1>3, <1>4, <1>5, <1>6, <1>7, <1>8, <1>9, <1>10 DEF Next, ImportNext

StorageInv == Inv /\ Unshared(world, Held, seenStorageImpls)

LEMMA StorageStep == StorageInv /\ [Next]_vars => StorageInv'
<1> SUFFICES ASSUME StorageInv, [Next]_vars
             PROVE  Unshared(world, Held, seenStorageImpls)'
  BY NextInv DEF StorageInv
<1>1. Inv /\ Unshared(world, Held, seenStorageImpls)
  BY DEF StorageInv
<1>2. world' = world
  BY <1>1, HeldStep
<1>3. CASE Held' \subseteq Held /\ seenStorageImpls \subseteq seenStorageImpls'
  BY <1>1, <1>2, <1>3, FewerValues
<1>4. ASSUME NEW v, ~ SharesStorage(v), Held' = Held \cup {v}, seenStorageImpls' = seenStorageImpls \cup StorageOf(v)
      PROVE  Unshared(world, Held, seenStorageImpls)'
  <2>1. world.values[v].kind \in Tensors => /\ world.values[v].of \notin seenStorageImpls
                                           /\ world.values[v].of \in seenStorageImpls'
    BY <1>4 DEF SharesStorage, StorageOf, IsTensor, Kind, Of
  <2>2. PICK w : w = world
    OBVIOUS
  <2>3. Unshared(w, Held', seenStorageImpls')
    BY <1>1, <1>4, <2>1, <2>2, OneMoreValue
  <2> QED  BY <1>2, <2>2, <2>3 DEF Unshared
<1> QED  BY <1>1, <1>3, <1>4, HeldStep

\* No two tensors that have been imported share a storage.
NoSharedStorage ==
  \A u, v \in DOMAIN valueMap : u # v /\ IsTensor(u) /\ IsTensor(v) => Of(u) # Of(v)

\* No two tensors that have been imported share a storage, in any state.
LEMMA StoragesUnshared == Spec => []NoSharedStorage
<1>1. Init => StorageInv
  <2> SUFFICES ASSUME Init
               PROVE  Unshared(world, Held, seenStorageImpls)
    BY InitInv DEF StorageInv
  <2>1. DOMAIN valueMap = {} /\ frames = <<>>
    BY DEF Init
  <2>2. Held = {}
    BY <2>1 DEF Held, Values
  <2> QED  BY <2>2 DEF Unshared
<1>2. StorageInv => NoSharedStorage
  BY DEF StorageInv, Unshared, NoSharedStorage, Held, IsTensor, Kind, Of
<1> QED  BY <1>1, <1>2, StorageStep, PTL DEF Spec

\* Which values hold which.
Vals == DOMAIN world.values
Holds == {e \in Vals \X Vals : e[2] \in ToSet(Elems(e[1]))}

LEMMA ElemsOK ==
  ASSUME world \in Worlds, NEW v \in Vals
  PROVE  ToSet(Elems(v)) \in SUBSET Vals
<1>1. world.values[v].elems \in Seq(Vals)
  BY WorldsWellFormed DEF Vals
<1> QED  BY <1>1 DEF Elems, ToSet

LEMMA BelowClosure ==
  ASSUME world \in Worlds, NEW v \in Vals
  PROVE  IsClosure(Vals, Holds, {v}, ValuesBelow(v))
<1> DEFINE More(above) == UNION {ToSet(Elems(u)) : u \in above}
           upTo == CHOOSE upTo : upTo = [k \in Nat |->
                     IF k = 0 THEN {v} ELSE LET above == upTo[k - 1] IN above \cup More(above)]
<1>1. {v} \in SUBSET Vals /\ IsFiniteSet(Vals)
  BY WorldsWellFormed DEF Vals
<1>2. \A above \in SUBSET Vals : More(above) = {p \in Vals : \E m \in above : <<m, p>> \in Holds}
  <2> TAKE above \in SUBSET Vals
  <2>1. \A m \in Vals : \A p : <<m, p>> \in Holds <=> p \in Vals /\ p \in ToSet(Elems(m))
    BY DEF Holds
  <2>2. \A p : p \in More(above) <=> \E m \in above : p \in ToSet(Elems(m))
    OBVIOUS
  <2>3. \A m \in Vals : ToSet(Elems(m)) \in SUBSET Vals
    BY ElemsOK
  <2> HIDE DEF More
  <2> QED  BY <2>1, <2>2, <2>3
<1> HIDE DEF More
<1>3. PICK g \in [Nat -> SUBSET Vals] : IsSearch(Vals, Holds, {v}, g)
  BY <1>1, SearchExists
<1>4. g = [k \in Nat |-> IF k = 0 THEN {v} ELSE LET above == g[k - 1] IN above \cup More(above)]
  <2>1. ASSUME NEW k \in Nat, k # 0 PROVE g[k] = g[k - 1] \cup More(g[k - 1])
    <3>1. k - 1 \in Nat /\ (k - 1) + 1 = k /\ g[k - 1] \in SUBSET Vals
      BY <1>3, <2>1
    <3> QED  BY <1>2, <1>3, <3>1 DEF IsSearch
  <2> QED  BY <1>3, <2>1 DEF IsSearch
<1>5. upTo = [k \in Nat |-> IF k = 0 THEN {v} ELSE LET above == upTo[k - 1] IN above \cup More(above)]
  BY <1>4
<1>6. ValuesBelow(v) = upTo[Cardinality(Vals)]
  BY DEF ValuesBelow, More, Vals
<1> HIDE DEF upTo
<1>7. upTo[0] = {v} /\ \A k \in Nat : upTo[k + 1] = upTo[k] \cup More(upTo[k])
  <2>1. upTo[0] = {v}
    BY <1>5
  <2>2. ASSUME NEW k \in Nat PROVE upTo[k + 1] = upTo[k] \cup More(upTo[k])
    <3>1. k + 1 \in Nat /\ k + 1 # 0 /\ (k + 1) - 1 = k
      OBVIOUS
    <3> QED  BY <1>5, <3>1
  <2> QED  BY <2>1, <2>2
<1>8. \A k \in Nat : upTo[k] \in SUBSET Vals
  <2> DEFINE S == {k \in Nat : upTo[k] \in SUBSET Vals}
  <2>1. 0 \in S
    BY <1>1, <1>7
  <2>2. ASSUME NEW k \in Nat, upTo[k] \in SUBSET Vals PROVE upTo[k + 1] \in SUBSET Vals
    <3>1. More(upTo[k]) \in SUBSET Vals
      BY <1>2, <2>2
    <3> QED  BY <1>7, <2>2, <3>1
  <2>3. \A k \in Nat : k \in S => k + 1 \in S
    BY <2>2
  <2> HIDE DEF S
  <2>4. Nat \subseteq S
    BY <2>1, <2>3, SetInduction
  <2> QED  BY <2>4 DEF S
<1>9. IsSearch(Vals, Holds, {v}, upTo)
  BY <1>2, <1>7, <1>8 DEF IsSearch
<1>10. IsClosure(Vals, Holds, {v}, upTo[Cardinality(Vals)])
  BY <1>1, <1>9, SearchEnds
<1> QED  BY <1>6, <1>10

\* Two tensors of the graph to import share a storage.
Shared ==
  \E u, v \in ReachableValues : u # v /\ IsTensor(u) /\ IsTensor(v) /\ Of(u) = Of(v)

\* What is held is part of the graph to import, and a storage has been seen
\* because a tensor that is held has it, until something has been thrown.
SeenInv ==
  /\ Held \subseteq ReachableValues
  /\ pc \in {"annotate", "import"} =>
       \A storage \in seenStorageImpls : \E u \in Held : IsTensor(u) /\ Of(u) = storage
  /\ diag.kind = "shares storage" => Shared

\* What is imported next is part of the graph to import.
LEMMA NextIsReachable ==
  ASSUME NEW v, Inv, SeenInv, IsNext(v)
  PROVE  v \in ReachableValues
<1>1. world.root \in Vals /\ world \in Worlds
  BY WorldOK DEF Inv, Vals
<1>2. IsClosure(Vals, Holds, {world.root}, ReachableValues)
  BY <1>1, BelowClosure DEF ReachableValues
<1>3. CASE frames = <<>>
  <2>1. v = world.root
    BY <1>3 DEF IsNext, AtElement
  <2> QED  BY <1>2, <2>1 DEF IsClosure
<1>4. CASE frames # <<>>
  <2>1. PICK t : t = Last(frames)
    OBVIOUS
  <2>2. t \in FrameSet(world)
    BY <1>1, <1>4, <2>1, WorldOK, FramesPop DEF Inv
  <2>3. t.value \in Vals /\ t.at \in Nat \ {0}
    BY <2>2 DEF FrameSet, Vals
  <2>4. t.at <= Len(Elems(t.value)) /\ v = Elems(t.value)[t.at] /\ v \in Vals
    BY <1>4, <2>1, NextValue DEF Elems, Vals
  <2>5. v \in ToSet(Elems(t.value))
    <3>1. Elems(t.value) \in Seq(Vals)
      BY <1>1, <2>3, WorldsWellFormed DEF Elems, Vals
    <3>2. t.at \in DOMAIN Elems(t.value)
      BY <2>3, <2>4, <3>1
    <3> QED  BY <2>4, <3>2 DEF ToSet
  <2>6. <<t.value, v>> \in Holds
    BY <2>3, <2>4, <2>5 DEF Holds
  <2>7. t.value \in ReachableValues
    <3>1. frames \in Seq(FrameSet(world)) /\ <<>> \in Seq(Nat)
      BY DEF Inv, FramesInv
    <3>2. t.value \in Values(frames)
      BY <1>4, <2>1, <2>3, <3>1, FrameValues DEF Vals
    <3> QED  BY <3>2 DEF SeenInv, Held
  <2> QED  BY <1>2, <2>4, <2>6, <2>7 DEF IsClosure
<1> QED  BY <1>3, <1>4

LEMMA NotOver ==
  ASSUME [Next]_vars, pc' \in {"annotate", "import"}
  PROVE  pc \in {"annotate", "import"}
<1>1. pc' = pc \/ pc \in {"annotate", "import"} \/ pc' \in {"done", "throw", "error"}
  BY DEF Next, Annotate, ImportNext, StartImport, ImportKnown, RejectSharedStorage, RejectUnsupported,
         EnterValue, EnterModule, RejectSecondUnit, RejectFunction, Throw, Leave, ImportDone, Unwind,
         ImportFails, Terminated, vars
<1> QED  BY <1>1

LEMMA SeenStep == Inv /\ SeenInv /\ [Next]_vars => SeenInv'
<1> SUFFICES ASSUME Inv, SeenInv, [Next]_vars
             PROVE  SeenInv'
  OBVIOUS
<1>1. world' = world
  BY HeldStep
<1>2. /\ ReachableValues' = ReachableValues /\ Shared' = Shared
      /\ \A u : IsTensor(u)' = IsTensor(u) /\ Of(u)' = Of(u)
  BY <1>1 DEF ReachableValues, ValuesBelow, Elems, Shared, IsTensor, Kind, Of
<1>3. Held' \subseteq ReachableValues
  <2>1. CASE Held' \subseteq Held
    BY <2>1 DEF SeenInv
  <2>2. ASSUME NEW v, IsNext(v), Held' = Held \cup {v} PROVE Held' \subseteq ReachableValues
    BY <2>2, NextIsReachable DEF SeenInv
  <2> QED  BY <2>1, <2>2, HeldStep
<1>4. ASSUME pc' \in {"annotate", "import"}, NEW storage \in seenStorageImpls'
      PROVE  \E u \in Held' : IsTensor(u) /\ Of(u) = storage
  <2>1. pc \in {"annotate", "import"} /\ pc' # "throw"
    BY <1>4, NotOver
  <2>2. CASE Held' = Held /\ seenStorageImpls' = seenStorageImpls
    BY <1>4, <2>1, <2>2 DEF SeenInv
  <2>3. ASSUME NEW v, Held' = Held \cup {v}, seenStorageImpls' = seenStorageImpls \cup StorageOf(v)
        PROVE  \E u \in Held' : IsTensor(u) /\ Of(u) = storage
    <3>1. storage \in StorageOf(v) => IsTensor(v) /\ Of(v) = storage
      BY DEF StorageOf
    <3>2. storage \in seenStorageImpls => \E u \in Held : IsTensor(u) /\ Of(u) = storage
      BY <2>1 DEF SeenInv
    <3> QED  BY <1>4, <2>3, <3>1, <3>2
  <2> QED  BY <2>1, <2>2, <2>3, HeldStep
<1>5. ASSUME diag'.kind = "shares storage" PROVE Shared
  <2>1. CASE diag' = diag
    BY <1>5, <2>1 DEF SeenInv
  <2>2. ASSUME NEW v, RejectSharedStorage(v) PROVE Shared
    <3>1. IsNext(v) /\ v \notin DOMAIN valueMap /\ IsTensor(v) /\ Of(v) \in seenStorageImpls /\ pc = "import"
      BY <2>2 DEF RejectSharedStorage, SharesStorage, IsNext
    <3>2. PICK u \in Held : IsTensor(u) /\ Of(u) = Of(v)
      BY <3>1 DEF SeenInv
    <3>3. v \notin Held /\ v \in ReachableValues
      BY <3>1, NextIsNew, NextIsReachable
    <3>4. u # v /\ u \in ReachableValues
      BY <3>2, <3>3 DEF SeenInv
    <3> QED  BY <3>1, <3>2, <3>3, <3>4 DEF Shared
  <2> QED  BY <1>5, <2>1, <2>2, HeldStep
<1>6. /\ (Held \subseteq ReachableValues)'
      /\ (pc \in {"annotate", "import"} =>
            \A storage \in seenStorageImpls : \E u \in Held : IsTensor(u) /\ Of(u) = storage)'
      /\ (diag.kind = "shares storage" => Shared)'
  BY <1>2, <1>3, <1>4, <1>5
<1> QED  BY <1>6 DEF SeenInv

\* What has been imported holds what has been imported.
LEMMA AllImported ==
  ASSUME Inv, pc = "done"
  PROVE  ReachableValues \subseteq DOMAIN valueMap
<1>1. world.root \in Vals /\ world \in Worlds /\ world.root \in DOMAIN valueMap
  BY WorldOK DEF Inv, Vals
<1>2. IsClosure(Vals, Holds, {world.root}, ReachableValues)
  BY <1>1, BelowClosure DEF ReachableValues
<1>3. DOMAIN valueMap \in SUBSET Vals
  BY DEF Inv, BlockInv, Vals
<1>4. ASSUME NEW m \in DOMAIN valueMap, NEW p \in Vals, <<m, p>> \in Holds
      PROVE  p \in DOMAIN valueMap
  <2>1. Elems(m) \in Seq(Vals)
    BY <1>1, <1>3, WorldsWellFormed DEF Elems, Vals
  <2>2. PICK j \in 1 .. Len(Elems(m)) : p = Elems(m)[j]
    BY <1>4, <2>1 DEF Holds, ToSet
  <2>3. Consists(world, block, valueMap, m, block[valueMap[m]].operands, Len(Elems(m)))
    BY DEF Inv, BlockInv, Elems
  <2> QED  BY <2>2, <2>3 DEF Consists, Elems
<1> QED  BY <1>1, <1>2, <1>3, <1>4 DEF IsClosure

\* An import succeeds only if no two tensors of the graph to import share a
\* storage, and is refused for that reason only if two do (the check of
\* seenStorageImpls in importTensor): by the invariant of storages, what has been
\* imported is unshared, and all of the graph has been; and by SeenInv, the
\* storage that is refused is that of another tensor of the graph.
THEOREM SharedStorageRejected == Spec => []SharedStorageIsRejected
<1>1. Init => SeenInv
  <2> SUFFICES ASSUME Init PROVE SeenInv
    OBVIOUS
  <2>1. DOMAIN valueMap = {} /\ frames = <<>>
    BY DEF Init
  <2>2. Held = {}
    BY <2>1 DEF Held, Values
  <2>3. seenStorageImpls = {} /\ diag.kind # "shares storage"
    BY DEF Init, NoDiag
  <2> QED  BY <2>2, <2>3 DEF SeenInv
<1>2. Inv /\ SeenInv /\ NoSharedStorage => SharedStorageIsRejected
  <2> SUFFICES ASSUME Inv, SeenInv, NoSharedStorage PROVE SharedStorageIsRejected
    OBVIOUS
  <2>1. pc = "done" => ~ Shared
    BY AllImported DEF Shared, NoSharedStorage
  <2> QED  BY <2>1 DEF SharedStorageIsRejected, SeenInv, Shared
<1>3. Spec => []Inv /\ []NoSharedStorage
  BY Invariance, StoragesUnshared
<1>4. Init /\ [][Next]_vars /\ []Inv => []SeenInv
  BY <1>1, SeenStep, PTL
<1> QED  BY <1>2, <1>3, <1>4, PTL DEF Spec

-----------------------------------------------------------------------------
\* Paths of diagnostics

\* The module is short of what it holds.
HoldsPlain == {e \in Holds : ~ IsModule(e[1])}

LEMMA HeldByClosure ==
  ASSUME world \in Worlds, NEW v \in Vals
  PROVE  IsClosure(Vals, HoldsPlain, {v}, HeldBy(v))
<1> DEFINE More(above) == UNION {ToSet(Elems(u)) : u \in {w \in above : ~ IsModule(w)}}
           upTo == CHOOSE upTo : upTo = [k \in Nat |->
                     IF k = 0 THEN {v} ELSE LET above == upTo[k - 1] IN above \cup More(above)]
<1>1. {v} \in SUBSET Vals /\ IsFiniteSet(Vals)
  BY WorldsWellFormed DEF Vals
<1>2. \A above \in SUBSET Vals : More(above) = {p \in Vals : \E m \in above : <<m, p>> \in HoldsPlain}
  <2> TAKE above \in SUBSET Vals
  <2>1. \A m \in Vals : \A p : <<m, p>> \in HoldsPlain <=> p \in Vals /\ p \in ToSet(Elems(m)) /\ ~ IsModule(m)
    BY DEF Holds, HoldsPlain
  <2>2. \A p : p \in More(above) <=> \E m \in above : ~ IsModule(m) /\ p \in ToSet(Elems(m))
    OBVIOUS
  <2>3. \A m \in Vals : ToSet(Elems(m)) \in SUBSET Vals
    BY ElemsOK
  <2> HIDE DEF More
  <2> QED  BY <2>1, <2>2, <2>3
<1> HIDE DEF More
<1>3. PICK g \in [Nat -> SUBSET Vals] : IsSearch(Vals, HoldsPlain, {v}, g)
  BY <1>1, SearchExists
<1>4. g = [k \in Nat |-> IF k = 0 THEN {v} ELSE LET above == g[k - 1] IN above \cup More(above)]
  <2>1. ASSUME NEW k \in Nat, k # 0 PROVE g[k] = g[k - 1] \cup More(g[k - 1])
    <3>1. k - 1 \in Nat /\ (k - 1) + 1 = k /\ g[k - 1] \in SUBSET Vals
      BY <1>3, <2>1
    <3> QED  BY <1>2, <1>3, <3>1 DEF IsSearch
  <2> QED  BY <1>3, <2>1 DEF IsSearch
<1>5. upTo = [k \in Nat |-> IF k = 0 THEN {v} ELSE LET above == upTo[k - 1] IN above \cup More(above)]
  BY <1>4
<1>6. HeldBy(v) = upTo[Cardinality(Vals)]
  BY DEF HeldBy, More, Vals
<1> HIDE DEF upTo
<1>7. upTo[0] = {v} /\ \A k \in Nat : upTo[k + 1] = upTo[k] \cup More(upTo[k])
  <2>1. upTo[0] = {v}
    BY <1>5
  <2>2. ASSUME NEW k \in Nat PROVE upTo[k + 1] = upTo[k] \cup More(upTo[k])
    <3>1. k + 1 \in Nat /\ k + 1 # 0 /\ (k + 1) - 1 = k
      OBVIOUS
    <3> QED  BY <1>5, <3>1
  <2> QED  BY <2>1, <2>2
<1>8. \A k \in Nat : upTo[k] \in SUBSET Vals
  <2> DEFINE S == {k \in Nat : upTo[k] \in SUBSET Vals}
  <2>1. 0 \in S
    BY <1>1, <1>7
  <2>2. ASSUME NEW k \in Nat, upTo[k] \in SUBSET Vals PROVE upTo[k + 1] \in SUBSET Vals
    <3>1. More(upTo[k]) \in SUBSET Vals
      BY <1>2, <2>2
    <3> QED  BY <1>7, <2>2, <3>1
  <2>3. \A k \in Nat : k \in S => k + 1 \in S
    BY <2>2
  <2> HIDE DEF S
  <2>4. Nat \subseteq S
    BY <2>1, <2>3, SetInduction
  <2> QED  BY <2>4 DEF S
<1>9. IsSearch(Vals, HoldsPlain, {v}, upTo)
  BY <1>2, <1>7, <1>8 DEF IsSearch
<1>10. IsClosure(Vals, HoldsPlain, {v}, upTo[Cardinality(Vals)])
  BY <1>1, <1>9, SearchEnds
<1> QED  BY <1>6, <1>10

\* A set of values with what its plain values hold.
PlainClosed(S) ==
  S \in SUBSET Vals /\ \A m \in S, p \in Vals : <<m, p>> \in HoldsPlain => p \in S

LEMMA HeldByIs ==
  ASSUME world \in Worlds, NEW v \in Vals
  PROVE  v \in HeldBy(v) /\ PlainClosed(HeldBy(v))
BY HeldByClosure DEF IsClosure, PlainClosed

\* The values that an attribute of this name has.
Named(S, name) ==
  {e \in Vals : \E m \in S : IsModule(m) /\ \E j \in DOMAIN Elems(m) :
                  Attrs(world, Of(m))[j].name = name /\ e = Elems(m)[j]}

LEMMA HeldAsIs ==
  ASSUME world \in Worlds, NEW S \in SUBSET Vals, NEW name
  PROVE  /\ PlainClosed(HeldAs(S, name))
         /\ Named(S, name) \subseteq HeldAs(S, name)
<1>1. \A m \in Vals : \A j \in DOMAIN Elems(m) : Elems(m)[j] \in Vals
  BY ElemsOK DEF ToSet
<1>2. HeldAs(S, name) = UNION {HeldBy(e) : e \in Named(S, name)}
  <2>1. \A x : x \in HeldAs(S, name) <=>
           \E m \in S : IsModule(m) /\ \E j \in DOMAIN Elems(m) :
             Attrs(world, Of(m))[j].name = name /\ x \in HeldBy(Elems(m)[j])
    BY DEF HeldAs
  <2>2. \A x : x \in UNION {HeldBy(e) : e \in Named(S, name)} <=>
           \E m \in S : IsModule(m) /\ \E j \in DOMAIN Elems(m) :
             Attrs(world, Of(m))[j].name = name /\ x \in HeldBy(Elems(m)[j])
    BY <1>1 DEF Named
  <2> QED  BY <2>1, <2>2
<1>3. Named(S, name) \subseteq Vals
  BY DEF Named
<1>4. \A e \in Named(S, name) : e \in HeldBy(e) /\ PlainClosed(HeldBy(e))
  BY <1>3, HeldByIs
<1> QED  BY <1>2, <1>4 DEF PlainClosed

\* What the prefixes of a path lead to.
IsWalk(path, U) ==
  /\ DOMAIN U = 0 .. Len(path)
  /\ U[0] = HeldBy(world.root)
  /\ \A k \in 1 .. Len(path) : U[k] = HeldAs(U[k - 1], path[k])

LEMMA WalkExists ==
  ASSUME world \in Worlds, world.root \in Vals, NEW N, NEW path \in Seq(N)
  PROVE  \E U : IsWalk(path, U)
<1>1. PICK n \in Nat : n = Len(path)
  OBVIOUS
<1>2. PICK D : D = SUBSET Vals
  OBVIOUS
<1>3. PICK base \in D : base = HeldBy(world.root)
  BY <1>2, HeldByIs DEF PlainClosed
<1>4. PICK F \in [1 .. n -> [D -> D]] : \A k \in 1 .. n, S \in D : F[k][S] = HeldAs(S, path[k])
  <2> DEFINE G == [k \in 1 .. n |-> [S \in D |-> HeldAs(S, path[k])]]
  <2>1. \A k \in 1 .. n, S \in D : HeldAs(S, path[k]) \in D
    BY <1>2, HeldAsIs DEF PlainClosed
  <2>2. G \in [1 .. n -> [D -> D]] /\ \A k \in 1 .. n, S \in D : G[k][S] = HeldAs(S, path[k])
    BY <2>1
  <2> QED  BY <2>2
<1>5. PICK U : IsRun(D, base, n, F, U)
  BY FiniteRecursion
<1>6. \A k \in 1 .. n : k - 1 \in 0 .. n
  OBVIOUS
<1>7. \A k \in 1 .. n : U[k] = HeldAs(U[k - 1], path[k])
  BY <1>4, <1>5, <1>6 DEF IsRun
<1> QED  BY <1>1, <1>3, <1>5, <1>7 DEF IsWalk, IsRun

LEMMA WalkIs ==
  ASSUME NEW N, NEW path \in Seq(N), NEW U, IsWalk(path, U)
  PROVE  AtPath(path) = U[Len(path)]
<1>1. PICK n \in Nat : n = Len(path)
  OBVIOUS
<1> DEFINE Is(up) == up = [i \in 0 .. n |-> IF i = 0 THEN HeldBy(world.root) ELSE HeldAs(up[i - 1], path[i])]
           upTo == CHOOSE up : Is(up)
<1>2. AtPath(path) = upTo[n]
  BY <1>1 DEF AtPath
<1>3. Is(upTo)
  <2>1. PICK V : V = [i \in 0 .. n |-> IF i = 0 THEN HeldBy(world.root) ELSE HeldAs(U[i - 1], path[i])]
    OBVIOUS
  <2>2. DOMAIN V = 0 .. n /\ DOMAIN U = 0 .. n
    BY <1>1, <2>1 DEF IsWalk
  <2>3. \A i \in 0 .. n : V[i] = U[i]
    <3>1. \A i \in 0 .. n : i = 0 \/ i \in 1 .. n
      OBVIOUS
    <3> QED  BY <1>1, <2>1, <3>1 DEF IsWalk
  <2>4. \A i \in 0 .. n : i = 0 \/ i - 1 \in 0 .. n
    OBVIOUS
  <2>5. V = [i \in 0 .. n |-> IF i = 0 THEN HeldBy(world.root) ELSE HeldAs(V[i - 1], path[i])]
    BY <2>1, <2>3, <2>4
  <2> QED  BY <2>5
<1> HIDE DEF upTo
<1>4. upTo[0] = HeldBy(world.root) /\ \A k \in 1 .. n : upTo[k] = HeldAs(upTo[k - 1], path[k])
  BY <1>3
<1>5. U[0] = HeldBy(world.root) /\ \A k \in 1 .. n : U[k] = HeldAs(U[k - 1], path[k])
  BY <1>1 DEF IsWalk
<1> DEFINE S == {k \in Nat : k <= n => upTo[k] = U[k]}
<1>6. 0 \in S
  BY <1>4, <1>5
<1>7. ASSUME NEW k \in Nat, k \in S, k + 1 <= n PROVE upTo[k + 1] = U[k + 1]
  <2>1. k + 1 \in 1 .. n /\ (k + 1) - 1 = k /\ upTo[k] = U[k]
    BY <1>7
  <2> QED  BY <1>4, <1>5, <2>1
<1>8. \A k \in Nat : k \in S => k + 1 \in S
  BY <1>7
<1>9. n \in S
  <2> HIDE DEF S
  <2> QED  BY <1>6, <1>8, SetInduction
<1> QED  BY <1>1, <1>2, <1>9

\* One attribute further.
LEMMA PathStep ==
  ASSUME world \in Worlds, world.root \in Vals, NEW N, NEW path \in Seq(N), NEW name \in N
  PROVE  /\ AtPath(<<>>) = HeldBy(world.root)
         /\ AtPath(Append(path, name)) = HeldAs(AtPath(path), name)
<1>1. AtPath(<<>>) = HeldBy(world.root)
  <2>1. PICK e : e = <<>> /\ e \in Seq(N) /\ Len(e) = 0
    <3>1. <<>> \in Seq(N) /\ Len(<<>>) = 0
      OBVIOUS
    <3> QED  BY <3>1
  <2>2. PICK U : IsWalk(e, U)
    BY <2>1, WalkExists
  <2>3. AtPath(e) = U[Len(e)] /\ Len(e) = 0
    BY <2>1, <2>2, WalkIs
  <2> QED  BY <2>1, <2>2, <2>3 DEF IsWalk
<1>2. PICK n \in Nat : n = Len(path)
  OBVIOUS
<1>3. PICK longer : longer = Append(path, name)
  OBVIOUS
<1>4. /\ longer \in Seq(N) /\ Len(longer) = n + 1
      /\ longer[n + 1] = name /\ \A k \in 1 .. n : longer[k] = path[k]
  BY <1>2, <1>3
<1>5. PICK U : IsWalk(longer, U)
  BY <1>4, WalkExists
<1>6. AtPath(longer) = U[n + 1]
  BY <1>4, <1>5, WalkIs
<1>7. n + 1 \in 1 .. n + 1 /\ (n + 1) - 1 = n
  OBVIOUS
<1>8. U[n + 1] = HeldAs(U[n], name)
  BY <1>4, <1>5, <1>7 DEF IsWalk
<1>9. PICK V : V = [k \in 0 .. n |-> U[k]]
  OBVIOUS
<1>10. \A k \in 1 .. n : k \in 1 .. n + 1 /\ k \in 0 .. n /\ k - 1 \in 0 .. n
  OBVIOUS
<1>11. IsWalk(path, V)
  <2>1. DOMAIN V = 0 .. Len(path) /\ V[0] = HeldBy(world.root)
    BY <1>2, <1>5, <1>9 DEF IsWalk
  <2>2. ASSUME NEW k \in 1 .. n PROVE V[k] = HeldAs(V[k - 1], path[k])
    <3>1. U[k] = HeldAs(U[k - 1], longer[k])
      BY <1>4, <1>5, <1>10 DEF IsWalk
    <3> QED  BY <1>4, <1>9, <1>10, <3>1
  <2> QED  BY <1>2, <2>1, <2>2 DEF IsWalk
<1>12. AtPath(path) = U[n]
  <2>1. AtPath(path) = V[n]
    BY <1>2, <1>11, WalkIs
  <2> QED  BY <1>9, <2>1
<1> QED  BY <1>1, <1>3, <1>6, <1>8, <1>12

\* The first frame is that of the root.
FromRoot(w, fs) == Len(fs) > 0 => fs[1].value = w.root

\* The names of the attributes that the frames fs are at.
NameAt(fs, i) == Attrs(world, Of(fs[i].value))[fs[i].at].name
IsNames(fs, L) ==
  /\ L[0] = <<>>
  /\ \A i \in 1 .. Len(fs) :
       L[i] = IF IsModule(fs[i].value) THEN Append(L[i - 1], NameAt(fs, i)) ELSE L[i - 1]

LEMMA NamesAre ==
  ASSUME NEW S, frames \in Seq(S), NEW N, \A i \in 1 .. Len(frames) : NameAt(frames, i) \in N
  PROVE  \E L \in [0 .. Len(frames) -> Seq(N)] : IsNames(frames, L) /\ AttributeNameStack = L[Len(frames)]
<1>1. PICK n \in Nat : n = Len(frames)
  OBVIOUS
<1> DEFINE Next1(i, l) == IF IsModule(frames[i].value) THEN Append(l, NameAt(frames, i)) ELSE l
           Is(up) == up = [i \in 0 .. n |-> IF i = 0 THEN <<>> ELSE Next1(i, up[i - 1])]
           upTo == CHOOSE up : Is(up)
<1>2. AttributeNameStack = upTo[n]
  BY <1>1 DEF AttributeNameStack, AttributeNames, NameAt
<1>3. PICK D : D = Seq(N)
  OBVIOUS
<1>4. PICK base \in D : base = <<>>
  <2>1. <<>> \in Seq(N)
    OBVIOUS
  <2> QED  BY <1>3, <2>1
<1>5. PICK F \in [1 .. n -> [D -> D]] : \A k \in 1 .. n, l \in D : F[k][l] = Next1(k, l)
  <2> DEFINE G == [k \in 1 .. n |-> [l \in D |-> Next1(k, l)]]
  <2>1. \A k \in 1 .. n, l \in D : Next1(k, l) \in D
    BY <1>1, <1>3
  <2> HIDE DEF Next1
  <2>2. G \in [1 .. n -> [D -> D]] /\ \A k \in 1 .. n, l \in D : G[k][l] = Next1(k, l)
    BY <2>1
  <2> QED  BY <2>2
<1>6. PICK L : IsRun(D, base, n, F, L)
  BY FiniteRecursion
<1>7. \A k \in 1 .. n : k - 1 \in 0 .. n /\ k # 0
  OBVIOUS
<1>8. L \in [0 .. n -> D] /\ L[0] = <<>>
  BY <1>4, <1>6 DEF IsRun
<1>9. \A k \in 1 .. n : L[k] = Next1(k, L[k - 1])
  BY <1>5, <1>6, <1>7 DEF IsRun
<1> HIDE DEF Next1
<1>10. Is(L)
  <2>1. \A i \in 0 .. n : i = 0 \/ i \in 1 .. n
    OBVIOUS
  <2> QED  BY <1>8, <1>9, <2>1
<1>11. Is(upTo)
  BY <1>10
<1>12. upTo \in [0 .. n -> D] /\ IsNames(frames, upTo)
  <2> HIDE DEF upTo
  <2>1. upTo[0] = <<>> /\ \A k \in 1 .. n : upTo[k] = Next1(k, upTo[k - 1])
    BY <1>7, <1>11
  <2>2. DOMAIN upTo = 0 .. n /\ upTo = [i \in 0 .. n |-> upTo[i]]
    BY <1>11
  <2>3. \A i \in 0 .. n : upTo[i] = L[i]
    <3> DEFINE T == {i \in Nat : i <= n => upTo[i] = L[i]}
    <3>1. 0 \in T
      BY <1>8, <2>1
    <3>2. ASSUME NEW i \in Nat, i \in T, i + 1 <= n PROVE upTo[i + 1] = L[i + 1]
      <4>1. i + 1 \in 1 .. n /\ (i + 1) - 1 = i /\ upTo[i] = L[i]
        BY <3>2
      <4> QED  BY <1>9, <2>1, <4>1
    <3>3. \A i \in Nat : i \in T => i + 1 \in T
      BY <3>2
    <3>4. Nat \subseteq T
      <4> HIDE DEF T
      <4> QED  BY <3>1, <3>3, SetInduction
    <3> QED  BY <3>4
  <2>4. upTo \in [0 .. n -> D]
    BY <1>8, <2>2, <2>3
  <2> QED  BY <1>1, <2>1, <2>4 DEF IsNames, Next1
<1> HIDE DEF upTo
<1> QED  BY <1>1, <1>2, <1>3, <1>12

\* The path of the attributes that the frames are at leads to what is imported
\* next.
LEMMA NextLeads ==
  ASSUME NEW v, Inv, FromRoot(world, frames), IsNext(v)
  PROVE  v \in AtPath(AttributeNameStack)
<1>1. world \in Worlds /\ world.root \in Vals /\ frames \in Seq(FrameSet(world))
  BY WorldOK DEF Inv, Vals, FramesInv
<1>2. PICK n \in Nat : n = Len(frames)
  BY <1>1
<1>3. PICK N : N = {NameAt(frames, i) : i \in 1 .. n}
  OBVIOUS
<1>4. PICK L \in [0 .. n -> Seq(N)] : IsNames(frames, L) /\ AttributeNameStack = L[n]
  <2>1. \A i \in 1 .. Len(frames) : NameAt(frames, i) \in N
    BY <1>2, <1>3
  <2> QED  BY <1>1, <1>2, <2>1, NamesAre
<1>5. PICK val : val = [i \in 1 .. n + 1 |-> IF i = n + 1 THEN v ELSE frames[i].value]
  OBVIOUS
<1>6. val[n + 1] = v /\ \A i \in 1 .. n : val[i] = frames[i].value
  BY <1>5
<1>7. val[1] = world.root
  <2>1. CASE frames = <<>>
    <3>1. n = 0
      BY <1>2, <2>1
    <3> QED  BY <1>6, <2>1, <3>1 DEF IsNext, AtElement
  <2>2. CASE frames # <<>>
    <3>1. 1 \in 1 .. n /\ Len(frames) > 0
      BY <1>1, <1>2, <2>2
    <3> QED  BY <1>6, <3>1 DEF FromRoot
  <2> QED  BY <2>1, <2>2
<1>8. ASSUME NEW i \in 1 .. n
      PROVE  /\ val[i] \in Vals /\ val[i + 1] \in Vals
             /\ frames[i].at \in DOMAIN Elems(val[i])
             /\ val[i + 1] = Elems(val[i])[frames[i].at]
  <2>1. frames[i] \in FrameSet(world)
    BY <1>1, <1>2
  <2>2. val[i] \in Vals /\ frames[i].at \in Nat \ {0}
    BY <1>6, <2>1 DEF FrameSet, Vals
  <2>3. frames[i].at <= Len(Elems(val[i])) /\ val[i + 1] = Elems(val[i])[frames[i].at]
    <3>1. CASE i = n
      <4>1. Last(frames) = frames[n] /\ frames # <<>>
        BY <1>1, <1>2, <3>1 DEF Last
      <4>2. frames[n].at <= Len(Elems(frames[n].value)) /\ v = Elems(frames[n].value)[frames[n].at]
        BY <4>1, NextValue DEF Elems
      <4> QED  BY <1>6, <3>1, <4>2
    <3>2. CASE i # n
      <4>1. i \in 1 .. n - 1 /\ i + 1 \in 1 .. n
        BY <3>2
      <4>2. /\ frames[i].at <= Len(world.values[frames[i].value].elems)
            /\ frames[i + 1].value = world.values[frames[i].value].elems[frames[i].at]
        BY <1>2, <4>1 DEF Inv, FramesInv
      <4> QED  BY <1>6, <4>1, <4>2 DEF Elems
    <3> QED  BY <3>1, <3>2
  <2>4. Elems(val[i]) \in Seq(Vals)
    BY <1>1, <2>2, WorldsWellFormed DEF Elems, Vals
  <2>5. frames[i].at \in DOMAIN Elems(val[i])
    BY <2>2, <2>3, <2>4
  <2> QED  BY <2>2, <2>3, <2>4, <2>5
<1> DEFINE Goal(k) == val[k + 1] \in AtPath(L[k]) /\ PlainClosed(AtPath(L[k]))
           S == {k \in Nat : k <= n => Goal(k)}
<1>9. 0 \in S
  <2>1. L[0] = <<>>
    BY <1>4 DEF IsNames
  <2>2. AtPath(<<>>) = HeldBy(world.root)
    <3>1. <<>> \in Seq({0})
      OBVIOUS
    <3> QED  BY <1>1, <3>1, PathStep
  <2>3. 0 + 1 = 1
    OBVIOUS
  <2>4. Goal(0)
    BY <1>1, <1>7, <2>1, <2>2, <2>3, HeldByIs
  <2> QED  BY <2>4
<1>10. ASSUME NEW k \in Nat, k + 1 <= n, Goal(k)
       PROVE  Goal(k + 1)
  <2>1. PICK i \in 1 .. n : i = k + 1 /\ i - 1 = k /\ k \in 0 .. n
    BY <1>10
  <2>2. L[k] \in Seq(N) /\ NameAt(frames, i) \in N
    BY <1>3, <2>1
  <2>3. L[i] = IF IsModule(val[i]) THEN Append(L[k], NameAt(frames, i)) ELSE L[k]
    BY <1>2, <1>4, <1>6, <2>1 DEF IsNames
  <2>4. val[i] \in AtPath(L[k]) /\ PlainClosed(AtPath(L[k]))
    BY <1>10, <2>1
  <2>5. CASE IsModule(val[i])
    <3>1. AtPath(L[i]) = HeldAs(AtPath(L[k]), NameAt(frames, i))
      BY <1>1, <2>2, <2>3, <2>5, PathStep
    <3>2. AtPath(L[k]) \in SUBSET Vals
      BY <2>4 DEF PlainClosed
    <3>3. val[i + 1] \in Named(AtPath(L[k]), NameAt(frames, i))
      BY <1>6, <1>8, <2>1, <2>4, <2>5 DEF Named, NameAt
    <3> QED  BY <1>1, <2>1, <3>1, <3>2, <3>3, HeldAsIs
  <2>6. CASE ~ IsModule(val[i])
    <3>1. <<val[i], val[i + 1]>> \in HoldsPlain
      BY <1>8, <2>1, <2>6 DEF HoldsPlain, Holds, ToSet
    <3>2. val[i + 1] \in AtPath(L[k])
      BY <1>8, <2>1, <2>4, <3>1 DEF PlainClosed
    <3> QED  BY <2>1, <2>3, <2>4, <2>6, <3>2
  <2> QED  BY <2>5, <2>6
<1>11. Goal(n)
  <2>1. \A k \in Nat : k \in S => k + 1 \in S
    <3> HIDE DEF Goal
    <3>1. ASSUME NEW k \in Nat, k \in S, k + 1 <= n PROVE Goal(k + 1)
      <4>1. Goal(k)
        BY <3>1
      <4> QED  BY <1>10, <3>1, <4>1
    <3> QED  BY <3>1
  <2>2. n \in S
    <3> HIDE DEF S
    <3> QED  BY <1>9, <2>1, SetInduction
  <2> QED  BY <2>2
<1> QED  BY <1>4, <1>6, <1>11

\* The lowest frame is the root's, and the path of a diagnostic that has one leads
\* to what has been refused.
PathInv == FromRoot(world, frames) /\ DiagnosticPathLeads

LEMMA FromRootSame ==
  ASSUME NEW w, NEW fs \in Seq(FrameSet(w)), NEW fs2, FromRoot(w, fs), Len(fs2) \in 0 .. Len(fs),
         \A i \in 1 .. Len(fs2) : fs2[i].value = fs[i].value
  PROVE  FromRoot(w, fs2)
BY DEF FromRoot

\* How the frames change, and what a diagnostic says.
LEMMA FramesStep ==
  ASSUME Inv, [Next]_vars
  PROVE  /\ world' = world
         /\ \/ frames' = frames
            \/ \E p \in Nat : frames' = Return(frames, p)
            \/ frames # <<>> /\ frames' = Front(frames)
            \/ frames # <<>> /\ \E p \in Nat : frames' = Return(Front(frames), p)
            \/ \E v \in DOMAIN world.values : \E operands \in Seq(Nat) :
                 IsNext(v) /\ frames' = Append(frames, Frame(v, operands))
         /\ \/ diag' = diag
            \/ \E v : IsNext(v) /\ diag'.value = v /\ diag'.path \in {<<>>, AttributeNameStack}
<1> DEFINE Goal ==
      /\ world' = world
      /\ \/ frames' = frames
         \/ \E p \in Nat : frames' = Return(frames, p)
         \/ frames # <<>> /\ frames' = Front(frames)
         \/ frames # <<>> /\ \E p \in Nat : frames' = Return(Front(frames), p)
         \/ \E v \in DOMAIN world.values : \E operands \in Seq(Nat) :
              IsNext(v) /\ frames' = Append(frames, Frame(v, operands))
      /\ \/ diag' = diag
         \/ \E v : IsNext(v) /\ diag'.value = v /\ diag'.path \in {<<>>, AttributeNameStack}
<1> SUFFICES Goal
  OBVIOUS
<1>1. CASE UNCHANGED vars
  BY <1>1 DEF vars, importVars
<1>2. CASE Annotate
  <2>1. world' = world
    <3> HIDE DEF Goal
    <3> QED  BY <1>2, Zenon DEF Annotate, AnnotatorNext, ExportNone, ExportPath, AnnotateArgs
  <2> QED  BY <1>2, <2>1 DEF Annotate, importVars
<1>3. CASE StartImport \/ ImportDone \/ ImportFails \/ Terminated
  BY <1>3 DEF StartImport, ImportDone, ImportFails, Terminated, vars, importVars
<1>4. ASSUME NEW v, RejectSharedStorage(v) \/ RejectUnsupported(v) \/ RejectSecondUnit(v) \/ RejectFunction(v)
      PROVE  Goal
  <2> HIDE DEF Goal
  <2>1. ASSUME NEW kind, NEW ops, Throw(kind, v, ops)
        PROVE  diag'.value = v /\ diag'.path \in {<<>>, AttributeNameStack}
    BY <2>1 DEF Throw
  <2>2. RejectSharedStorage(v) =>
          IsNext(v) /\ world' = world /\ frames' = frames /\ \E kind, ops : Throw(kind, v, ops)
    BY Zenon DEF RejectSharedStorage
  <2>3. RejectUnsupported(v) =>
          IsNext(v) /\ world' = world /\ frames' = frames /\ \E kind, ops : Throw(kind, v, ops)
    BY DEF RejectUnsupported
  <2>4. RejectSecondUnit(v) =>
          IsNext(v) /\ world' = world /\ frames' = frames /\ \E kind, ops : Throw(kind, v, ops)
    BY Zenon DEF RejectSecondUnit
  <2>5. RejectFunction(v) =>
          IsNext(v) /\ world' = world /\ frames' = frames /\ \E kind, ops : Throw(kind, v, ops)
    BY Zenon DEF RejectFunction
  <2>6. IsNext(v) /\ world' = world /\ frames' = frames /\ \E kind, ops : Throw(kind, v, ops)
    BY <1>4, <2>2, <2>3, <2>4, <2>5
  <2>7. diag'.value = v /\ diag'.path \in {<<>>, AttributeNameStack}
    BY <2>1, <2>6
  <2> QED  BY <2>6, <2>7 DEF Goal
<1>5. ASSUME NEW v, ImportKnown(v)
      PROVE  Goal
  <2>1. valueMap[v] \in Nat
    <3>1. valueMap[v] \in 1 .. Len(block)
      BY <1>5 DEF Inv, BlockInv, ImportKnown
    <3>2. IsSeq(block)
      BY DEF Inv, BlockInv
    <3> QED  BY <3>1, <3>2, AppendIsSeq
  <2> QED  BY <1>5, <2>1 DEF ImportKnown
<1>6. ASSUME NEW v \in DOMAIN world.values, EnterValue(v) \/ EnterModule(v)
      PROVE  Goal
  <2>1. UNCHANGED <<world, diag>> /\ IsNext(v)
    BY <1>6 DEF EnterValue, EnterModule
  <2>2. PICK operands \in Seq(Nat) : frames' = Append(frames, Frame(v, operands))
    <3>1. Inv'
      BY <1>6, EnterValueStep, EnterModuleStep
    <3>2. Len(block') \in Nat
      <4>1. IsSeq(block')
        BY <3>1 DEF Inv, BlockInv
      <4> QED  BY <4>1, AppendIsSeq
    <3>3. <<>> \in Seq(Nat) /\ <<Len(block')>> \in Seq(Nat)
      BY <3>2
    <3> QED  BY <1>6, <3>3 DEF EnterValue, EnterModule
  <2> QED  BY <2>1, <2>2
<1>7. CASE Unwind
  BY <1>7 DEF Unwind
<1>8. CASE Leave
  <2>1. Len(block') \in Nat
    <3>1. Inv'
      BY <1>8, LeaveStep
    <3>2. IsSeq(block')
      BY <3>1 DEF Inv, BlockInv
    <3> QED  BY <3>2, AppendIsSeq
  <2> QED  BY <1>8, <2>1 DEF Leave
<1> HIDE DEF Goal
<1> QED  BY <1>1, <1>2, <1>3, <1>4, <1>5, <1>6, <1>7, <1>8 DEF Next, ImportNext

LEMMA FromRootStep ==
  ASSUME Inv, FromRoot(world, frames), [Next]_vars
  PROVE  FromRoot(world, frames')
<1>1. frames \in Seq(FrameSet(world))
  BY DEF Inv, FramesInv
<1>2. PICK n \in Nat : n = Len(frames)
  BY <1>1
<1>3. ASSUME NEW fs \in Seq(FrameSet(world)), FromRoot(world, fs), NEW p \in Nat
      PROVE  FromRoot(world, Return(fs, p))
  <2>1. Len(fs) \in Nat
    OBVIOUS
  <2> QED  BY <1>3, <2>1, ReturnValues, FromRootSame
<1>4. ASSUME frames # <<>>
      PROVE  Front(frames) \in Seq(FrameSet(world)) /\ FromRoot(world, Front(frames))
  <2>1. n > 0
    BY <1>1, <1>2, <1>4
  <2>2. /\ Front(frames) \in Seq(FrameSet(world)) /\ Len(Front(frames)) = n - 1
        /\ \A i \in 1 .. n - 1 : Front(frames)[i] = frames[i]
    BY <1>1, <1>2, <2>1 DEF Front
  <2>3. n - 1 \in 0 .. n
    BY <2>1
  <2> QED  BY <1>1, <1>2, <2>2, <2>3, FromRootSame
<1>5. ASSUME NEW v \in DOMAIN world.values, NEW operands \in Seq(Nat), IsNext(v)
      PROVE  FromRoot(world, Append(frames, Frame(v, operands)))
  <2>1. PICK f : f = Frame(v, operands)
    OBVIOUS
  <2>2. f \in FrameSet(world) /\ f.value = v
    BY <2>1 DEF Frame, FrameSet
  <2>3. PICK gs : gs = Append(frames, f)
    OBVIOUS
  <2>4. gs[n + 1] = f /\ \A i \in 1 .. n : gs[i] = frames[i]
    BY <1>1, <1>2, <2>2, <2>3
  <2>5. CASE frames = <<>>
    <3>1. n = 0 /\ v = world.root
      BY <1>2, <1>5, <2>5 DEF IsNext, AtElement
    <3> QED  BY <2>1, <2>2, <2>3, <2>4, <3>1 DEF FromRoot
  <2>6. CASE frames # <<>>
    <3>1. 1 \in 1 .. n /\ n > 0
      BY <1>1, <1>2, <2>6
    <3>2. gs[1].value = world.root
      BY <1>2, <2>4, <3>1 DEF FromRoot
    <3> QED  BY <2>1, <2>3, <3>2 DEF FromRoot
  <2> QED  BY <2>5, <2>6
<1> QED  BY <1>1, <1>3, <1>4, <1>5, FramesStep

\* The path in "Found at path '<root>....'" (importIValue's diagnostics, which take
\* attributeNameStack) leads from the root to what has been refused or to what
\* holds it: the frames are a path through the graph, and the names are those of
\* the attributes that the frames of modules are at.
THEOREM PathsLead == Spec => []DiagnosticPathLeads
<1>1. Init => PathInv
  <2> SUFFICES ASSUME Init PROVE PathInv
    OBVIOUS
  <2>1. frames = <<>> /\ Len(<<>>) = 0
    BY DEF Init
  <2>2. diag.path = <<>>
    BY DEF Init, NoDiag
  <2> QED  BY <2>1, <2>2 DEF PathInv, FromRoot, DiagnosticPathLeads
<1>2. Inv /\ PathInv /\ [Next]_vars => PathInv'
  <2> SUFFICES ASSUME Inv, PathInv, [Next]_vars PROVE PathInv'
    OBVIOUS
  <2>1. world' = world
    BY FramesStep
  <2>2. ASSUME NEW path PROVE AtPath(path)' = AtPath(path)
    BY <2>1 DEF AtPath, HeldAs, HeldBy, Elems, Attrs, Of, IsModule, Kind
  <2>3. FromRoot(world, frames')
    BY FromRootStep DEF PathInv
  <2>4. diag'.path # <<>> => diag'.value \in AtPath(diag'.path)
    <3>1. CASE diag' = diag
      BY <3>1 DEF PathInv, DiagnosticPathLeads
    <3>2. ASSUME NEW v, IsNext(v), diag'.value = v, diag'.path \in {<<>>, AttributeNameStack}
          PROVE  diag'.path # <<>> => diag'.value \in AtPath(diag'.path)
      BY <3>2, NextLeads DEF PathInv
    <3> QED  BY <3>1, <3>2, FramesStep
  <2>5. FromRoot(world, frames)'
    BY <2>1, <2>3 DEF FromRoot
  <2>6. DiagnosticPathLeads'
    <3>1. PICK path : path = diag'.path
      OBVIOUS
    <3> QED  BY <2>2, <2>4, <3>1 DEF DiagnosticPathLeads
  <2> QED  BY <2>5, <2>6 DEF PathInv
<1>3. PathInv => DiagnosticPathLeads
  BY DEF PathInv
<1> QED  BY <1>1, <1>2, <1>3, Invariance, PTL DEF Spec

-----------------------------------------------------------------------------
\* What the calls of the annotator say, in terms of classes

\* The call says whether the member of this name of class c is exported.
SaysOf(w, call, c, name) ==
  \/ call.op = "none" /\ c \in BelowClass(w, w.rootClass)
  \/ /\ call.op = "export" /\ call.path # <<>> /\ Last(call.path) = name
     /\ GetClassAtPath(w, w.rootClass, Front(call.path)) = c

\* Whatever has not been exported has been later.
IsExported(w, cs, c, name) ==
  \A k \in 1 .. Len(cs) : SaysOf(w, cs[k], c, name) /\ cs[k].op = "none" =>
    \E l \in 1 .. Len(cs) : l > k /\ SaysOf(w, cs[l], c, name) /\ cs[l].op = "export"

\* The call says something of argument j of a method of class c.
SaysOfArg(w, call, c, method, j) ==
  /\ call.op = "args" /\ call.path # <<>> /\ Last(call.path) = method.name
  /\ GetClassAtPath(w, w.rootClass, Front(call.path)) = c
  /\ Len(call.args) = w.arity[method.func]
  /\ call.args[j] # None
  /\ \A l \in 1 .. j - 1 : IsComplete(call.args[l])

Shaped(w, cs, c, method, j) ==
  {k \in 1 .. Len(cs) : SaysOfArg(w, cs[k], c, method, j) /\ cs[k].args[j].shape # None}

Typed(w, cs, c, method, j) ==
  {k \in 1 .. Len(cs) : SaysOfArg(w, cs[k], c, method, j) /\ cs[k].args[j].dtype \notin {None, NotADtype}}

IsLast(k, ks) == k \in ks /\ \A l \in ks : l <= k

\* What is known of the shape, of the dtype of the argument.
IsShape(w, cs, c, method, j, x) ==
  \/ Shaped(w, cs, c, method, j) = {} /\ x = None
  \/ \E k \in 1 .. Len(cs) : IsLast(k, Shaped(w, cs, c, method, j)) /\ x = cs[k].args[j].shape

IsDtype(w, cs, c, method, j, x) ==
  \/ Typed(w, cs, c, method, j) = {} /\ x = None
  \/ \E k \in 1 .. Len(cs) : IsLast(k, Typed(w, cs, c, method, j)) /\ x = cs[k].args[j].dtype

IsArg(w, cs, c, method, j, arg) ==
  IsShape(w, cs, c, method, j, arg.shape) /\ IsDtype(w, cs, c, method, j, arg.dtype)

\* The annotations of the arguments; <<>> if nothing is known of any.
AreArgs(w, cs, c, method, args) ==
  \/ /\ args = <<>>
     /\ \A j \in 1 .. w.arity[method.func] : IsArg(w, cs, c, method, j, NoArgAnnotation)
  \/ /\ DOMAIN args = 1 .. w.arity[method.func]
     /\ \A j \in 1 .. w.arity[method.func] : IsArg(w, cs, c, method, j, args[j])

IsFlag(flag, w, cs, c, name) == flag \in BOOLEAN /\ (flag <=> IsExported(w, cs, c, name))

IsAnnotation(w, cs, c, annotation) ==
  /\ DOMAIN annotation.attrs = DOMAIN Attrs(w, c)
  /\ \A i \in DOMAIN Attrs(w, c) : IsFlag(annotation.attrs[i], w, cs, c, Attrs(w, c)[i].name)
  /\ DOMAIN annotation.methods = DOMAIN Methods(w, c)
  /\ \A i \in DOMAIN Methods(w, c) :
       /\ IsFlag(annotation.methods[i].exported, w, cs, c, Methods(w, c)[i].name)
       /\ AreArgs(w, cs, c, Methods(w, c)[i], annotation.methods[i].args)

\* What is known of class c, annotated or not.
Annotation(w, as, c) == IF c \in DOMAIN as THEN as[c] ELSE ClassAnnotation(w, c)

AnnotationsInv(w, cs, as) ==
  /\ DOMAIN as \subseteq Classes(w)
  /\ \A c \in Classes(w) : IsAnnotation(w, cs, c, Annotation(w, as, c))

-----------------------------------------------------------------------------
\* One call more

\* The calls are those of cs and one more.
IsLonger(cs, call, ds) ==
  /\ Len(cs) \in Nat /\ Len(ds) = Len(cs) + 1
  /\ \A k \in 1 .. Len(cs) : ds[k] = cs[k]
  /\ ds[Len(cs) + 1] = call

LEMMA ExportedLonger ==
  ASSUME NEW w, NEW cs, NEW call, NEW ds, IsLonger(cs, call, ds), NEW c, NEW name
  PROVE  IsExported(w, ds, c, name) <=>
           IF SaysOf(w, call, c, name) THEN call.op = "export" ELSE IsExported(w, cs, c, name)
<1>1. PICK n \in Nat : n = Len(cs) /\ Len(ds) = n + 1
  BY DEF IsLonger
<1>2. ds[n + 1] = call /\ \A k \in 1 .. n : ds[k] = cs[k]
  BY <1>1 DEF IsLonger
<1>3. SaysOf(w, call, c, name) => call.op \in {"none", "export"}
  BY DEF SaysOf
<1>4. \A k \in 1 .. n + 1 : k \in 1 .. n \/ k = n + 1
  OBVIOUS
<1> DEFINE Off(s, k) == SaysOf(w, s[k], c, name) /\ s[k].op = "none"
           On(s, k) == SaysOf(w, s[k], c, name) /\ s[k].op = "export"
<1>5. /\ IsExported(w, cs, c, name) <=> \A k \in 1 .. n : Off(cs, k) => \E l \in 1 .. n : l > k /\ On(cs, l)
      /\ IsExported(w, ds, c, name) <=> \A k \in 1 .. n + 1 : Off(ds, k) => \E l \in 1 .. n + 1 : l > k /\ On(ds, l)
  BY <1>1 DEF IsExported
<1>6. \A k \in 1 .. n : (Off(ds, k) <=> Off(cs, k)) /\ (On(ds, k) <=> On(cs, k))
  BY <1>2
<1>7. /\ Off(ds, n + 1) <=> SaysOf(w, call, c, name) /\ call.op = "none"
      /\ On(ds, n + 1) <=> SaysOf(w, call, c, name) /\ call.op = "export"
  BY <1>2
<1> HIDE DEF Off, On
<1>8. CASE SaysOf(w, call, c, name) /\ call.op = "export"
  <2>1. n + 1 \in 1 .. n + 1 /\ \A k \in 1 .. n : n + 1 > k
    OBVIOUS
  <2>2. ~ Off(ds, n + 1) /\ On(ds, n + 1)
    BY <1>7, <1>8
  <2> QED  BY <1>4, <1>5, <1>8, <2>1, <2>2
<1>9. CASE SaysOf(w, call, c, name) /\ call.op = "none"
  <2>1. n + 1 \in 1 .. n + 1 /\ ~ \E l \in 1 .. n + 1 : l > n + 1
    OBVIOUS
  <2>2. Off(ds, n + 1)
    BY <1>7, <1>9
  <2> QED  BY <1>5, <1>9, <2>1, <2>2
<1>10. CASE ~ SaysOf(w, call, c, name)
  <2>1. ~ Off(ds, n + 1) /\ ~ On(ds, n + 1)
    BY <1>7, <1>10
  <2>2. \A k \in 1 .. n : k \in 1 .. n + 1
    OBVIOUS
  <2> QED  BY <1>4, <1>5, <1>6, <1>10, <2>1, <2>2
<1> QED  BY <1>3, <1>8, <1>9, <1>10

\* The last element of a set that has one more.
LEMMA LastLonger ==
  ASSUME NEW n \in Nat, NEW ks \in SUBSET (1 .. n)
  PROVE  IsLast(n + 1, ks \cup {n + 1})
BY DEF IsLast

LEMMA ShapeLonger ==
  ASSUME NEW w, NEW cs, NEW call, NEW ds, IsLonger(cs, call, ds), NEW c, NEW method, NEW j, NEW x, NEW y,
         IsShape(w, cs, c, method, j, x),
         y = IF SaysOfArg(w, call, c, method, j) /\ call.args[j].shape # None THEN call.args[j].shape ELSE x
  PROVE  IsShape(w, ds, c, method, j, y)
<1>1. PICK n \in Nat : n = Len(cs) /\ Len(ds) = n + 1
  BY DEF IsLonger
<1>2. ds[n + 1] = call /\ \A k \in 1 .. n : ds[k] = cs[k]
  BY <1>1 DEF IsLonger
<1> DEFINE Says(s, k) == SaysOfArg(w, s[k], c, method, j) /\ s[k].args[j].shape # None
<1>3. PICK ks : ks = Shaped(w, cs, c, method, j) /\ ks = {k \in 1 .. n : Says(cs, k)}
  BY <1>1 DEF Shaped
<1>4. PICK ls : ls = Shaped(w, ds, c, method, j) /\ ls = {k \in 1 .. n + 1 : Says(ds, k)}
  BY <1>1 DEF Shaped
<1>5. \A k \in 1 .. n : Says(ds, k) <=> Says(cs, k)
  BY <1>2
<1>6. Says(ds, n + 1) <=> SaysOfArg(w, call, c, method, j) /\ call.args[j].shape # None
  BY <1>2
<1>7. CASE SaysOfArg(w, call, c, method, j) /\ call.args[j].shape # None
  <2>1. Says(ds, n + 1) /\ n + 1 \in 1 .. n + 1 /\ y = ds[n + 1].args[j].shape
    BY <1>2, <1>6, <1>7
  <2> HIDE DEF Says
  <2>2. IsLast(n + 1, ls)
    BY <1>4, <2>1 DEF IsLast
  <2> QED  BY <1>1, <1>4, <2>1, <2>2 DEF IsShape
<1>8. CASE ~ (SaysOfArg(w, call, c, method, j) /\ call.args[j].shape # None)
  <2>1. y = x /\ ~ Says(ds, n + 1)
    BY <1>6, <1>8
  <2> HIDE DEF Says
  <2>2. ls = ks /\ ks \in SUBSET (1 .. n)
    BY <1>3, <1>4, <1>5, <2>1
  <2>3. CASE ks = {} /\ x = None
    BY <1>4, <2>1, <2>2, <2>3 DEF IsShape
  <2>4. CASE \E k \in 1 .. n : IsLast(k, ks) /\ x = cs[k].args[j].shape
    <3>1. PICK k \in 1 .. n : IsLast(k, ks) /\ x = cs[k].args[j].shape
      BY <2>4
    <3>2. k \in 1 .. n + 1 /\ y = ds[k].args[j].shape
      BY <1>2, <2>1, <3>1
    <3> QED  BY <1>1, <1>4, <2>2, <3>1, <3>2 DEF IsShape
  <2> QED  BY <1>1, <1>3, <2>3, <2>4 DEF IsShape
<1> QED  BY <1>7, <1>8

LEMMA DtypeLonger ==
  ASSUME NEW w, NEW cs, NEW call, NEW ds, IsLonger(cs, call, ds), NEW c, NEW method, NEW j, NEW x, NEW y,
         IsDtype(w, cs, c, method, j, x),
         y = IF SaysOfArg(w, call, c, method, j) /\ call.args[j].dtype \notin {None, NotADtype} THEN call.args[j].dtype ELSE x
  PROVE  IsDtype(w, ds, c, method, j, y)
<1>1. PICK n \in Nat : n = Len(cs) /\ Len(ds) = n + 1
  BY DEF IsLonger
<1>2. ds[n + 1] = call /\ \A k \in 1 .. n : ds[k] = cs[k]
  BY <1>1 DEF IsLonger
<1> DEFINE Says(s, k) == SaysOfArg(w, s[k], c, method, j) /\ s[k].args[j].dtype \notin {None, NotADtype}
<1>3. PICK ks : ks = Typed(w, cs, c, method, j) /\ ks = {k \in 1 .. n : Says(cs, k)}
  BY <1>1 DEF Typed
<1>4. PICK ls : ls = Typed(w, ds, c, method, j) /\ ls = {k \in 1 .. n + 1 : Says(ds, k)}
  BY <1>1 DEF Typed
<1>5. \A k \in 1 .. n : Says(ds, k) <=> Says(cs, k)
  BY <1>2
<1>6. Says(ds, n + 1) <=> SaysOfArg(w, call, c, method, j) /\ call.args[j].dtype \notin {None, NotADtype}
  BY <1>2
<1>7. CASE SaysOfArg(w, call, c, method, j) /\ call.args[j].dtype \notin {None, NotADtype}
  <2>1. Says(ds, n + 1) /\ n + 1 \in 1 .. n + 1 /\ y = ds[n + 1].args[j].dtype
    BY <1>2, <1>6, <1>7
  <2> HIDE DEF Says
  <2>2. IsLast(n + 1, ls)
    BY <1>4, <2>1 DEF IsLast
  <2> QED  BY <1>1, <1>4, <2>1, <2>2 DEF IsDtype
<1>8. CASE ~ (SaysOfArg(w, call, c, method, j) /\ call.args[j].dtype \notin {None, NotADtype})
  <2>1. y = x /\ ~ Says(ds, n + 1)
    BY <1>6, <1>8
  <2> HIDE DEF Says
  <2>2. ls = ks /\ ks \in SUBSET (1 .. n)
    BY <1>3, <1>4, <1>5, <2>1
  <2>3. CASE ks = {} /\ x = None
    BY <1>4, <2>1, <2>2, <2>3 DEF IsDtype
  <2>4. CASE \E k \in 1 .. n : IsLast(k, ks) /\ x = cs[k].args[j].dtype
    <3>1. PICK k \in 1 .. n : IsLast(k, ks) /\ x = cs[k].args[j].dtype
      BY <2>4
    <3>2. k \in 1 .. n + 1 /\ y = ds[k].args[j].dtype
      BY <1>2, <2>1, <3>1
    <3> QED  BY <1>1, <1>4, <2>2, <3>1, <3>2 DEF IsDtype
  <2> QED  BY <1>1, <1>3, <2>3, <2>4 DEF IsDtype
<1> QED  BY <1>7, <1>8

LEMMA ArgsUnsaid ==
  ASSUME NEW w, NEW cs, NEW call, NEW ds, IsLonger(cs, call, ds), NEW c, NEW method, NEW args,
         \A j \in 1 .. w.arity[method.func] : ~ SaysOfArg(w, call, c, method, j),
         AreArgs(w, cs, c, method, args)
  PROVE  AreArgs(w, ds, c, method, args)
<1>1. ASSUME NEW j \in 1 .. w.arity[method.func], NEW arg, IsArg(w, cs, c, method, j, arg)
      PROVE  IsArg(w, ds, c, method, j, arg)
  <2>1. IsShape(w, ds, c, method, j, arg.shape)
    BY <1>1, ShapeLonger DEF IsArg
  <2>2. IsDtype(w, ds, c, method, j, arg.dtype)
    BY <1>1, DtypeLonger DEF IsArg
  <2> QED  BY <2>1, <2>2 DEF IsArg
<1> QED  BY <1>1 DEF AreArgs

\* annotateArgs: what is stored is what has been said, entry by entry.
LEMMA ArgsFilled ==
  ASSUME NEW w, NEW cs, NEW call, NEW ds, IsLonger(cs, call, ds), NEW c, NEW method,
         NEW n \in Nat, n = w.arity[method.func],
         call.op = "args", call.path # <<>>, Last(call.path) = method.name,
         GetClassAtPath(w, w.rootClass, Front(call.path)) = c,
         NEW args, args = call.args, args \in Seq(ToSet(args)), Len(args) = n,
         NEW old, AreArgs(w, cs, c, method, old)
  PROVE  AreArgs(w, ds, c, method, FillArgAnnotations(old, args))
<1>1. DOMAIN args = 1 .. n
  OBVIOUS
<1>2. PICK filled : filled = IF old = <<>> THEN [j \in DOMAIN args |-> NoArgAnnotation] ELSE old
  OBVIOUS
<1>3. \A j \in 1 .. n : IsArg(w, cs, c, method, j, filled[j])
  <2>1. CASE old = <<>>
    <3>1. \A j \in 1 .. n : filled[j] = NoArgAnnotation
      BY <1>1, <1>2, <2>1
    <3>2. \/ \A j \in 1 .. n : IsArg(w, cs, c, method, j, NoArgAnnotation)
          \/ 1 .. n = {}
      BY <2>1 DEF AreArgs
    <3> QED  BY <3>1, <3>2
  <2>2. CASE old # <<>>
    BY <1>2, <2>2 DEF AreArgs
  <2> QED  BY <2>1, <2>2
<1>4. PICK new : new = [j \in 1 .. n |-> IF j \in Reached(args) THEN FillEntry(filled[j], args[j]) ELSE filled[j]]
  OBVIOUS
<1>5. new = FillArgAnnotations(old, args)
  BY <1>1, <1>2, <1>4 DEF FillArgAnnotations
<1>6. ASSUME NEW j \in 1 .. n PROVE IsArg(w, ds, c, method, j, new[j])
  <2>1. j \in Reached(args) <=> \A l \in 1 .. j - 1 : IsComplete(args[l])
    BY <1>1 DEF Reached
  <2>2. SaysOfArg(w, call, c, method, j) <=> args[j] # None /\ j \in Reached(args)
    BY <2>1 DEF SaysOfArg
  <2>3. new[j] = IF j \in Reached(args) THEN FillEntry(filled[j], args[j]) ELSE filled[j]
    BY <1>4
  <2>4. new[j].shape = IF SaysOfArg(w, call, c, method, j) /\ call.args[j].shape # None
                       THEN call.args[j].shape ELSE filled[j].shape
    BY <2>2, <2>3 DEF FillEntry
  <2>5. new[j].dtype = IF SaysOfArg(w, call, c, method, j) /\ call.args[j].dtype \notin {None, NotADtype}
                       THEN call.args[j].dtype ELSE filled[j].dtype
    BY <2>2, <2>3 DEF FillEntry
  <2>6. IsShape(w, cs, c, method, j, filled[j].shape) /\ IsDtype(w, cs, c, method, j, filled[j].dtype)
    BY <1>3 DEF IsArg
  <2>7. IsShape(w, ds, c, method, j, new[j].shape)
    BY <2>4, <2>6, ShapeLonger
  <2>8. IsDtype(w, ds, c, method, j, new[j].dtype)
    BY <2>5, <2>6, DtypeLonger
  <2> QED  BY <2>7, <2>8 DEF IsArg
<1>7. DOMAIN new = 1 .. n
  BY <1>4
<1> QED  BY <1>5, <1>6, <1>7 DEF AreArgs

\* The flag of a member after a call.
IsFlagAfter(flag, old, w, call, c, name) ==
  flag \in BOOLEAN /\ (flag <=> IF SaysOf(w, call, c, name) THEN call.op = "export" ELSE old)

LEMMA FlagLonger ==
  ASSUME NEW w, NEW cs, NEW call, NEW ds, IsLonger(cs, call, ds), NEW c, NEW name, NEW old, NEW flag,
         IsFlag(old, w, cs, c, name), IsFlagAfter(flag, old, w, call, c, name)
  PROVE  IsFlag(flag, w, ds, c, name)
BY ExportedLonger DEF IsFlag, IsFlagAfter

\* An annotation after a call.
LEMMA AnnotationLonger ==
  ASSUME NEW w, NEW cs, NEW call, NEW ds, IsLonger(cs, call, ds), NEW c, NEW a, NEW b,
         IsAnnotation(w, cs, c, a),
         DOMAIN b.attrs = DOMAIN Attrs(w, c), DOMAIN b.methods = DOMAIN Methods(w, c),
         \A i \in DOMAIN Attrs(w, c) : IsFlagAfter(b.attrs[i], a.attrs[i], w, call, c, Attrs(w, c)[i].name),
         \A i \in DOMAIN Methods(w, c) :
           /\ IsFlagAfter(b.methods[i].exported, a.methods[i].exported, w, call, c, Methods(w, c)[i].name)
           /\ AreArgs(w, ds, c, Methods(w, c)[i], b.methods[i].args)
  PROVE  IsAnnotation(w, ds, c, b)
BY FlagLonger DEF IsAnnotation

\* The call says nothing of class c.
SaysNothing(w, call, c) ==
  /\ \A i \in DOMAIN Attrs(w, c) : ~ SaysOf(w, call, c, Attrs(w, c)[i].name)
  /\ \A i \in DOMAIN Methods(w, c) :
       /\ ~ SaysOf(w, call, c, Methods(w, c)[i].name)
       /\ \A j \in 1 .. w.arity[Methods(w, c)[i].func] : ~ SaysOfArg(w, call, c, Methods(w, c)[i], j)

LEMMA AnnotationUnsaid ==
  ASSUME NEW w, NEW cs, NEW call, NEW ds, IsLonger(cs, call, ds), NEW c, NEW a,
         IsAnnotation(w, cs, c, a), SaysNothing(w, call, c)
  PROVE  IsAnnotation(w, ds, c, a)
<1>1. ASSUME NEW name, NEW flag, IsFlag(flag, w, cs, c, name), ~ SaysOf(w, call, c, name)
      PROVE  IsFlagAfter(flag, flag, w, call, c, name)
  BY <1>1 DEF IsFlag, IsFlagAfter
<1>2. ASSUME NEW i \in DOMAIN Methods(w, c) PROVE AreArgs(w, ds, c, Methods(w, c)[i], a.methods[i].args)
  BY <1>2, ArgsUnsaid DEF IsAnnotation, SaysNothing
<1> QED  BY <1>1, <1>2, AnnotationLonger DEF IsAnnotation, SaysNothing

-----------------------------------------------------------------------------
\* Classes along a path

LEMMA FrontIsSeq ==
  ASSUME NEW path, path \in Seq(ToSet(path)), path # <<>>
  PROVE  Front(path) \in Seq(ToSet(path))
<1>1. PICK S : S = ToSet(path)
  OBVIOUS
<1> QED  BY <1>1 DEF Front

\* The classes that the prefixes of a path lead to.
IsClassWalk(w, c, path, U) ==
  /\ DOMAIN U = 0 .. Len(path)
  /\ U[0] = c
  /\ \A k \in 1 .. Len(path) : U[k] = IF U[k - 1] = None THEN None ELSE ChildClass(w, U[k - 1], path[k])

LEMMA ChildIsClass ==
  ASSUME NEW w, NEW c, NEW name
  PROVE  ChildClass(w, c, name) \in Classes(w) \cup {None}
<1>1. PICK types : types = {a.type : a \in {b \in ToSet(Attrs(w, c)) : b.name = name}} \cap Classes(w)
  OBVIOUS
<1>2. ChildClass(w, c, name) = IF types = {} THEN None ELSE CHOOSE type \in types : TRUE
  BY <1>1 DEF ChildClass
<1>3. types # {} => (CHOOSE type \in types : TRUE) \in types
  OBVIOUS
<1> QED  BY <1>1, <1>2, <1>3

LEMMA ClassWalkExists ==
  ASSUME NEW w, NEW c \in Classes(w), NEW N, NEW path \in Seq(N)
  PROVE  \E U : IsClassWalk(w, c, path, U) /\ \A k \in 0 .. Len(path) : U[k] \in Classes(w) \cup {None}
<1>1. PICK n \in Nat : n = Len(path)
  OBVIOUS
<1>2. PICK D : D = Classes(w) \cup {None}
  OBVIOUS
<1>3. c \in D
  BY <1>2
<1> DEFINE Step(k, d) == IF d = None THEN None ELSE ChildClass(w, d, path[k])
<1>4. \A k, d : Step(k, d) \in D
  BY <1>2, ChildIsClass
<1>5. PICK F \in [1 .. n -> [D -> D]] : \A k \in 1 .. n, d \in D : F[k][d] = Step(k, d)
  <2> DEFINE G == [k \in 1 .. n |-> [d \in D |-> Step(k, d)]]
  <2> HIDE DEF Step
  <2>1. G \in [1 .. n -> [D -> D]] /\ \A k \in 1 .. n, d \in D : G[k][d] = Step(k, d)
    BY <1>4
  <2> QED  BY <2>1
<1>6. PICK U : IsRun(D, c, n, F, U)
  BY <1>3, FiniteRecursion
<1>7. \A k \in 1 .. n : k - 1 \in 0 .. n
  OBVIOUS
<1>8. \A k \in 1 .. n : U[k] = Step(k, U[k - 1])
  <2> HIDE DEF Step
  <2> QED  BY <1>5, <1>6, <1>7 DEF IsRun
<1> QED  BY <1>1, <1>2, <1>6, <1>8 DEF IsClassWalk, IsRun

LEMMA ClassWalkIs ==
  ASSUME NEW w, NEW c, NEW N, NEW path \in Seq(N), NEW U, IsClassWalk(w, c, path, U)
  PROVE  GetClassAtPath(w, c, path) = U[Len(path)]
<1>1. PICK n \in Nat : n = Len(path)
  OBVIOUS
<1> DEFINE Step(k, d) == IF d = None THEN None ELSE ChildClass(w, d, path[k])
           Is(up) == up = [i \in 0 .. n |-> IF i = 0 THEN c ELSE Step(i, up[i - 1])]
           at == CHOOSE up : Is(up)
<1>2. GetClassAtPath(w, c, path) = at[n]
  BY <1>1 DEF GetClassAtPath
<1>3. U[0] = c /\ DOMAIN U = 0 .. n /\ \A k \in 1 .. n : U[k] = Step(k, U[k - 1])
  BY <1>1 DEF IsClassWalk
<1> HIDE DEF Step
<1>4. Is(at)
  <2>1. PICK V : V = [i \in 0 .. n |-> IF i = 0 THEN c ELSE Step(i, U[i - 1])]
    OBVIOUS
  <2>2. \A i \in 0 .. n : i = 0 \/ i \in 1 .. n
    OBVIOUS
  <2>3. \A i \in 0 .. n : V[i] = U[i]
    BY <1>3, <2>1, <2>2
  <2>4. \A i \in 0 .. n : i = 0 \/ i - 1 \in 0 .. n
    OBVIOUS
  <2>5. V = [i \in 0 .. n |-> IF i = 0 THEN c ELSE Step(i, V[i - 1])]
    BY <2>1, <2>3, <2>4
  <2> QED  BY <2>5
<1> HIDE DEF at
<1>5. at[0] = c /\ \A k \in 1 .. n : at[k] = Step(k, at[k - 1])
  BY <1>4
<1> DEFINE S == {k \in Nat : k <= n => at[k] = U[k]}
<1>6. 0 \in S
  BY <1>3, <1>5
<1>7. ASSUME NEW k \in Nat, k \in S, k + 1 <= n PROVE at[k + 1] = U[k + 1]
  <2>1. k + 1 \in 1 .. n /\ (k + 1) - 1 = k /\ at[k] = U[k]
    BY <1>7
  <2> QED  BY <1>3, <1>5, <2>1
<1>8. \A k \in Nat : k \in S => k + 1 \in S
  BY <1>7
<1>9. n \in S
  <2> HIDE DEF S
  <2> QED  BY <1>6, <1>8, SetInduction
<1> QED  BY <1>1, <1>2, <1>9

LEMMA ClassOfPath ==
  ASSUME world \in Worlds, NEW path, path \in Seq(ToSet(path)), path # <<>>
  PROVE  GetClassAtPath(world, world.rootClass, Front(path)) \in Classes(world) \cup {None}
<1>1. PICK N : N = ToSet(path)
  OBVIOUS
<1>2. PICK front \in Seq(N) : front = Front(path)
  BY <1>1, FrontIsSeq
<1>3. world.rootClass \in Classes(world)
  BY ClassesWellFormed
<1>4. PICK U : /\ IsClassWalk(world, world.rootClass, front, U)
               /\ \A k \in 0 .. Len(front) : U[k] \in Classes(world) \cup {None}
  BY <1>3, ClassWalkExists
<1>5. Len(front) \in 0 .. Len(front)
  OBVIOUS
<1> QED  BY <1>2, <1>4, <1>5, ClassWalkIs

-----------------------------------------------------------------------------
\* What a user does

LEMMA NothingSaid ==
  ASSUME NEW w, NEW c
  PROVE  IsAnnotation(w, <<>>, c, ClassAnnotation(w, c))
<1>1. \A name : IsFlag(TRUE, w, <<>>, c, name)
  BY DEF IsFlag, IsExported
<1>2. ASSUME NEW method PROVE AreArgs(w, <<>>, c, method, <<>>)
  <2>1. ASSUME NEW j PROVE IsArg(w, <<>>, c, method, j, NoArgAnnotation)
    <3>1. Shaped(w, <<>>, c, method, j) = {} /\ Typed(w, <<>>, c, method, j) = {}
      BY DEF Shaped, Typed
    <3> QED  BY <3>1 DEF IsArg, IsShape, IsDtype, NoArgAnnotation
  <2> QED  BY <2>1 DEF AreArgs
<1>3. PICK b : b = ClassAnnotation(w, c)
  OBVIOUS
<1>4. /\ DOMAIN b.attrs = DOMAIN Attrs(w, c) /\ \A i \in DOMAIN Attrs(w, c) : b.attrs[i] = TRUE
      /\ DOMAIN b.methods = DOMAIN Methods(w, c)
      /\ \A i \in DOMAIN Methods(w, c) : b.methods[i].exported = TRUE /\ b.methods[i].args = <<>>
  BY <1>3 DEF ClassAnnotation
<1> QED  BY <1>1, <1>2, <1>3, <1>4 DEF IsAnnotation

LEMMA Created ==
  ASSUME NEW cs, NEW c
  PROVE  /\ Annotation(world, GetOrCreate(cs), c) = Annotation(world, annotations, c)
         /\ DOMAIN GetOrCreate(cs) = DOMAIN annotations \cup cs
         /\ c \in DOMAIN GetOrCreate(cs) => GetOrCreate(cs)[c] = Annotation(world, annotations, c)
BY DEF GetOrCreate, Annotation

AnnotatorInv == IsSeq(calls) /\ AnnotationsInv(world, calls, annotations)

LEMMA OneMoreCall ==
  ASSUME NEW op, NEW path, NEW args, NEW ok, IsSeq(calls), Called(op, path, args, ok), NEW call,
         call = [op |-> op, path |-> path, args |-> args, ok |-> ok]
  PROVE  IsSeq(calls') /\ IsLonger(calls, call, calls')
BY AppendIsSeq DEF Called, IsLonger

\* The call is of the annotator's.
IsCall(call, op, path, args) == call.op = op /\ call.path = path /\ call.args = args

LEMMA ExportNoneStep ==
  ASSUME AnnotatorInv, ExportNone
  PROVE  AnnotatorInv'
<1>1. PICK call : call = [op |-> "none", path |-> <<>>, args |-> <<>>, ok |-> TRUE]
  OBVIOUS
<1>2. IsSeq(calls') /\ IsLonger(calls, call, calls') /\ world' = world
  BY <1>1, OneMoreCall DEF AnnotatorInv, ExportNone
<1>3. PICK below : below = BelowClass(world, world.rootClass)
  OBVIOUS
<1>4. below \subseteq Classes(world)
  BY <1>3 DEF BelowClass
<1>5. PICK created : created = GetOrCreate(below)
  OBVIOUS
<1>6. annotations' =
        [c \in DOMAIN created |->
           IF c \notin below THEN created[c]
           ELSE [attrs   |-> [i \in DOMAIN created[c].attrs |-> FALSE],
                 methods |-> [i \in DOMAIN created[c].methods |->
                                [exported |-> FALSE, args |-> created[c].methods[i].args]]]]
  BY <1>3, <1>5 DEF ExportNone
<1>7. DOMAIN created = DOMAIN annotations \cup below
  BY <1>5, Created
<1>8. DOMAIN annotations' = DOMAIN created
  BY <1>6
<1>9. ASSUME NEW c \in Classes(world) PROVE IsAnnotation(world, calls', c, Annotation(world, annotations', c))
  <2>1. PICK a : a = Annotation(world, annotations, c)
    OBVIOUS
  <2>2. PICK b : b = Annotation(world, annotations', c)
    OBVIOUS
  <2>3. IsAnnotation(world, calls, c, a)
    BY <2>1 DEF AnnotatorInv, AnnotationsInv
  <2>4. c \in DOMAIN created => created[c] = a
    BY <1>5, <2>1, Created
  <2>5. \A name : SaysOf(world, call, c, name) <=> c \in below
    BY <1>1, <1>3 DEF SaysOf
  <2>6. \A method, j : ~ SaysOfArg(world, call, c, method, j)
    BY <1>1 DEF SaysOfArg
  <2>7. CASE c \in below
    <3>1. b = annotations'[c] /\ c \in DOMAIN created
      BY <1>7, <1>8, <2>2, <2>7 DEF Annotation
    <3>2. b = [attrs   |-> [i \in DOMAIN a.attrs |-> FALSE],
               methods |-> [i \in DOMAIN a.methods |-> [exported |-> FALSE, args |-> a.methods[i].args]]]
      BY <1>6, <2>4, <2>7, <3>1
    <3>3. DOMAIN a.attrs = DOMAIN Attrs(world, c) /\ DOMAIN a.methods = DOMAIN Methods(world, c)
      BY <2>3 DEF IsAnnotation
    <3>4. /\ DOMAIN b.attrs = DOMAIN Attrs(world, c) /\ DOMAIN b.methods = DOMAIN Methods(world, c)
          /\ \A i \in DOMAIN Attrs(world, c) : b.attrs[i] = FALSE
          /\ \A i \in DOMAIN Methods(world, c) :
               b.methods[i].exported = FALSE /\ b.methods[i].args = a.methods[i].args
      BY <3>2, <3>3
    <3>5. ASSUME NEW name, NEW old PROVE IsFlagAfter(FALSE, old, world, call, c, name)
      BY <1>1, <2>5, <2>7 DEF IsFlagAfter
    <3>6. ASSUME NEW i \in DOMAIN Methods(world, c)
          PROVE  AreArgs(world, calls', c, Methods(world, c)[i], b.methods[i].args)
      <4>1. AreArgs(world, calls, c, Methods(world, c)[i], b.methods[i].args)
        BY <2>3, <3>4 DEF IsAnnotation
      <4> QED  BY <1>2, <2>6, <4>1, ArgsUnsaid
    <3>7. /\ \A i \in DOMAIN Attrs(world, c) :
               IsFlagAfter(b.attrs[i], a.attrs[i], world, call, c, Attrs(world, c)[i].name)
          /\ \A i \in DOMAIN Methods(world, c) :
               IsFlagAfter(b.methods[i].exported, a.methods[i].exported, world, call, c, Methods(world, c)[i].name)
      BY <3>4, <3>5
    <3>8. PICK ds : ds = calls'
      OBVIOUS
    <3>9. IsAnnotation(world, ds, c, b)
      BY <1>2, <2>3, <3>4, <3>6, <3>7, <3>8, AnnotationLonger
    <3> QED  BY <2>2, <3>8, <3>9
  <2>8. CASE c \notin below
    <3>1. b = a
      BY <1>6, <1>7, <1>8, <2>1, <2>2, <2>4, <2>8 DEF Annotation
    <3>2. SaysNothing(world, call, c)
      BY <2>5, <2>6, <2>8 DEF SaysNothing
    <3> QED  BY <1>2, <2>2, <2>3, <3>1, <3>2, AnnotationUnsaid
  <2> QED  BY <2>7, <2>8
<1>10. DOMAIN annotations' \subseteq Classes(world)
  BY <1>4, <1>7, <1>8 DEF AnnotatorInv, AnnotationsInv
<1> QED  BY <1>2, <1>9, <1>10 DEF AnnotatorInv, AnnotationsInv

\* A flag that is set, or stays.
LEMMA FlagSet ==
  ASSUME NEW w, NEW cs, NEW call, NEW c, NEW name, NEW old, IsFlag(old, w, cs, c, name),
         call.op = "export", NEW last, SaysOf(w, call, c, name) <=> name = last,
         NEW flag, flag = (old \/ name = last)
  PROVE  IsFlagAfter(flag, old, w, call, c, name)
<1>1. CASE name = last
  <2>1. flag = TRUE
    BY <1>1
  <2> QED  BY <1>1, <2>1 DEF IsFlagAfter
<1>2. CASE name # last
  <2>1. old \in BOOLEAN
    BY DEF IsFlag
  <2>2. flag = old
    BY <1>2, <2>1
  <2> QED  BY <1>2, <2>1, <2>2 DEF IsFlagAfter
<1> QED  BY <1>1, <1>2

LEMMA ExportPathStep ==
  ASSUME AnnotatorInv, world \in Worlds, NEW path \in world.paths, ExportPath(path)
  PROVE  AnnotatorInv'
<1>0. None \notin Classes(world) /\ path \in Seq(ToSet(path))
  BY ClassesWellFormed
<1>1. PICK c : c = IF path = <<>> THEN None ELSE GetClassAtPath(world, world.rootClass, Front(path))
  OBVIOUS
<1>2. PICK created : created = GetOrCreate({c})
  OBVIOUS
<1>3. PICK ok : ok = (c # None /\ Last(path) \in MemberNames(world, c))
  OBVIOUS
<1>4. ok \in BOOLEAN
  BY <1>3
<1>5. PICK call : call = [op |-> "export", path |-> path, args |-> <<>>, ok |-> ok]
  OBVIOUS
<1>6. PICK ds : ds = calls'
  OBVIOUS
<1>7. IsSeq(ds) /\ IsLonger(calls, call, ds) /\ world' = world
  <2>1. Called("export", path, <<>>, ok) /\ world' = world
    BY <1>1, <1>3 DEF ExportPath
  <2> QED  BY <1>5, <1>6, <2>1, OneMoreCall DEF AnnotatorInv
<1>8. ASSUME NEW d \in Classes(world), NEW name
      PROVE  SaysOf(world, call, d, name) <=> d = c /\ name = Last(path)
  <2>1. call.op = "export" /\ call.path = path
    BY <1>5
  <2>2. SaysOf(world, call, d, name) <=>
          path # <<>> /\ Last(path) = name /\ GetClassAtPath(world, world.rootClass, Front(path)) = d
    BY <2>1 DEF SaysOf
  <2>3. d = c => path # <<>> /\ c = GetClassAtPath(world, world.rootClass, Front(path))
    BY <1>0, <1>1
  <2> QED  BY <1>1, <2>2, <2>3
<1>9. \A d, method, j : ~ SaysOfArg(world, call, d, method, j)
  BY <1>5 DEF SaysOfArg
<1>10. ASSUME NEW d \in Classes(world), d # c \/ Last(path) \notin MemberNames(world, c)
       PROVE  IsAnnotation(world, ds, d, Annotation(world, annotations, d))
  <2>1. PICK a : a = Annotation(world, annotations, d)
    OBVIOUS
  <2>2. IsAnnotation(world, calls, d, a)
    BY <2>1 DEF AnnotatorInv, AnnotationsInv
  <2>3. /\ \A i \in DOMAIN Attrs(world, d) : Attrs(world, d)[i].name \in MemberNames(world, d)
        /\ \A i \in DOMAIN Methods(world, d) : Methods(world, d)[i].name \in MemberNames(world, d)
    BY DEF MemberNames, ToSet
  <2>4. \A name \in MemberNames(world, d) : ~ SaysOf(world, call, d, name)
    BY <1>8, <1>10
  <2>5. SaysNothing(world, call, d)
    BY <1>9, <2>3, <2>4 DEF SaysNothing
  <2> QED  BY <1>7, <2>1, <2>2, <2>5, AnnotationUnsaid
<1>11. CASE ~ ok
  <2>1. annotations' = annotations
    BY <1>1, <1>3, <1>11 DEF ExportPath
  <2>2. ASSUME NEW d \in Classes(world) PROVE IsAnnotation(world, ds, d, Annotation(world, annotations, d))
    BY <1>0, <1>3, <1>10, <1>11
  <2> QED  BY <1>6, <1>7, <2>1, <2>2 DEF AnnotatorInv, AnnotationsInv
<1>12. CASE ok
  <2>1. PICK old : old = created[c]
    OBVIOUS
  <2>2. annotations' =
          [created EXCEPT ![c] =
             [attrs   |-> [i \in DOMAIN @.attrs |-> @.attrs[i] \/ Attrs(world, c)[i].name = Last(path)],
              methods |-> [i \in DOMAIN @.methods |->
                             [exported |-> @.methods[i].exported \/ Methods(world, c)[i].name = Last(path),
                              args     |-> @.methods[i].args]]]]
    BY <1>1, <1>2, <1>3, <1>12 DEF ExportPath
  <2>3. DOMAIN created = DOMAIN annotations \cup {c} /\ old = Annotation(world, annotations, c)
    BY <1>2, <2>1, Created
  <2>4. PICK b : b = [attrs   |-> [i \in DOMAIN old.attrs |-> old.attrs[i] \/ Attrs(world, c)[i].name = Last(path)],
                      methods |-> [i \in DOMAIN old.methods |->
                                     [exported |-> old.methods[i].exported \/ Methods(world, c)[i].name = Last(path),
                                      args     |-> old.methods[i].args]]]
    OBVIOUS
  <2>5. annotations' = [created EXCEPT ![c] = b]
    BY <2>1, <2>2, <2>4
  <2>6. created = [d \in DOMAIN created |-> created[d]]
    BY <1>2 DEF GetOrCreate
  <2>7. /\ DOMAIN annotations' = DOMAIN annotations \cup {c} /\ annotations'[c] = b
        /\ \A d \in DOMAIN annotations : d # c => annotations'[d] = created[d]
    BY <2>3, <2>5, <2>6
  <2>8. c \in Classes(world)
    BY <1>0, <1>1, <1>3, <1>12, ClassOfPath
  <2>9. ASSUME NEW d \in Classes(world), d # c
        PROVE  Annotation(world, annotations', d) = Annotation(world, annotations, d)
    BY <1>2, <2>3, <2>7, <2>9, Created DEF Annotation
  <2>10. Annotation(world, annotations', c) = b
    BY <2>7 DEF Annotation
  <2>11. IsAnnotation(world, calls, c, old)
    BY <2>3, <2>8 DEF AnnotatorInv, AnnotationsInv
  <2>12. DOMAIN old.attrs = DOMAIN Attrs(world, c) /\ DOMAIN old.methods = DOMAIN Methods(world, c)
    BY <2>11 DEF IsAnnotation
  <2>13. /\ DOMAIN b.attrs = DOMAIN Attrs(world, c) /\ DOMAIN b.methods = DOMAIN Methods(world, c)
         /\ \A i \in DOMAIN Attrs(world, c) : b.attrs[i] = (old.attrs[i] \/ Attrs(world, c)[i].name = Last(path))
         /\ \A i \in DOMAIN Methods(world, c) :
              /\ b.methods[i].exported = (old.methods[i].exported \/ Methods(world, c)[i].name = Last(path))
              /\ b.methods[i].args = old.methods[i].args
    BY <2>4, <2>12
  <2>14. \A name : SaysOf(world, call, c, name) <=> name = Last(path)
    BY <1>8, <2>8
  <2>15. call.op = "export"
    BY <1>5
  <2>16. ASSUME NEW i \in DOMAIN Attrs(world, c)
         PROVE  IsFlagAfter(b.attrs[i], old.attrs[i], world, call, c, Attrs(world, c)[i].name)
    <3>1. IsFlag(old.attrs[i], world, calls, c, Attrs(world, c)[i].name)
      BY <2>11 DEF IsAnnotation
    <3>2. PICK last : last = Last(path)
      OBVIOUS
    <3>3. PICK name : name = Attrs(world, c)[i].name
      OBVIOUS
    <3>4. PICK flag : flag = b.attrs[i]
      OBVIOUS
    <3>5. PICK was : was = old.attrs[i]
      OBVIOUS
    <3>6. flag = (was \/ name = last)
      BY <2>13, <3>2, <3>3, <3>4, <3>5
    <3>7. IsFlag(was, world, calls, c, name)
      BY <3>1, <3>3, <3>5
    <3>8. SaysOf(world, call, c, name) <=> name = last
      BY <2>14, <3>2
    <3>9. IsFlagAfter(flag, was, world, call, c, name)
      BY <2>15, <3>6, <3>7, <3>8, FlagSet
    <3> QED  BY <3>3, <3>4, <3>5, <3>9
  <2>17. ASSUME NEW i \in DOMAIN Methods(world, c)
         PROVE  /\ IsFlagAfter(b.methods[i].exported, old.methods[i].exported, world, call, c, Methods(world, c)[i].name)
                /\ AreArgs(world, ds, c, Methods(world, c)[i], b.methods[i].args)
    <3>1. IsFlag(old.methods[i].exported, world, calls, c, Methods(world, c)[i].name)
      BY <2>11 DEF IsAnnotation
    <3>2. AreArgs(world, calls, c, Methods(world, c)[i], b.methods[i].args)
      BY <2>11, <2>13 DEF IsAnnotation
    <3>3. AreArgs(world, ds, c, Methods(world, c)[i], b.methods[i].args)
      BY <1>7, <1>9, <3>2, ArgsUnsaid
    <3>4. PICK last : last = Last(path)
      OBVIOUS
    <3>5. PICK flag : flag = b.methods[i].exported
      OBVIOUS
    <3>6. PICK was : was = old.methods[i].exported
      OBVIOUS
    <3>7. PICK name : name = Methods(world, c)[i].name
      OBVIOUS
    <3>8. flag = (was \/ name = last)
      BY <2>13, <3>4, <3>5, <3>6, <3>7
    <3>9. IsFlag(was, world, calls, c, name)
      BY <3>1, <3>6, <3>7
    <3>10. SaysOf(world, call, c, name) <=> name = last
      BY <2>14, <3>4
    <3>11. IsFlagAfter(flag, was, world, call, c, name)
      BY <2>15, <3>8, <3>9, <3>10, FlagSet
    <3> QED  BY <3>3, <3>5, <3>6, <3>7, <3>11
  <2>18. IsAnnotation(world, ds, c, b)
    BY <1>7, <2>11, <2>13, <2>16, <2>17, AnnotationLonger
  <2>19. ASSUME NEW d \in Classes(world) PROVE IsAnnotation(world, ds, d, Annotation(world, annotations', d))
    BY <1>10, <2>9, <2>10, <2>18
  <2>20. DOMAIN annotations' \subseteq Classes(world)
    BY <2>7, <2>8 DEF AnnotatorInv, AnnotationsInv
  <2> QED  BY <1>6, <1>7, <2>19, <2>20 DEF AnnotatorInv, AnnotationsInv
<1> QED  BY <1>4, <1>11, <1>12

LEMMA AnnotateArgsStep ==
  ASSUME AnnotatorInv, world \in Worlds, NEW path \in world.paths, NEW args \in world.argLists,
         AnnotateArgs(path, args)
  PROVE  AnnotatorInv'
<1>1. None \notin Classes(world) /\ path \in Seq(ToSet(path)) /\ args \in Seq(ToSet(args))
  BY ClassesWellFormed
<1>2. PICK c : c = IF path = <<>> THEN None ELSE GetClassAtPath(world, world.rootClass, Front(path))
  OBVIOUS
<1>3. c \in Classes(world) \cup {None}
  BY <1>1, <1>2, ClassOfPath
<1>4. PICK named : named = IF c = None THEN {} ELSE {i \in DOMAIN Methods(world, c) : Methods(world, c)[i].name = Last(path)}
  OBVIOUS
<1>5. PICK created : created = GetOrCreate({c})
  OBVIOUS
<1>6. PICK fits : fits = \A i \in named : Len(args) = world.arity[Methods(world, c)[i].func]
  OBVIOUS
<1>7. PICK ok : ok = (named # {} /\ fits /\ \A j \in DOMAIN args : IsComplete(args[j]))
  OBVIOUS
<1>8. PICK call : call = [op |-> "args", path |-> path, args |-> args, ok |-> ok]
  OBVIOUS
<1>9. call.op = "args" /\ call.path = path /\ call.args = args
  BY <1>8
<1>10. PICK ds : ds = calls'
  OBVIOUS
<1>11. IsSeq(ds) /\ IsLonger(calls, call, ds) /\ world' = world
  <2>1. Called("args", path, args, ok) /\ world' = world
    BY <1>2, <1>4, <1>6, <1>7 DEF AnnotateArgs
  <2> QED  BY <1>8, <1>10, <2>1, OneMoreCall DEF AnnotatorInv
<1>12. \A d, name : ~ SaysOf(world, call, d, name)
  BY <1>9 DEF SaysOf
<1>13. ASSUME NEW d \in Classes(world), NEW i \in DOMAIN Methods(world, d), NEW j,
              SaysOfArg(world, call, d, Methods(world, d)[i], j)
       PROVE  d = c /\ i \in named /\ Len(args) = world.arity[Methods(world, d)[i].func] /\ path # <<>>
  BY <1>1, <1>2, <1>4, <1>9, <1>13 DEF SaysOfArg
<1>14. ASSUME NEW d \in Classes(world), d # c \/ named = {} \/ ~ fits
       PROVE  IsAnnotation(world, ds, d, Annotation(world, annotations, d))
  <2>1. PICK a : a = Annotation(world, annotations, d)
    OBVIOUS
  <2>2. IsAnnotation(world, calls, d, a)
    BY <2>1 DEF AnnotatorInv, AnnotationsInv
  <2>3. \A i, k \in named : i = k
    BY <1>3, <1>4, ClassesWellFormed
  <2>4. ASSUME NEW i \in DOMAIN Methods(world, d), NEW j
        PROVE  ~ SaysOfArg(world, call, d, Methods(world, d)[i], j)
    <3> SUFFICES ASSUME SaysOfArg(world, call, d, Methods(world, d)[i], j) PROVE FALSE
      OBVIOUS
    <3>1. d = c /\ i \in named /\ Len(args) = world.arity[Methods(world, d)[i].func]
      BY <1>13
    <3> QED  BY <1>6, <1>14, <2>3, <3>1
  <2>5. SaysNothing(world, call, d)
    BY <1>12, <2>4 DEF SaysNothing
  <2> QED  BY <1>11, <2>1, <2>2, <2>5, AnnotationUnsaid
<1>15. CASE named = {}
  <2>1. annotations' = annotations
    BY <1>2, <1>4, <1>15 DEF AnnotateArgs
  <2>2. ASSUME NEW d \in Classes(world) PROVE IsAnnotation(world, ds, d, Annotation(world, annotations, d))
    BY <1>14, <1>15
  <2> QED  BY <1>10, <1>11, <2>1, <2>2 DEF AnnotatorInv, AnnotationsInv
<1>16. named # {} => c \in Classes(world)
  BY <1>3, <1>4
<1>17. CASE named # {} /\ ~ fits
  <2>1. annotations' = created
    BY <1>2, <1>4, <1>5, <1>6, <1>17 DEF AnnotateArgs
  <2>2. ASSUME NEW d \in Classes(world) PROVE IsAnnotation(world, ds, d, Annotation(world, annotations', d))
    BY <1>5, <1>14, <1>17, <2>1, Created
  <2>3. DOMAIN annotations' \subseteq Classes(world)
    BY <1>5, <1>16, <1>17, <2>1, Created DEF AnnotatorInv, AnnotationsInv
  <2> QED  BY <1>10, <1>11, <2>2, <2>3 DEF AnnotatorInv, AnnotationsInv
<1>18. CASE named # {} /\ fits
  <2>1. PICK old : old = created[c]
    OBVIOUS
  <2>2. annotations' =
          [created EXCEPT ![c] =
             [attrs   |-> @.attrs,
              methods |-> [i \in DOMAIN @.methods |->
                             [exported |-> @.methods[i].exported,
                              args     |-> IF i \in named
                                           THEN FillArgAnnotations(@.methods[i].args, args)
                                           ELSE @.methods[i].args]]]]
    BY <1>2, <1>4, <1>5, <1>6, <1>18 DEF AnnotateArgs
  <2>3. DOMAIN created = DOMAIN annotations \cup {c} /\ old = Annotation(world, annotations, c)
    BY <1>5, <2>1, Created
  <2>4. PICK b : b = [attrs   |-> old.attrs,
                      methods |-> [i \in DOMAIN old.methods |->
                                     [exported |-> old.methods[i].exported,
                                      args     |-> IF i \in named
                                                   THEN FillArgAnnotations(old.methods[i].args, args)
                                                   ELSE old.methods[i].args]]]
    OBVIOUS
  <2>5. annotations' = [created EXCEPT ![c] = b]
    BY <2>1, <2>2, <2>4
  <2>6. created = [d \in DOMAIN created |-> created[d]]
    BY <1>5 DEF GetOrCreate
  <2>7. /\ DOMAIN annotations' = DOMAIN annotations \cup {c} /\ annotations'[c] = b
        /\ \A d \in DOMAIN annotations : d # c => annotations'[d] = created[d]
    BY <2>3, <2>5, <2>6
  <2>8. c \in Classes(world)
    BY <1>16, <1>18
  <2>9. ASSUME NEW d \in Classes(world), d # c
        PROVE  Annotation(world, annotations', d) = Annotation(world, annotations, d)
    BY <1>5, <2>3, <2>7, <2>9, Created DEF Annotation
  <2>10. Annotation(world, annotations', c) = b
    BY <2>7 DEF Annotation
  <2>11. IsAnnotation(world, calls, c, old)
    BY <2>3, <2>8 DEF AnnotatorInv, AnnotationsInv
  <2>12. DOMAIN old.attrs = DOMAIN Attrs(world, c) /\ DOMAIN old.methods = DOMAIN Methods(world, c)
    BY <2>11 DEF IsAnnotation
  <2>13. /\ b.attrs = old.attrs /\ DOMAIN b.methods = DOMAIN Methods(world, c)
         /\ \A i \in DOMAIN Methods(world, c) :
              /\ b.methods[i].exported = old.methods[i].exported
              /\ b.methods[i].args = IF i \in named THEN FillArgAnnotations(old.methods[i].args, args)
                                     ELSE old.methods[i].args
    BY <2>4, <2>12
  <2>14. ASSUME NEW name, NEW flag, IsFlag(flag, world, calls, c, name)
         PROVE  IsFlagAfter(flag, flag, world, call, c, name)
    BY <1>12, <2>14 DEF IsFlag, IsFlagAfter
  <2>15. ASSUME NEW i \in DOMAIN Methods(world, c)
         PROVE  AreArgs(world, ds, c, Methods(world, c)[i], b.methods[i].args)
    <3>1. PICK method : method = Methods(world, c)[i]
      OBVIOUS
    <3>2. PICK was : was = old.methods[i].args
      OBVIOUS
    <3>3. AreArgs(world, calls, c, method, was)
      BY <2>11, <3>1, <3>2 DEF IsAnnotation
    <3>4. CASE i \in named
      <4>1. PICK n \in Nat : n = world.arity[method.func]
        BY <2>8, <3>1, ClassesWellFormed
      <4>2. c # None
        BY <1>1, <2>8
      <4>3. method.name = Last(path)
        BY <1>4, <3>1, <3>4, <4>2
      <4>4. Len(args) = n
        BY <1>6, <1>18, <3>1, <3>4, <4>1
      <4>5. path # <<>> /\ GetClassAtPath(world, world.rootClass, Front(path)) = c
        BY <1>2, <4>2
      <4>6. AreArgs(world, ds, c, method, FillArgAnnotations(was, args))
        BY <1>1, <1>9, <1>11, <3>3, <4>1, <4>3, <4>4, <4>5, ArgsFilled
      <4> QED  BY <2>13, <3>1, <3>2, <3>4, <4>6
    <3>5. CASE i \notin named
      <4>1. \A j \in 1 .. world.arity[method.func] : ~ SaysOfArg(world, call, c, method, j)
        BY <1>13, <2>8, <3>1, <3>5
      <4>2. AreArgs(world, ds, c, method, was)
        BY <1>11, <3>3, <4>1, ArgsUnsaid
      <4> QED  BY <2>13, <3>1, <3>2, <3>5, <4>2
    <3> QED  BY <3>4, <3>5
  <2>16. /\ \A i \in DOMAIN Attrs(world, c) :
              IsFlagAfter(b.attrs[i], old.attrs[i], world, call, c, Attrs(world, c)[i].name)
         /\ \A i \in DOMAIN Methods(world, c) :
              IsFlagAfter(b.methods[i].exported, old.methods[i].exported, world, call, c, Methods(world, c)[i].name)
    BY <2>11, <2>13, <2>14 DEF IsAnnotation
  <2>17. IsAnnotation(world, ds, c, b)
    BY <1>11, <2>11, <2>12, <2>13, <2>15, <2>16, AnnotationLonger
  <2>18. ASSUME NEW d \in Classes(world) PROVE IsAnnotation(world, ds, d, Annotation(world, annotations', d))
    BY <1>14, <2>9, <2>10, <2>17
  <2>19. DOMAIN annotations' \subseteq Classes(world)
    BY <2>7, <2>8 DEF AnnotatorInv, AnnotationsInv
  <2> QED  BY <1>10, <1>11, <2>18, <2>19 DEF AnnotatorInv, AnnotationsInv
<1> QED  BY <1>15, <1>17, <1>18

-----------------------------------------------------------------------------
\* What is imported of the annotations

IsBound(w, cs, c, method, j, bounds) ==
  IF Shaped(w, cs, c, method, j) = {} \/ Typed(w, cs, c, method, j) = {} THEN bounds = {}
  ELSE \E bound : bounds = {bound} /\ IsArg(w, cs, c, method, j, bound)

AreBounds(w, cs, func, info) ==
  \A c \in Classes(w) : \A i \in DOMAIN Methods(w, c) : Methods(w, c)[i].func = func =>
    \A j \in 1 .. w.arity[func] : IsBound(w, cs, c, Methods(w, c)[i], j, info[j])

AreExports(w, cs, c, info) ==
  /\ c \in Classes(w)
  /\ \A i \in DOMAIN Attrs(w, c) : IsFlag(info.attrs[i], w, cs, c, Attrs(w, c)[i].name)
  /\ \A i \in DOMAIN Methods(w, c) : IsFlag(info.methods[i], w, cs, c, Methods(w, c)[i].name)

IsAsAsked(w, cs, op) ==
  /\ op.op = "func" => AreBounds(w, cs, op.of, op.info)
  /\ op.op = "class_type" => AreExports(w, cs, op.of, op.info)

\* All ops are.
AreAsAsked(w, cs, ops) == \A i \in 1 .. Len(ops) : IsAsAsked(w, cs, ops[i])

LEMMA Unknown ==
  ASSUME NEW w, NEW cs, NEW c, NEW method, NEW j, NEW arg, IsArg(w, cs, c, method, j, arg)
  PROVE  /\ arg.shape = None <=> Shaped(w, cs, c, method, j) = {}
         /\ arg.dtype = None <=> Typed(w, cs, c, method, j) = {}
<1>1. \A k \in Shaped(w, cs, c, method, j) : cs[k].args[j].shape # None
  BY DEF Shaped
<1>2. \A k \in Typed(w, cs, c, method, j) : cs[k].args[j].dtype # None
  BY DEF Typed
<1> QED  BY <1>1, <1>2 DEF IsArg, IsShape, IsDtype, IsLast

LEMMA ArgAnnotationsAre ==
  ASSUME AnnotatorInv, world \in Worlds, NEW c \in Classes(world), NEW i \in DOMAIN Methods(world, c),
         NEW func, Methods(world, c)[i].func = func
  PROVE  ArgAnnotationsOf(func) = Annotation(world, annotations, c).methods[i].args
<1> DEFINE owners == {d \in DOMAIN annotations : \E m \in ToSet(Methods(world, d)) : m.func = func}
           owner  == CHOOSE d \in owners : TRUE
           index  == CHOOSE k \in DOMAIN Methods(world, owner) : Methods(world, owner)[k].func = func
<1>1. ArgAnnotationsOf(func) = IF owners = {} THEN <<>> ELSE annotations[owner].methods[index].args
  BY DEF ArgAnnotationsOf
<1>2. ASSUME NEW d \in Classes(world), NEW k \in DOMAIN Methods(world, d), Methods(world, d)[k].func = func
      PROVE  d = c /\ k = i
  BY <1>2, ClassesWellFormed
<1>3. DOMAIN annotations \subseteq Classes(world)
  BY DEF AnnotatorInv, AnnotationsInv
<1>4. \A d \in owners : d = c
  BY <1>2, <1>3 DEF ToSet
<1>5. CASE c \in DOMAIN annotations
  <2>1. c \in owners
    BY <1>5 DEF ToSet
  <2>2. owner = c
    BY <1>4, <2>1
  <2>3. index = i
    BY <1>2, <2>2
  <2> HIDE DEF owners, owner, index
  <2> QED  BY <1>1, <1>5, <2>1, <2>2, <2>3 DEF Annotation
<1>6. CASE c \notin DOMAIN annotations
  <2>1. owners = {}
    BY <1>4, <1>6
  <2>2. ClassAnnotation(world, c).methods[i].args = <<>>
    BY DEF ClassAnnotation
  <2> HIDE DEF owners, owner, index
  <2> QED  BY <1>1, <1>6, <2>1, <2>2 DEF Annotation
<1> QED  BY <1>5, <1>6

LEMMA BoundsAre ==
  ASSUME AnnotatorInv, world \in Worlds, NEW func
  PROVE  AreBounds(world, calls, func, TypeBounds(func))
<1> SUFFICES ASSUME NEW c \in Classes(world), NEW i \in DOMAIN Methods(world, c),
                    Methods(world, c)[i].func = func, NEW j \in 1 .. world.arity[func]
             PROVE  IsBound(world, calls, c, Methods(world, c)[i], j, TypeBounds(func)[j])
  BY DEF AreBounds
<1>1. PICK args : args = ArgAnnotationsOf(func)
  OBVIOUS
<1>2. PICK method : method = Methods(world, c)[i]
  OBVIOUS
<1>3. AreArgs(world, calls, c, method, args)
  <2>1. args = Annotation(world, annotations, c).methods[i].args
    BY <1>1, ArgAnnotationsAre
  <2> QED  BY <1>2, <2>1 DEF AnnotatorInv, AnnotationsInv, IsAnnotation
<1>4. PICK bounds : bounds = {args[k] : k \in {l \in DOMAIN args : l = j /\ args[l].shape # None /\ args[l].dtype # None}}
  OBVIOUS
<1>5. bounds = TypeBounds(func)[j]
  BY <1>1, <1>4 DEF TypeBounds
<1>6. CASE args = <<>>
  <2>1. bounds = {}
    BY <1>4, <1>6
  <2>2. IsArg(world, calls, c, method, j, NoArgAnnotation) \/ DOMAIN args = 1 .. world.arity[func]
    BY <1>2, <1>3 DEF AreArgs
  <2>3. DOMAIN args = {}
    BY <1>6
  <2>4. Shaped(world, calls, c, method, j) = {}
    BY <2>2, <2>3, Unknown DEF NoArgAnnotation
  <2> QED  BY <1>2, <1>5, <2>1, <2>4 DEF IsBound
<1>7. CASE args # <<>>
  <2>1. DOMAIN args = 1 .. world.arity[func] /\ IsArg(world, calls, c, method, j, args[j])
    BY <1>2, <1>3, <1>7 DEF AreArgs
  <2>2. PICK arg : arg = args[j]
    OBVIOUS
  <2>3. /\ arg.shape = None <=> Shaped(world, calls, c, method, j) = {}
        /\ arg.dtype = None <=> Typed(world, calls, c, method, j) = {}
    BY <2>1, <2>2, Unknown
  <2>4. bounds = IF arg.shape # None /\ arg.dtype # None THEN {arg} ELSE {}
    BY <1>4, <2>1, <2>2
  <2> QED  BY <1>2, <1>5, <2>1, <2>2, <2>3, <2>4 DEF IsBound
<1> QED  BY <1>6, <1>7

LEMMA FuncOpsAsked ==
  ASSUME AnnotatorInv, world \in Worlds, NEW funcs, IsSeq(funcs)
  PROVE  AreAsAsked(world, calls, FuncOps(funcs)) /\ IsSeq(FuncOps(funcs))
<1>1. PICK l \in Nat : l = Len(funcs) /\ DOMAIN funcs = 1 .. l
  BY AppendIsSeq
<1> DEFINE O(i) == Op("func", funcs[i], <<>>, TypeBounds(funcs[i]))
<1>2. FuncOps(funcs) = [i \in 1 .. l |-> O(i)]
  BY <1>1 DEF FuncOps
<1>3. ASSUME NEW i \in 1 .. l PROVE IsAsAsked(world, calls, O(i))
  <2>1. PICK op : op = O(i)
    OBVIOUS
  <2>2. op.op = "func" /\ op.of = funcs[i] /\ op.info = TypeBounds(funcs[i])
    BY <2>1 DEF Op
  <2> HIDE DEF O
  <2> QED  BY <2>1, <2>2, BoundsAre DEF IsAsAsked
<1> HIDE DEF O
<1>4. PICK ops : ops = [i \in 1 .. l |-> O(i)]
  OBVIOUS
<1>5. ops \in Seq({ops[i] : i \in DOMAIN ops}) /\ Len(ops) = l
  BY <1>4
<1> QED  BY <1>2, <1>3, <1>4, <1>5 DEF AreAsAsked, IsSeq

LEMMA ClassTypeAsked ==
  ASSUME AnnotatorInv, NEW c \in Classes(world)
  PROVE  AreAsAsked(world, calls, ClassTypeOps(c)) /\ IsSeq(ClassTypeOps(c))
<1>1. PICK a : a = Annotation(world, annotations, c)
  OBVIOUS
<1>2. IsAnnotation(world, calls, c, a)
  BY <1>1 DEF AnnotatorInv, AnnotationsInv
<1>3. GetOrCreate({c})[c] = a
  BY <1>1, Created
<1>4. PICK info : info = [attrs |-> a.attrs, methods |-> [i \in DOMAIN a.methods |-> a.methods[i].exported]]
  OBVIOUS
<1>5. AreExports(world, calls, c, info)
  <2>1. /\ info.attrs = a.attrs
        /\ \A i \in DOMAIN Methods(world, c) : info.methods[i] = a.methods[i].exported
    BY <1>2, <1>4 DEF IsAnnotation
  <2> QED  BY <1>2, <2>1 DEF AreExports, IsAnnotation
<1>6. PICK op : op = ClassTypeOp(c)
  OBVIOUS
<1>7. op = Op("class_type", c, <<>>, info)
  BY <1>3, <1>4, <1>6 DEF ClassTypeOp
<1>8. IsAsAsked(world, calls, op)
  BY <1>5, <1>7 DEF IsAsAsked, Op
<1>9. AreAsAsked(world, calls, <<op>>) /\ AreAsAsked(world, calls, <<>>) /\ IsSeq(<<op>>) /\ IsSeq(<<>>)
  BY <1>8 DEF AreAsAsked, IsSeq
<1> QED  BY <1>6, <1>9 DEF ClassTypeOps

LEMMA ConcatAsked ==
  ASSUME NEW w, NEW cs, NEW b, NEW ops, IsSeq(b), IsSeq(ops), AreAsAsked(w, cs, b), AreAsAsked(w, cs, ops)
  PROVE  AreAsAsked(w, cs, b \o ops) /\ IsSeq(b \o ops)
<1>1. PICK m \in Nat, n \in Nat : m = Len(b) /\ n = Len(ops)
  BY ConcatIsSeq
<1>2. PICK d : d = b \o ops
  OBVIOUS
<1>3. /\ IsSeq(d) /\ Len(d) = m + n
      /\ \A i \in 1 .. m : d[i] = b[i]
      /\ \A i \in 1 .. n : d[m + i] = ops[i]
  BY <1>1, <1>2, ConcatIsSeq
<1>4. ASSUME NEW i \in 1 .. m + n PROVE IsAsAsked(w, cs, d[i])
  <2>1. CASE i \in 1 .. m
    BY <1>1, <1>3, <2>1 DEF AreAsAsked
  <2>2. CASE i \notin 1 .. m
    <3>1. PICK k \in 1 .. n : k = i - m
      BY <2>2
    <3>2. d[m + k] = ops[k] /\ m + k = i
      BY <1>3, <3>1
    <3> QED  BY <1>1, <3>2 DEF AreAsAsked
  <2> QED  BY <2>1, <2>2
<1> QED  BY <1>2, <1>3, <1>4 DEF AreAsAsked

LEMMA PrefixIsSeq ==
  ASSUME NEW funcs, IsSeq(funcs), NEW i \in DOMAIN funcs
  PROVE  IsSeq(SubSeq(funcs, 1, i - 1))
<1> DEFINE S == {funcs[k] : k \in DOMAIN funcs}
<1>1. funcs \in Seq(S)
  BY DEF IsSeq
<1> HIDE DEF S
<1>2. PICK t : t = SubSeq(funcs, 1, i - 1)
  OBVIOUS
<1>3. PICK l \in Nat : l = Len(funcs) /\ DOMAIN funcs = 1 .. l
  BY <1>1
<1>4. i - 1 \in 0 .. l
  BY <1>3
<1>5. t \in Seq(S)
  BY <1>1, <1>2, <1>3, <1>4
<1>6. t \in Seq({t[k] : k \in DOMAIN t})
  BY <1>5
<1> QED  BY <1>2, <1>6 DEF IsSeq

AskedInv ==
  /\ AnnotatorInv
  /\ AreAsAsked(world, calls, block)
  /\ pc = "annotate" => block = <<>>

LEMMA InitAsked == Init => AskedInv
<1> SUFFICES ASSUME Init PROVE AskedInv
  OBVIOUS
<1>1. calls = <<>> /\ block = <<>> /\ annotations = [c \in {} |-> {}]
  BY DEF Init, AnnotatorInit
<1>2. IsSeq(calls)
  BY <1>1 DEF IsSeq
<1>3. AnnotationsInv(world, calls, annotations)
  <2>1. DOMAIN annotations = {}
    BY <1>1
  <2>2. \A c : Annotation(world, annotations, c) = ClassAnnotation(world, c)
    BY <2>1 DEF Annotation
  <2> QED  BY <1>1, <2>1, <2>2, NothingSaid DEF AnnotationsInv
<1>4. AreAsAsked(world, calls, block)
  BY <1>1 DEF AreAsAsked
<1> QED  BY <1>1, <1>2, <1>3, <1>4 DEF AskedInv, AnnotatorInv

LEMMA AnnotateStep ==
  ASSUME Inv, AskedInv, Annotate
  PROVE  AskedInv'
<1>1. world \in Worlds /\ AnnotatorInv /\ block = <<>> /\ block' = block /\ pc' = pc
  BY DEF Inv, AskedInv, Annotate, importVars
<1>2. AnnotatorInv'
  BY <1>1, ExportNoneStep, ExportPathStep, AnnotateArgsStep DEF Annotate, AnnotatorNext
<1>3. AreAsAsked(world', calls', block')
  BY <1>1 DEF AreAsAsked
<1> QED  BY <1>1, <1>2, <1>3 DEF AskedInv

\* A step of the import that appends ops.
LEMMA AppendsAsked ==
  ASSUME Inv, AskedInv, NEW ops, IsSeq(ops), AreAsAsked(world, calls, ops), block' = block \o ops,
         world' = world, calls' = calls, annotations' = annotations, pc' # "annotate"
  PROVE  AskedInv'
<1>1. IsSeq(block) /\ AreAsAsked(world, calls, block) /\ AnnotatorInv
  BY DEF Inv, BlockInv, AskedInv
<1>2. AreAsAsked(world, calls, block \o ops)
  BY <1>1, ConcatAsked
<1> QED  BY <1>1, <1>2 DEF AskedInv, AnnotatorInv

\* Other ops carry no annotations.
LEMMA OtherOps ==
  ASSUME NEW w, NEW cs, NEW op, op.op \notin {"func", "class_type"}
  PROVE  AreAsAsked(w, cs, <<op>>) /\ IsSeq(<<op>>)
<1>1. IsAsAsked(w, cs, op)
  BY DEF IsAsAsked
<1> QED  BY <1>1 DEF AreAsAsked, IsSeq

LEMMA NoOpsAsked ==
  ASSUME NEW w, NEW cs
  PROVE  AreAsAsked(w, cs, <<>>) /\ IsSeq(<<>>)
BY DEF AreAsAsked, IsSeq

LEMMA KeepsAsked ==
  ASSUME AskedInv, block' = block, world' = world, calls' = calls, annotations' = annotations,
         pc' # "annotate" \/ pc' = pc
  PROVE  AskedInv'
BY DEF AskedInv, AnnotatorInv

LEMMA ThrowAsked ==
  ASSUME Inv, AskedInv, NEW kind, NEW v, NEW ops, Throw(kind, v, ops),
         IsSeq(ops), AreAsAsked(world, calls, ops),
         world' = world, calls' = calls, annotations' = annotations
  PROVE  AskedInv'
<1>1. block' = block \o ops /\ pc' # "annotate"
  BY DEF Throw
<1> QED  BY <1>1, AppendsAsked

LEMMA EnterModuleAsked ==
  ASSUME Inv, AskedInv, NEW v, EnterModule(v)
  PROVE  AskedInv'
<1>1. v \in DOMAIN world.values /\ IsModule(v) /\ world \in Worlds
  BY NextValue DEF EnterModule, Inv
<1>2. PICK c \in Classes(world) : c = Of(v)
  BY <1>1, ClassesWellFormed DEF IsModule, Kind, Of
<1>3. AnnotatorInv /\ IsSeq(block) /\ AreAsAsked(world, calls, block)
  BY DEF AskedInv, Inv, BlockInv
<1>4. /\ world' = world /\ calls' = calls /\ pc' = "import"
      /\ annotations' = GetOrCreate({c})
      /\ block' = block \o FuncOps(NewFuncs(v)) \o ClassTypeOps(c)
  BY <1>2 DEF EnterModule, IsNext
<1>5. PICK b : b = block \o FuncOps(NewFuncs(v))
  OBVIOUS
<1>6. IsSeq(b) /\ AreAsAsked(world, calls, b)
  BY <1>1, <1>3, <1>5, NewFuncsSeq, FuncOpsAsked, ConcatAsked
<1>7. AreAsAsked(world, calls, b \o ClassTypeOps(c))
  BY <1>3, <1>6, ClassTypeAsked, ConcatAsked
<1>8. AnnotatorInv'
  <2>1. \A d : Annotation(world, GetOrCreate({c}), d) = Annotation(world, annotations, d)
    BY Created
  <2>2. DOMAIN GetOrCreate({c}) \subseteq Classes(world)
    BY <1>3, Created DEF AnnotatorInv, AnnotationsInv
  <2> QED  BY <1>3, <1>4, <2>1, <2>2 DEF AnnotatorInv, AnnotationsInv
<1>9. AreAsAsked(world', calls', block')
  BY <1>4, <1>5, <1>7
<1> QED  BY <1>4, <1>8, <1>9 DEF AskedInv

LEMMA AskedStep == Inv /\ AskedInv /\ [Next]_vars => AskedInv'
<1> SUFFICES ASSUME Inv, AskedInv, [Next]_vars PROVE AskedInv'
  OBVIOUS
<1>1. CASE UNCHANGED vars
  BY <1>1, KeepsAsked DEF vars, importVars
<1>2. CASE Annotate
  BY <1>2, AnnotateStep
<1>3. CASE StartImport
  BY <1>3, KeepsAsked DEF StartImport, importVars
<1>4. ASSUME NEW v, ImportKnown(v) PROVE AskedInv'
  BY <1>4, KeepsAsked DEF ImportKnown
<1>5. ASSUME NEW v, RejectSharedStorage(v) PROVE AskedInv'
  BY <1>5, NoOpsAsked, ThrowAsked DEF RejectSharedStorage
<1>6. ASSUME NEW v, RejectUnsupported(v) PROVE AskedInv'
  <2>1. PICK op : op = Op("literal", v, <<>>, <<>>)
    OBVIOUS
  <2>2. op.op = "literal"
    BY <2>1 DEF Op
  <2>3. PICK ops : ops = IF IsTensor(v) THEN <<op>> ELSE <<>>
    OBVIOUS
  <2>4. IsSeq(ops) /\ AreAsAsked(world, calls, ops)
    BY <2>2, <2>3, OtherOps, NoOpsAsked
  <2> QED  BY <1>6, <2>1, <2>3, <2>4, ThrowAsked DEF RejectUnsupported
<1>7. ASSUME NEW v, EnterValue(v) PROVE AskedInv'
  <2>1. world' = world /\ calls' = calls /\ annotations' = annotations /\ pc' = "import"
    BY <1>7 DEF EnterValue, IsNext
  <2>2. IsSeq(block)
    BY DEF Inv, BlockInv
  <2>3. CASE Kind(v) = "per_tensor_affine"
    <3>1. PICK op : op = Op("literal", v, <<>>, <<>>)
      OBVIOUS
    <3>2. op.op = "literal"
      BY <3>1 DEF Op
    <3>3. block' = block \o <<op>>
      BY <1>7, <2>2, <2>3, <3>1, AppendIsConcat DEF EnterValue
    <3> QED  BY <2>1, <3>2, <3>3, OtherOps, AppendsAsked
  <2>4. CASE Kind(v) # "per_tensor_affine"
    BY <1>7, <2>1, <2>4, KeepsAsked DEF EnterValue
  <2> QED  BY <2>3, <2>4
<1>8. ASSUME NEW v, RejectSecondUnit(v) PROVE AskedInv'
  BY <1>8, NoOpsAsked, ThrowAsked DEF RejectSecondUnit
<1>9. ASSUME NEW v, RejectFunction(v) PROVE AskedInv'
  <2>1. v \in DOMAIN world.values /\ IsModule(v) /\ world \in Worlds /\ AnnotatorInv
    BY <1>9, NextValue DEF RejectFunction, Inv, AskedInv
  <2>2. PICK funcs : funcs = NewFuncs(v)
    OBVIOUS
  <2>3. IsSeq(funcs)
    BY <2>1, <2>2, NewFuncsSeq
  <2>4. PICK i \in DOMAIN funcs : Throw("function", v, FuncOps(SubSeq(funcs, 1, i - 1)))
    BY <1>9, <2>2 DEF RejectFunction
  <2>5. PICK before : before = SubSeq(funcs, 1, i - 1)
    OBVIOUS
  <2>6. IsSeq(before)
    BY <2>3, <2>5, PrefixIsSeq
  <2>7. PICK ops : ops = FuncOps(before)
    OBVIOUS
  <2>8. IsSeq(ops) /\ AreAsAsked(world, calls, ops)
    BY <2>1, <2>6, <2>7, FuncOpsAsked
  <2> QED  BY <1>9, <2>4, <2>5, <2>7, <2>8, ThrowAsked DEF RejectFunction
<1>10. CASE Leave
  <2>1. PICK op : op = Op("value", Top.value, Top.operands, <<>>)
    OBVIOUS
  <2>2. op.op = "value"
    BY <2>1 DEF Op
  <2>3. block' = block \o <<op>>
    BY <1>10, <2>1, AppendIsConcat DEF Leave, Emit, Inv, BlockInv
  <2>4. world' = world /\ calls' = calls /\ annotations' = annotations /\ pc' = "import"
    BY <1>10 DEF Leave
  <2> QED  BY <2>2, <2>3, <2>4, OtherOps, AppendsAsked
<1>11. CASE ImportDone
  BY <1>11, KeepsAsked DEF ImportDone, importVars
<1>12. CASE Unwind
  <2>1. world' = world /\ calls' = calls /\ annotations' = annotations /\ pc' = "throw"
    BY <1>12 DEF Unwind
  <2>2. CASE IsModule(Top.value)
    <3>1. PICK op : op = Op("incomplete", Top.value, Top.operands, <<>>)
      OBVIOUS
    <3>2. op.op = "incomplete"
      BY <3>1 DEF Op
    <3>3. block' = block \o <<op>>
      BY <1>12, <2>2, <3>1, AppendIsConcat DEF Unwind, Inv, BlockInv
    <3> QED  BY <2>1, <3>2, <3>3, OtherOps, AppendsAsked
  <2>3. CASE ~ IsModule(Top.value)
    BY <1>12, <2>1, <2>3, KeepsAsked DEF Unwind
  <2> QED  BY <2>2, <2>3
<1>13. CASE ImportFails
  BY <1>13, KeepsAsked DEF ImportFails, importVars
<1>14. CASE Terminated
  BY <1>14, KeepsAsked DEF Terminated, vars, importVars
<1> QED  BY <1>1, <1>2, <1>3, <1>4, <1>5, <1>6, <1>7, <1>8, <1>9, <1>10, <1>11, <1>12, <1>13, <1>14,
            EnterModuleAsked DEF Next, ImportNext

-----------------------------------------------------------------------------
\* Classes and their instances

\* The instances that the prefixes of a path lead to.
IsInstanceWalk(v, path, U) ==
  /\ DOMAIN U = 0 .. Len(path)
  /\ U[0] = v
  /\ \A k \in 1 .. Len(path) : U[k] = IF U[k - 1] = None THEN None ELSE Submodule(U[k - 1], path[k])

\* The instance is one of the class, if there is one.
IsInstance(v, c) ==
  \/ v = None /\ c = None
  \/ v \in Vals /\ c \in Classes(world) /\ IsModule(v) /\ Of(v) = c

LEMMA SubmoduleIsInstance ==
  ASSUME world \in Worlds, NEW v \in Vals, NEW c \in Classes(world), IsModule(v), Of(v) = c, NEW name
  PROVE  IsInstance(Submodule(v, name), ChildClass(world, c, name))
<1>1. PICK as : as = Attrs(world, c)
  OBVIOUS
<1>2. PICK elems : elems = Elems(v)
  OBVIOUS
<1>3. elems \in Seq(Vals) /\ Len(elems) = Len(as)
  BY <1>1, <1>2, WorldsWellFormed DEF Vals, Elems, IsModule, Kind, Of, Attrs
<1>4. as \in Seq(ToSet(as)) /\ \A i, j \in DOMAIN as : as[i].name = as[j].name => i = j
  BY <1>1, ClassesWellFormed
<1>5. PICK n \in Nat : DOMAIN elems = 1 .. n /\ DOMAIN as = 1 .. n
  BY <1>3, <1>4
<1>6. \A j \in 1 .. n : elems[j] \in Vals
  BY <1>3, <1>5
<1>7. ASSUME NEW j \in 1 .. n
      PROVE  IF IsModule(elems[j]) THEN as[j].type = Of(elems[j]) /\ as[j].type \in Classes(world)
             ELSE as[j].type \notin Classes(world)
  <2>1. IF world.values[elems[j]].kind = "module"
        THEN as[j].type = world.values[elems[j]].of
        ELSE as[j].type \notin Classes(world)
    BY <1>1, <1>2, <1>5, ClassesWellFormed DEF Vals, Elems, IsModule, Kind, Of
  <2>2. world.values[elems[j]].kind = "module" => world.values[elems[j]].of \in Classes(world)
    BY <1>6, ClassesWellFormed DEF Vals
  <2> QED  BY <2>1, <2>2 DEF IsModule, Kind, Of
<1>8. PICK hits : hits = {j \in 1 .. n : as[j].name = name /\ IsModule(elems[j])}
  OBVIOUS
<1>9. PICK types : types = {a.type : a \in {b \in ToSet(as) : b.name = name}} \cap Classes(world)
  OBVIOUS
<1>10. Submodule(v, name) = IF hits = {} THEN None ELSE elems[CHOOSE j \in hits : TRUE]
  BY <1>1, <1>2, <1>5, <1>8 DEF Submodule
<1>11. ChildClass(world, c, name) = IF types = {} THEN None ELSE CHOOSE type \in types : TRUE
  BY <1>1, <1>9 DEF ChildClass
<1>12. \A type : type \in types <=> \E j \in hits : type = as[j].type
  <2>1. \A type : type \in types <=> \E j \in 1 .. n : as[j].name = name /\ as[j].type = type /\ type \in Classes(world)
    BY <1>5, <1>9 DEF ToSet
  <2> QED  BY <1>7, <1>8, <2>1
<1>13. CASE hits = {}
  <2>1. types = {}
    BY <1>12, <1>13
  <2> QED  BY <1>10, <1>11, <1>13, <2>1 DEF IsInstance
<1>14. CASE hits # {}
  <2>1. PICK j \in hits : j = CHOOSE k \in hits : TRUE
    BY <1>14
  <2>2. \A k \in hits : k = j
    BY <1>4, <1>5, <1>8, <2>1
  <2>3. types = {as[j].type}
    BY <1>12, <2>1, <2>2
  <2>4. ChildClass(world, c, name) = as[j].type
    BY <1>11, <2>3
  <2>5. Submodule(v, name) = elems[j]
    BY <1>10, <1>14, <2>1
  <2>6. j \in 1 .. n /\ IsModule(elems[j])
    BY <1>8
  <2> QED  BY <1>6, <1>7, <2>4, <2>5, <2>6 DEF IsInstance
<1> QED  BY <1>13, <1>14

LEMMA SubmoduleIsValue ==
  ASSUME world \in Worlds, NEW v \in Vals, NEW name
  PROVE  Submodule(v, name) \in Vals \cup {None}
<1>1. \A j \in DOMAIN Elems(v) : Elems(v)[j] \in Vals
  BY ElemsOK DEF ToSet
<1>2. PICK hits : hits = {j \in DOMAIN Elems(v) : Attrs(world, Of(v))[j].name = name /\ IsModule(Elems(v)[j])}
  OBVIOUS
<1>3. Submodule(v, name) = IF hits = {} THEN None ELSE Elems(v)[CHOOSE j \in hits : TRUE]
  BY <1>2 DEF Submodule
<1>4. hits # {} => (CHOOSE j \in hits : TRUE) \in hits
  OBVIOUS
<1> QED  BY <1>1, <1>2, <1>3, <1>4

LEMMA InstanceWalkExists ==
  ASSUME world \in Worlds, NEW v \in Vals, NEW N, NEW path \in Seq(N)
  PROVE  \E U : IsInstanceWalk(v, path, U) /\ \A k \in 0 .. Len(path) : U[k] \in Vals \cup {None}
<1>1. PICK n \in Nat : n = Len(path)
  OBVIOUS
<1>2. PICK D : D = Vals \cup {None}
  OBVIOUS
<1>3. v \in D
  BY <1>2
<1> DEFINE Step(k, d) == IF d = None THEN None ELSE Submodule(d, path[k])
<1>4. \A k : \A d \in D : Step(k, d) \in D
  BY <1>2, SubmoduleIsValue
<1>5. PICK F \in [1 .. n -> [D -> D]] : \A k \in 1 .. n, d \in D : F[k][d] = Step(k, d)
  <2> DEFINE G == [k \in 1 .. n |-> [d \in D |-> Step(k, d)]]
  <2> HIDE DEF Step
  <2>1. G \in [1 .. n -> [D -> D]] /\ \A k \in 1 .. n, d \in D : G[k][d] = Step(k, d)
    BY <1>4
  <2> QED  BY <2>1
<1>6. PICK U : IsRun(D, v, n, F, U)
  BY <1>3, FiniteRecursion
<1>7. \A k \in 1 .. n : k - 1 \in 0 .. n
  OBVIOUS
<1>8. \A k \in 1 .. n : U[k] = Step(k, U[k - 1])
  <2> HIDE DEF Step
  <2> QED  BY <1>5, <1>6, <1>7 DEF IsRun
<1> QED  BY <1>1, <1>2, <1>6, <1>8 DEF IsInstanceWalk, IsRun

LEMMA InstanceWalkIs ==
  ASSUME NEW v, NEW N, NEW path \in Seq(N), NEW U, IsInstanceWalk(v, path, U)
  PROVE  InstanceAt(v, path) = U[Len(path)]
<1>1. PICK n \in Nat : n = Len(path)
  OBVIOUS
<1> DEFINE Step(k, d) == IF d = None THEN None ELSE Submodule(d, path[k])
           Is(up) == up = [i \in 0 .. n |-> IF i = 0 THEN v ELSE Step(i, up[i - 1])]
           at == CHOOSE up : Is(up)
<1>2. InstanceAt(v, path) = at[n]
  BY <1>1 DEF InstanceAt
<1>3. U[0] = v /\ DOMAIN U = 0 .. n /\ \A k \in 1 .. n : U[k] = Step(k, U[k - 1])
  BY <1>1 DEF IsInstanceWalk
<1> HIDE DEF Step
<1>4. Is(at)
  <2>1. PICK V : V = [i \in 0 .. n |-> IF i = 0 THEN v ELSE Step(i, U[i - 1])]
    OBVIOUS
  <2>2. \A i \in 0 .. n : i = 0 \/ i \in 1 .. n
    OBVIOUS
  <2>3. \A i \in 0 .. n : V[i] = U[i]
    BY <1>3, <2>1, <2>2
  <2>4. \A i \in 0 .. n : i = 0 \/ i - 1 \in 0 .. n
    OBVIOUS
  <2>5. V = [i \in 0 .. n |-> IF i = 0 THEN v ELSE Step(i, V[i - 1])]
    BY <2>1, <2>3, <2>4
  <2> QED  BY <2>5
<1> HIDE DEF at
<1>5. at[0] = v /\ \A k \in 1 .. n : at[k] = Step(k, at[k - 1])
  BY <1>4
<1> DEFINE S == {k \in Nat : k <= n => at[k] = U[k]}
<1>6. 0 \in S
  BY <1>3, <1>5
<1>7. ASSUME NEW k \in Nat, k \in S, k + 1 <= n PROVE at[k + 1] = U[k + 1]
  <2>1. k + 1 \in 1 .. n /\ (k + 1) - 1 = k /\ at[k] = U[k]
    BY <1>7
  <2> QED  BY <1>3, <1>5, <2>1
<1>8. \A k \in Nat : k \in S => k + 1 \in S
  BY <1>7
<1>9. n \in S
  <2> HIDE DEF S
  <2> QED  BY <1>6, <1>8, SetInduction
<1> QED  BY <1>1, <1>2, <1>9

\* A path of attributes leads to an instance of the class that it leads to.
LEMMA PathToInstance ==
  ASSUME world \in Worlds, IsModule(world.root), Of(world.root) = world.rootClass, NEW N, NEW path \in Seq(N)
  PROVE  IsInstance(InstanceAt(world.root, path), GetClassAtPath(world, world.rootClass, path))
<1>1. world.root \in Vals /\ world.rootClass \in Classes(world)
  BY WorldsWellFormed, ClassesWellFormed DEF Vals
<1>2. None \notin Classes(world) /\ None \notin Vals
  BY ClassesWellFormed DEF Vals
<1>3. PICK n \in Nat : n = Len(path)
  OBVIOUS
<1>4. PICK U : IsInstanceWalk(world.root, path, U)
  BY <1>1, InstanceWalkExists
<1>5. PICK V : IsClassWalk(world, world.rootClass, path, V)
  BY <1>1, ClassWalkExists
<1>6. InstanceAt(world.root, path) = U[n] /\ GetClassAtPath(world, world.rootClass, path) = V[n]
  BY <1>3, <1>4, <1>5, InstanceWalkIs, ClassWalkIs
<1> DEFINE S == {k \in Nat : k <= n => IsInstance(U[k], V[k])}
<1>7. 0 \in S
  BY <1>1, <1>4, <1>5 DEF IsInstanceWalk, IsClassWalk, IsInstance
<1>8. ASSUME NEW k \in Nat, k \in S, k + 1 <= n PROVE IsInstance(U[k + 1], V[k + 1])
  <2>1. k + 1 \in 1 .. n /\ (k + 1) - 1 = k /\ IsInstance(U[k], V[k])
    BY <1>8
  <2>2. PICK name : name = path[k + 1]
    OBVIOUS
  <2>3. /\ U[k + 1] = IF U[k] = None THEN None ELSE Submodule(U[k], name)
        /\ V[k + 1] = IF V[k] = None THEN None ELSE ChildClass(world, V[k], name)
    BY <1>3, <1>4, <1>5, <2>1, <2>2 DEF IsInstanceWalk, IsClassWalk
  <2>4. CASE U[k] = None
    <3>1. V[k] = None
      BY <1>2, <2>1, <2>4 DEF IsInstance
    <3> QED  BY <2>3, <2>4, <3>1 DEF IsInstance
  <2>5. CASE U[k] # None
    <3>1. PICK u \in Vals, c \in Classes(world) : u = U[k] /\ c = V[k] /\ IsModule(u) /\ Of(u) = c
      BY <2>1, <2>5 DEF IsInstance
    <3>2. IsInstance(Submodule(u, name), ChildClass(world, c, name))
      BY <3>1, SubmoduleIsInstance
    <3>3. c # None
      BY <1>2
    <3> QED  BY <2>3, <2>5, <3>1, <3>2, <3>3
  <2> QED  BY <2>4, <2>5
<1>9. \A k \in Nat : k \in S => k + 1 \in S
  BY <1>8
<1>10. n \in S
  <2> HIDE DEF S
  <2> QED  BY <1>7, <1>9, SetInduction
<1> QED  BY <1>6, <1>10

\* The submodules.
HoldsModule == {e \in Holds : IsModule(e[2])}

LEMMA InstancesClosure ==
  ASSUME world \in Worlds, NEW v \in Vals
  PROVE  IsClosure(Vals, HoldsModule, {v}, InstancesBelow(v))
<1> DEFINE More(above) == UNION {{e \in ToSet(Elems(u)) : IsModule(e)} : u \in above}
           upTo == CHOOSE upTo : upTo = [k \in Nat |->
                     IF k = 0 THEN {v} ELSE LET above == upTo[k - 1] IN above \cup More(above)]
<1>1. {v} \in SUBSET Vals /\ IsFiniteSet(Vals)
  BY WorldsWellFormed DEF Vals
<1>2. \A above \in SUBSET Vals : More(above) = {p \in Vals : \E m \in above : <<m, p>> \in HoldsModule}
  <2> TAKE above \in SUBSET Vals
  <2>1. \A m \in Vals : \A p : <<m, p>> \in HoldsModule <=> p \in Vals /\ p \in ToSet(Elems(m)) /\ IsModule(p)
    BY DEF Holds, HoldsModule
  <2>2. \A p : p \in More(above) <=> \E m \in above : p \in ToSet(Elems(m)) /\ IsModule(p)
    OBVIOUS
  <2>3. \A m \in Vals : ToSet(Elems(m)) \in SUBSET Vals
    BY ElemsOK
  <2> HIDE DEF More
  <2> QED  BY <2>1, <2>2, <2>3
<1> HIDE DEF More
<1>3. PICK g \in [Nat -> SUBSET Vals] : IsSearch(Vals, HoldsModule, {v}, g)
  BY <1>1, SearchExists
<1>4. g = [k \in Nat |-> IF k = 0 THEN {v} ELSE LET above == g[k - 1] IN above \cup More(above)]
  <2>1. ASSUME NEW k \in Nat, k # 0 PROVE g[k] = g[k - 1] \cup More(g[k - 1])
    <3>1. k - 1 \in Nat /\ (k - 1) + 1 = k /\ g[k - 1] \in SUBSET Vals
      BY <1>3, <2>1
    <3> QED  BY <1>2, <1>3, <3>1 DEF IsSearch
  <2> QED  BY <1>3, <2>1 DEF IsSearch
<1>5. upTo = [k \in Nat |-> IF k = 0 THEN {v} ELSE LET above == upTo[k - 1] IN above \cup More(above)]
  BY <1>4
<1>6. InstancesBelow(v) = upTo[Cardinality(Vals)]
  BY DEF InstancesBelow, More, Vals
<1> HIDE DEF upTo
<1>7. upTo[0] = {v} /\ \A k \in Nat : upTo[k + 1] = upTo[k] \cup More(upTo[k])
  <2>1. upTo[0] = {v}
    BY <1>5
  <2>2. ASSUME NEW k \in Nat PROVE upTo[k + 1] = upTo[k] \cup More(upTo[k])
    <3>1. k + 1 \in Nat /\ k + 1 # 0 /\ (k + 1) - 1 = k
      OBVIOUS
    <3> QED  BY <1>5, <3>1
  <2> QED  BY <2>1, <2>2
<1>8. \A k \in Nat : upTo[k] \in SUBSET Vals
  <2> DEFINE S == {k \in Nat : upTo[k] \in SUBSET Vals}
  <2>1. 0 \in S
    BY <1>1, <1>7
  <2>2. ASSUME NEW k \in Nat, upTo[k] \in SUBSET Vals PROVE upTo[k + 1] \in SUBSET Vals
    <3>1. More(upTo[k]) \in SUBSET Vals
      BY <1>2, <2>2
    <3> QED  BY <1>7, <2>2, <3>1
  <2>3. \A k \in Nat : k \in S => k + 1 \in S
    BY <2>2
  <2> HIDE DEF S
  <2>4. Nat \subseteq S
    BY <2>1, <2>3, SetInduction
  <2> QED  BY <2>4 DEF S
<1>9. IsSearch(Vals, HoldsModule, {v}, upTo)
  BY <1>2, <1>7, <1>8 DEF IsSearch
<1>10. IsClosure(Vals, HoldsModule, {v}, upTo[Cardinality(Vals)])
  BY <1>1, <1>9, SearchEnds
<1> QED  BY <1>6, <1>10

LEMMA BelowClassIs ==
  ASSUME world \in Worlds, IsModule(world.root), Of(world.root) = world.rootClass, NEW c
  PROVE  c \in BelowClass(world, world.rootClass) <=> \E v \in InstancesBelow(world.root) : Of(v) = c
<1>1. world.root \in Vals /\ world.rootClass \in Classes(world)
  BY WorldsWellFormed, ClassesWellFormed DEF Vals
<1>2. PICK B : B = InstancesBelow(world.root)
  OBVIOUS
<1>3. IsClosure(Vals, HoldsModule, {world.root}, B)
  BY <1>1, <1>2, InstancesClosure
<1>4. PICK R : R = HoldsModule
  OBVIOUS
<1>5. \A u, e : <<u, e>> \in R <=> u \in Vals /\ e \in Vals /\ e \in ToSet(Elems(u)) /\ IsModule(e)
  BY <1>4 DEF HoldsModule, Holds
<1>6. \A v \in Vals : IsModule(v) => Of(v) \in Classes(world)
  BY ClassesWellFormed DEF Vals, IsModule, Kind, Of
<1>7. PICK M : M = {v \in Vals : IsModule(v)}
  OBVIOUS
<1>8. B \subseteq M
  <2>1. {world.root} \subseteq M /\ M \in SUBSET Vals /\ \A m \in M, p \in Vals : <<m, p>> \in R => p \in M
    BY <1>1, <1>5, <1>7
  <2> QED  BY <1>3, <1>4, <2>1 DEF IsClosure
<1>9. PICK K : K = {Of(v) : v \in B}
  OBVIOUS
\* The classes of what an instance has as submodules are those of its class.
<1>10. ASSUME NEW v \in M, NEW type
       PROVE  type \in ChildClasses(world, Of(v)) <=> \E e \in Vals : <<v, e>> \in R /\ Of(e) = type
  <2>1. PICK as : as = Attrs(world, Of(v))
    OBVIOUS
  <2>2. PICK elems : elems = Elems(v)
    OBVIOUS
  <2>3. v \in Vals /\ IsModule(v) /\ Of(v) \in Classes(world)
    BY <1>6, <1>7
  <2>4. elems \in Seq(Vals) /\ Len(elems) = Len(as)
    BY <2>1, <2>2, <2>3, WorldsWellFormed DEF Vals, Elems, IsModule, Kind, Of, Attrs
  <2>5. as \in Seq(ToSet(as))
    BY <2>1, <2>3, ClassesWellFormed
  <2>6. PICK n \in Nat : DOMAIN elems = 1 .. n /\ DOMAIN as = 1 .. n
    BY <2>4, <2>5
  <2>7. ASSUME NEW j \in 1 .. n
        PROVE  /\ elems[j] \in Vals
               /\ IF IsModule(elems[j]) THEN as[j].type = Of(elems[j]) /\ as[j].type \in Classes(world)
                  ELSE as[j].type \notin Classes(world)
    <3>1. elems[j] \in Vals
      BY <2>4, <2>6
    <3>2. IF world.values[elems[j]].kind = "module"
          THEN as[j].type = world.values[elems[j]].of
          ELSE as[j].type \notin Classes(world)
      BY <2>1, <2>2, <2>3, <2>6, ClassesWellFormed DEF Vals, Elems, IsModule, Kind, Of
    <3>3. world.values[elems[j]].kind = "module" => world.values[elems[j]].of \in Classes(world)
      BY <3>1, ClassesWellFormed DEF Vals
    <3> QED  BY <3>1, <3>2, <3>3 DEF IsModule, Kind, Of
  <2>8. type \in ChildClasses(world, Of(v)) <=> \E j \in 1 .. n : as[j].type = type /\ type \in Classes(world)
    BY <2>1, <2>6 DEF ChildClasses, ToSet
  <2>9. \A e : <<v, e>> \in R <=> \E j \in 1 .. n : e = elems[j] /\ IsModule(e)
    <3>1. \A e : e \in ToSet(Elems(v)) <=> \E j \in 1 .. n : e = elems[j]
      BY <2>2, <2>6 DEF ToSet
    <3>2. \A e : <<v, e>> \in R <=> e \in Vals /\ e \in ToSet(Elems(v)) /\ IsModule(e)
      BY <1>5, <2>3
    <3> QED  BY <2>7, <3>1, <3>2
  <2>10. \A j \in 1 .. n : IsModule(elems[j]) <=> as[j].type \in Classes(world)
    BY <2>7
  <2>11. \A j \in 1 .. n : elems[j] \in Vals /\ (IsModule(elems[j]) => as[j].type = Of(elems[j]))
    BY <2>7
  <2>12. ASSUME type \in ChildClasses(world, Of(v)) PROVE \E e \in Vals : <<v, e>> \in R /\ Of(e) = type
    <3>1. PICK j \in 1 .. n : as[j].type = type /\ type \in Classes(world)
      BY <2>8, <2>12
    <3>2. elems[j] \in Vals /\ IsModule(elems[j]) /\ Of(elems[j]) = type
      BY <2>10, <2>11, <3>1
    <3> QED  BY <2>9, <3>2
  <2>13. ASSUME NEW e \in Vals, <<v, e>> \in R, Of(e) = type PROVE type \in ChildClasses(world, Of(v))
    <3>1. PICK j \in 1 .. n : e = elems[j] /\ IsModule(e)
      BY <2>9, <2>13
    <3> QED  BY <2>8, <2>10, <2>11, <2>13, <3>1
  <2> QED  BY <2>12, <2>13
<1>11. K \subseteq Classes(world) /\ world.rootClass \in K
  BY <1>3, <1>6, <1>7, <1>8, <1>9 DEF IsClosure
<1>12. \A d \in K : ChildClasses(world, d) \subseteq K
  <2> SUFFICES ASSUME NEW v \in B, NEW type \in ChildClasses(world, Of(v)) PROVE type \in K
    BY <1>9
  <2>1. PICK e \in Vals : <<v, e>> \in R /\ Of(e) = type
    BY <1>8, <1>10
  <2>2. e \in B
    BY <1>3, <1>4, <2>1 DEF IsClosure
  <2> QED  BY <1>9, <2>1, <2>2
<1>13. BelowClass(world, world.rootClass) \subseteq K
  BY <1>11, <1>12 DEF BelowClass
<1>14. ASSUME NEW v \in B PROVE Of(v) \in BelowClass(world, world.rootClass)
  <2> SUFFICES ASSUME NEW closed \in SUBSET Classes(world), world.rootClass \in closed,
                      \A e \in closed : ChildClasses(world, e) \subseteq closed
               PROVE  Of(v) \in closed
    BY <1>6, <1>7, <1>8 DEF BelowClass
  <2>1. PICK S : S = {u \in M : Of(u) \in closed}
    OBVIOUS
  <2>2. {world.root} \subseteq S /\ S \in SUBSET Vals
    BY <1>1, <1>7, <2>1
  <2>3. ASSUME NEW m \in S, NEW p \in Vals, <<m, p>> \in R PROVE p \in S
    <3>1. m \in M /\ Of(m) \in closed
      BY <2>1
    <3>2. Of(p) \in ChildClasses(world, Of(m))
      BY <1>10, <2>3, <3>1
    <3>3. p \in M
      BY <1>5, <1>7, <2>3
    <3> QED  BY <2>1, <3>1, <3>2, <3>3
  <2>4. B \subseteq S
    BY <1>3, <1>4, <2>2, <2>3 DEF IsClosure
  <2> QED  BY <2>1, <2>4
<1> QED  BY <1>2, <1>9, <1>13, <1>14

-----------------------------------------------------------------------------
\* What has been asked

PathsInv == \A k \in 1 .. Len(calls) : calls[k].path \in Seq(ToSet(calls[k].path))

LEMMA PathsStep == Inv /\ AskedInv /\ PathsInv /\ [Next]_vars => PathsInv'
<1> SUFFICES ASSUME Inv, AskedInv, PathsInv, [Next]_vars PROVE PathsInv'
  OBVIOUS
<1>1. ASSUME NEW op, NEW path, NEW args, NEW ok, Called(op, path, args, ok), path \in Seq(ToSet(path))
      PROVE  PathsInv'
  <2>1. IsSeq(calls)
    BY DEF AskedInv, AnnotatorInv
  <2>2. PICK call : call = [op |-> op, path |-> path, args |-> args, ok |-> ok]
    OBVIOUS
  <2>3. PICK ds : ds = calls'
    OBVIOUS
  <2>4. IsLonger(calls, call, ds)
    BY <1>1, <2>1, <2>2, <2>3, OneMoreCall
  <2>5. call.path = path
    BY <2>2
  <2>6. ASSUME NEW k \in 1 .. Len(ds) PROVE ds[k].path \in Seq(ToSet(ds[k].path))
    <3>1. PICK n \in Nat : n = Len(calls) /\ Len(ds) = n + 1
      BY <2>4 DEF IsLonger
    <3>2. CASE k = n + 1
      <4>1. ds[k] = call
        BY <2>4, <3>1, <3>2 DEF IsLonger
      <4> QED  BY <1>1, <2>5, <4>1
    <3>3. CASE k # n + 1
      <4>1. k \in 1 .. n
        BY <3>1, <3>3
      <4>2. ds[k] = calls[k]
        BY <2>4, <3>1, <4>1 DEF IsLonger
      <4> QED  BY <3>1, <4>1, <4>2 DEF PathsInv
    <3> QED  BY <3>2, <3>3
  <2> QED  BY <2>3, <2>6 DEF PathsInv
<1>2. CASE calls' = calls
  BY <1>2 DEF PathsInv
<1>3. CASE Annotate
  <2>1. CASE ExportNone
    <3>1. \A S : <<>> \in Seq(S)
      OBVIOUS
    <3>2. Called("none", <<>>, <<>>, TRUE)
      BY <2>1 DEF ExportNone
    <3> QED  BY <1>1, <3>1, <3>2
  <2>2. \A path \in world.paths : path \in Seq(ToSet(path))
    BY ClassesWellFormed DEF Inv
  <2>3. ASSUME NEW path \in world.paths, ExportPath(path) PROVE PathsInv'
    <3>1. \E ok : Called("export", path, <<>>, ok)
      BY <2>3 DEF ExportPath
    <3> QED  BY <1>1, <2>2, <3>1
  <2>4. ASSUME NEW path \in world.paths, NEW args \in world.argLists, AnnotateArgs(path, args) PROVE PathsInv'
    <3>1. \E ok : Called("args", path, args, ok)
      BY <2>4 DEF AnnotateArgs
    <3> QED  BY <1>1, <2>2, <3>1
  <2> QED  BY <1>3, <2>1, <2>3, <2>4 DEF Annotate, AnnotatorNext
<1>4. ASSUME NEW v, \/ ImportKnown(v) \/ RejectSharedStorage(v) \/ RejectUnsupported(v) \/ EnterValue(v)
                    \/ EnterModule(v) \/ RejectSecondUnit(v) \/ RejectFunction(v)
      PROVE  calls' = calls
  BY <1>4 DEF ImportKnown, RejectSharedStorage, RejectUnsupported, EnterValue, EnterModule,
              RejectSecondUnit, RejectFunction
<1>5. StartImport \/ Leave \/ ImportDone \/ Unwind \/ ImportFails \/ Terminated \/ UNCHANGED vars => calls' = calls
  BY DEF StartImport, Leave, ImportDone, Unwind, ImportFails, Terminated, vars
<1> QED  BY <1>2, <1>3, <1>4, <1>5 DEF Next, ImportNext

LEMMA LastExists ==
  ASSUME NEW n \in Nat, NEW ks \in SUBSET (1 .. n), ks # {}
  PROVE  /\ \E k \in 1 .. n : IsLast(k, ks)
         /\ \A k : IsLast(k, ks) => k = CHOOSE l \in ks : \A m \in ks : m <= l
<1>1. PICK T : T = {n - k : k \in ks}
  OBVIOUS
<1>2. PICK m \in T : \A t \in T : m <= t
  <2>1. \A k \in ks : k \in 1 .. n /\ n - k \in Nat
    OBVIOUS
  <2>2. T \in SUBSET Nat /\ T # {}
    BY <1>1, <2>1
  <2> QED  BY <2>2, LeastNatural
<1>3. PICK k \in ks : m = n - k
  BY <1>1
<1>4. ASSUME NEW l \in ks PROVE l <= k
  <2>1. n - k <= n - l
    BY <1>1, <1>2, <1>3
  <2> QED  BY <2>1
<1>5. ASSUME NEW l, IsLast(l, ks) PROVE l = CHOOSE x \in ks : \A y \in ks : y <= x
  <2>1. PICK c : c = CHOOSE x \in ks : \A y \in ks : y <= x
    OBVIOUS
  <2>2. c \in ks /\ \A y \in ks : y <= c
    BY <1>4, <2>1
  <2>3. l <= c /\ c <= l /\ l \in 1 .. n /\ c \in 1 .. n
    BY <1>5, <2>2 DEF IsLast
  <2> QED  BY <2>1, <2>3
<1> QED  BY <1>4, <1>5 DEF IsLast

LEMMA CallConcerns ==
  ASSUME Inv, PathsInv, IsModule(world.root), Of(world.root) = world.rootClass,
         NEW k \in 1 .. Len(calls), NEW c \in Classes(world), NEW name
  PROVE  Concerns(k, c, name) <=> SaysOf(world, calls[k], c, name)
<1>1. world \in Worlds
  BY DEF Inv
<1>2. (\E v \in InstancesBelow(world.root) : Of(v) = c) <=> c \in BelowClass(world, world.rootClass)
  BY <1>1, BelowClassIs
<1>3. ASSUME calls[k].path # <<>>
      PROVE  (LET v == InstanceAt(world.root, Front(calls[k].path)) IN v # None /\ Of(v) = c)
               <=> GetClassAtPath(world, world.rootClass, Front(calls[k].path)) = c
  <2>1. PICK path : path = calls[k].path
    OBVIOUS
  <2>2. path \in Seq(ToSet(path))
    BY <2>1 DEF PathsInv
  <2>3. PICK N : N = ToSet(path)
    OBVIOUS
  <2>4. PICK front \in Seq(N) : front = Front(path)
    BY <1>3, <2>1, <2>2, <2>3, FrontIsSeq
  <2>5. PICK v, d : v = InstanceAt(world.root, front) /\ d = GetClassAtPath(world, world.rootClass, front)
    OBVIOUS
  <2>6. IsInstance(v, d)
    BY <1>1, <2>5, PathToInstance
  <2>7. None \notin Classes(world) /\ None \notin Vals
    BY <1>1, ClassesWellFormed DEF Vals
  <2>8. v # None /\ Of(v) = c <=> d = c
    BY <2>6, <2>7 DEF IsInstance
  <2> QED  BY <2>1, <2>4, <2>5, <2>8
<1> QED  BY <1>2, <1>3 DEF Concerns, SaysOf

LEMMA ExportedIsAsked ==
  ASSUME Inv, AskedInv, PathsInv, IsModule(world.root), Of(world.root) = world.rootClass,
         NEW c \in Classes(world), NEW name
  PROVE  IsExported(world, calls, c, name) <=> Asked(c, name)
<1>1. PICK n \in Nat : n = Len(calls) /\ DOMAIN calls = 1 .. n
  BY AppendIsSeq DEF AskedInv, AnnotatorInv
<1>2. PICK said : said = {k \in DOMAIN calls : Concerns(k, c, name)}
  OBVIOUS
<1>3. said \in SUBSET (1 .. n) /\ \A k \in 1 .. n : k \in said <=> SaysOf(world, calls[k], c, name)
  BY <1>1, <1>2, CallConcerns
<1>4. \A k \in said : calls[k].op \in {"none", "export"}
  BY <1>3 DEF SaysOf
<1>5. IsExported(world, calls, c, name) <=>
        \A k \in said : calls[k].op = "none" => \E l \in said : l > k /\ calls[l].op = "export"
  BY <1>1, <1>3 DEF IsExported
<1>6. CASE said = {}
  BY <1>2, <1>5, <1>6 DEF Asked
<1>7. CASE said # {}
  <2>1. PICK k \in 1 .. n : IsLast(k, said) /\ k = CHOOSE l \in said : \A m \in said : m <= l
    BY <1>3, <1>7, LastExists
  <2>2. Asked(c, name) <=> calls[k].op = "export"
    BY <1>2, <1>7, <2>1 DEF Asked
  <2>3. k \in said /\ \A l \in said : l <= k /\ l \in 1 .. n
    BY <1>3, <2>1 DEF IsLast
  <2>4. CASE calls[k].op = "export"
    <3>1. ASSUME NEW l \in said, calls[l].op = "none" PROVE k > l
      BY <2>3, <2>4, <3>1
    <3> QED  BY <1>5, <2>2, <2>3, <2>4, <3>1
  <2>5. CASE calls[k].op # "export"
    <3>1. calls[k].op = "none" /\ ~ \E l \in said : l > k
      BY <1>4, <2>3, <2>5
    <3> QED  BY <1>5, <2>2, <2>3, <2>5, <3>1
  <2> QED  BY <2>4, <2>5
<1> QED  BY <1>6, <1>7

LEMMA FlagIs ==
  ASSUME Inv, AskedInv, PathsInv, IsModule(world.root), Of(world.root) = world.rootClass,
         NEW c \in Classes(world), NEW name, NEW flag, IsFlag(flag, world, calls, c, name)
  PROVE  flag = Asked(c, name)
<1>1. flag \in BOOLEAN /\ (flag <=> Asked(c, name))
  BY ExportedIsAsked DEF IsFlag
<1>2. Asked(c, name) \in BOOLEAN
  BY DEF Asked
<1> QED  BY <1>1, <1>2

LEMMA ExportsAre == Inv /\ AskedInv /\ PathsInv => ExportsAreAsAsked
<1> SUFFICES ASSUME Inv, AskedInv, PathsInv, IsModule(world.root), Of(world.root) = world.rootClass,
                    NEW i \in Positions, block[i].op = "class_type", NEW c, c = block[i].of
             PROVE  /\ \A j \in DOMAIN Attrs(world, c) : block[i].info.attrs[j] = Asked(c, Attrs(world, c)[j].name)
                    /\ \A j \in DOMAIN Methods(world, c) : block[i].info.methods[j] = Asked(c, Methods(world, c)[j].name)
  BY DEF ExportsAreAsAsked
<1>1. AreExports(world, calls, c, block[i].info)
  BY DEF AskedInv, AreAsAsked, IsAsAsked, Positions
<1> QED  BY <1>1, FlagIs DEF AreExports

LEMMA BoundsAreLast ==
  ASSUME Inv, AskedInv, NEW c, NEW method, NEW j, NEW bounds,
         IsBound(world, calls, c, method, j, bounds)
  PROVE  IsBoundAsked(c, method, j, bounds)
<1>1. PICK n \in Nat : n = Len(calls) /\ DOMAIN calls = 1 .. n
  BY AppendIsSeq DEF AskedInv, AnnotatorInv
<1>2. \A k : k \in ArgCalls(c, method, j) <=> k \in 1 .. n /\ SaysOfArg(world, calls[k], c, method, j)
  BY <1>1 DEF ArgCalls, SaysOfArg
<1>3. PICK shapes : shapes = {k \in ArgCalls(c, method, j) : calls[k].args[j].shape # None}
  OBVIOUS
<1>4. PICK dtypes : dtypes = {k \in ArgCalls(c, method, j) : calls[k].args[j].dtype \notin {None, NotADtype}}
  OBVIOUS
<1>5. shapes = Shaped(world, calls, c, method, j) /\ shapes \in SUBSET (1 .. n)
  BY <1>1, <1>2, <1>3 DEF Shaped
<1>6. dtypes = Typed(world, calls, c, method, j) /\ dtypes \in SUBSET (1 .. n)
  BY <1>1, <1>2, <1>4 DEF Typed
<1>7. IsBoundAsked(c, method, j, bounds) <=>
        IF shapes = {} \/ dtypes = {} THEN bounds = {}
        ELSE \E bound \in bounds :
               /\ bounds = {bound}
               /\ bound.shape = calls[CHOOSE k \in shapes : \A l \in shapes : l <= k].args[j].shape
               /\ bound.dtype = calls[CHOOSE k \in dtypes : \A l \in dtypes : l <= k].args[j].dtype
  BY <1>3, <1>4 DEF IsBoundAsked
<1>8. CASE shapes = {} \/ dtypes = {}
  BY <1>5, <1>6, <1>7, <1>8 DEF IsBound
<1>9. CASE shapes # {} /\ dtypes # {}
  <2>1. PICK bound : bounds = {bound} /\ IsArg(world, calls, c, method, j, bound)
    BY <1>5, <1>6, <1>9 DEF IsBound
  <2>2. PICK k : IsLast(k, shapes) /\ bound.shape = calls[k].args[j].shape
    BY <1>5, <1>9, <2>1 DEF IsArg, IsShape
  <2>3. PICK l : IsLast(l, dtypes) /\ bound.dtype = calls[l].args[j].dtype
    BY <1>6, <1>9, <2>1 DEF IsArg, IsDtype
  <2>4. k = CHOOSE x \in shapes : \A y \in shapes : y <= x
    BY <1>5, <1>9, <2>2, LastExists
  <2>5. l = CHOOSE x \in dtypes : \A y \in dtypes : y <= x
    BY <1>6, <1>9, <2>3, LastExists
  <2> QED  BY <1>7, <1>9, <2>1, <2>2, <2>3, <2>4, <2>5
<1> QED  BY <1>8, <1>9

LEMMA BoundsAreAsked == Inv /\ AskedInv => BoundsAreAsAsked
<1> SUFFICES ASSUME Inv, AskedInv, NEW i \in Positions, block[i].op = "func",
                    NEW c \in Classes(world), NEW method \in ToSet(Methods(world, c)), method.func = block[i].of,
                    NEW j \in 1 .. world.arity[method.func]
             PROVE  IsBoundAsked(c, method, j, block[i].info[j])
  BY DEF BoundsAreAsAsked
<1>1. AreBounds(world, calls, block[i].of, block[i].info)
  BY DEF AskedInv, AreAsAsked, IsAsAsked, Positions
<1>2. PICK m \in DOMAIN Methods(world, c) : method = Methods(world, c)[m]
  BY DEF ToSet
<1>3. PICK bounds : bounds = block[i].info[j]
  OBVIOUS
<1>4. IsBound(world, calls, c, method, j, bounds)
  BY <1>1, <1>2, <1>3 DEF AreBounds
<1> QED  BY <1>3, <1>4, BoundsAreLast

\* What can be accessed from outside, and the bounds on the types of the
\* arguments, are what the user's calls of ClassAnnotator say, in terms of the
\* instances of the object graph and of the last call that says something,
\* whatever the object graph and whatever the calls.
THEOREM AnnotationsAsked == Spec => []AnnotationsAreAsAsked
<1>1. Init => PathsInv
  BY DEF Init, AnnotatorInit, PathsInv
<1>2. Inv /\ AskedInv /\ PathsInv => AnnotationsAreAsAsked
  BY ExportsAre, BoundsAreAsked DEF AnnotationsAreAsAsked
<1> QED  BY <1>1, <1>2, InitInv, InitAsked, NextInv, AskedStep, PathsStep, PTL DEF Spec

-----------------------------------------------------------------------------
\* Classes and functions in the module

\* The only op of this kind and of x.
IsOnly(b, op, x, i) ==
  /\ b[i].op = op /\ b[i].of = x
  /\ \A j \in 1 .. Len(b) : b[j].op = op /\ b[j].of = x => j = i

\* The ops of this kind are one of each of S.
Declares(b, op, S) ==
  /\ \A i \in 1 .. Len(b) : b[i].op = op => b[i].of \in S
  /\ \A x \in S : \E i \in 1 .. Len(b) : IsOnly(b, op, x, i)

LEMMA DeclaresMore ==
  ASSUME NEW b, NEW ops, NEW op, NEW S, NEW T, IsSeq(b), IsSeq(ops),
         Declares(b, op, S), Declares(ops, op, T), S \cap T = {}
  PROVE  Declares(b \o ops, op, S \cup T) /\ IsSeq(b \o ops)
<1>1. PICK m \in Nat, n \in Nat : m = Len(b) /\ n = Len(ops)
  BY ConcatIsSeq
<1>2. PICK d : d = b \o ops
  OBVIOUS
<1>3. /\ IsSeq(d) /\ Len(d) = m + n
      /\ \A i \in 1 .. m : d[i] = b[i]
      /\ \A i \in 1 .. n : d[m + i] = ops[i]
  BY <1>1, <1>2, ConcatIsSeq
<1>4. \A i \in 1 .. m + n : i \in 1 .. m \/ \E k \in 1 .. n : i = m + k
  <2> TAKE i \in 1 .. m + n
  <2>1. CASE i \notin 1 .. m
    <3>1. i - m \in 1 .. n /\ i = m + (i - m)
      BY <2>1
    <3> QED  BY <3>1
  <2> QED  BY <2>1
<1>5. \A i \in 1 .. m : i \in 1 .. m + n
  OBVIOUS
<1>6. \A k \in 1 .. n : m + k \in 1 .. m + n
  OBVIOUS
<1>7. ASSUME NEW i \in 1 .. m + n, d[i].op = op
      PROVE  d[i].of \in S \cup T /\ (i \in 1 .. m => d[i].of \in S) /\ (i \notin 1 .. m => d[i].of \in T)
  <2>1. CASE i \in 1 .. m
    BY <1>1, <1>3, <1>7, <2>1 DEF Declares
  <2>2. CASE i \notin 1 .. m
    <3>1. PICK k \in 1 .. n : i = m + k
      BY <1>4, <2>2
    <3> QED  BY <1>1, <1>3, <1>7, <2>2, <3>1 DEF Declares
  <2> QED  BY <2>1, <2>2
<1>8. ASSUME NEW x \in S PROVE \E i \in 1 .. m + n : IsOnly(d, op, x, i)
  <2>1. PICK i \in 1 .. m : IsOnly(b, op, x, i)
    BY <1>1 DEF Declares
  <2>2. d[i].op = op /\ d[i].of = x /\ i \in 1 .. m + n
    BY <1>3, <1>5, <2>1 DEF IsOnly
  <2>3. ASSUME NEW j \in 1 .. m + n, d[j].op = op, d[j].of = x PROVE j = i
    <3>1. j \in 1 .. m
      BY <1>7, <2>3
    <3>2. d[j] = b[j]
      BY <1>3, <3>1
    <3> QED  BY <1>1, <2>1, <2>3, <3>1, <3>2 DEF IsOnly
  <2> QED  BY <1>3, <2>2, <2>3 DEF IsOnly
<1>9. ASSUME NEW x \in T PROVE \E i \in 1 .. m + n : IsOnly(d, op, x, i)
  <2>1. PICK k \in 1 .. n : IsOnly(ops, op, x, k)
    BY <1>1 DEF Declares
  <2>2. d[m + k].op = op /\ d[m + k].of = x /\ m + k \in 1 .. m + n
    BY <1>3, <1>6, <2>1 DEF IsOnly
  <2>3. ASSUME NEW j \in 1 .. m + n, d[j].op = op, d[j].of = x PROVE j = m + k
    <3>1. j \notin 1 .. m
      BY <1>7, <2>3
    <3>2. PICK l \in 1 .. n : j = m + l
      BY <1>4, <3>1
    <3>3. l = k
      BY <1>1, <1>3, <2>1, <2>3, <3>2 DEF IsOnly
    <3> QED  BY <3>2, <3>3
  <2> QED  BY <1>3, <2>2, <2>3 DEF IsOnly
<1>10. Declares(d, op, S \cup T)
  BY <1>3, <1>7, <1>8, <1>9 DEF Declares
<1> QED  BY <1>2, <1>3, <1>10

\* The functions of a unit, each once.
LEMMA FuncOpsDeclare ==
  ASSUME NEW funcs, IsSeq(funcs), \A i, j \in DOMAIN funcs : funcs[i] = funcs[j] => i = j
  PROVE  /\ IsSeq(FuncOps(funcs))
         /\ Declares(FuncOps(funcs), "func", ToSet(funcs))
         /\ Declares(FuncOps(funcs), "class_type", {})
<1>1. PICK l \in Nat : l = Len(funcs) /\ DOMAIN funcs = 1 .. l
  BY AppendIsSeq
<1> DEFINE O(i) == Op("func", funcs[i], <<>>, TypeBounds(funcs[i]))
<1>2. FuncOps(funcs) = [i \in 1 .. l |-> O(i)]
  BY <1>1 DEF FuncOps
<1>3. \A i \in 1 .. l : O(i).op = "func" /\ O(i).of = funcs[i]
  BY DEF Op
<1> HIDE DEF O
<1>4. PICK ops : ops = [i \in 1 .. l |-> O(i)]
  OBVIOUS
<1>5. ops \in Seq({ops[i] : i \in DOMAIN ops}) /\ Len(ops) = l
  BY <1>4
<1>6. \A i \in 1 .. l : ops[i].op = "func" /\ ops[i].of = funcs[i]
  BY <1>3, <1>4
<1>7. \A x \in ToSet(funcs) : \E i \in 1 .. l : funcs[i] = x
  BY <1>1 DEF ToSet
<1>8. \A i \in 1 .. l : funcs[i] \in ToSet(funcs)
  BY <1>1 DEF ToSet
<1>9. ASSUME NEW x \in ToSet(funcs) PROVE \E i \in 1 .. l : IsOnly(ops, "func", x, i)
  <2>1. PICK i \in 1 .. l : funcs[i] = x
    BY <1>7
  <2>2. \A j \in 1 .. l : funcs[j] = x => j = i
    BY <1>1, <2>1
  <2> QED  BY <1>5, <1>6, <2>1, <2>2 DEF IsOnly
<1>10. Declares(ops, "func", ToSet(funcs))
  BY <1>5, <1>6, <1>8, <1>9 DEF Declares
<1>11. Declares(ops, "class_type", {})
  BY <1>5, <1>6 DEF Declares
<1> QED  BY <1>2, <1>4, <1>5, <1>10, <1>11 DEF IsSeq

\* A class that has not been imported.
LEMMA ClassTypeOpsDeclare ==
  ASSUME NEW c
  PROVE  /\ IsSeq(ClassTypeOps(c))
         /\ Declares(ClassTypeOps(c), "class_type", {c} \ classTypes)
         /\ Declares(ClassTypeOps(c), "func", {})
<1>1. PICK op : op = ClassTypeOp(c)
  OBVIOUS
<1>2. op.op = "class_type" /\ op.of = c
  BY <1>1 DEF ClassTypeOp, Op
<1>3. PICK ops : ops = ClassTypeOps(c)
  OBVIOUS
<1>4. CASE c \in classTypes
  <2>1. ops = <<>> /\ {c} \ classTypes = {}
    BY <1>3, <1>4 DEF ClassTypeOps
  <2> QED  BY <1>3, <2>1 DEF Declares, IsSeq
<1>5. CASE c \notin classTypes
  <2>1. ops = <<op>> /\ {c} \ classTypes = {c}
    BY <1>1, <1>3, <1>5 DEF ClassTypeOps
  <2>2. Len(ops) = 1 /\ ops[1] = op /\ IsSeq(ops)
    BY <2>1 DEF IsSeq
  <2>3. 1 .. 1 = {1}
    OBVIOUS
  <2>4. IsOnly(ops, "class_type", c, 1)
    BY <1>2, <2>2, <2>3 DEF IsOnly
  <2> QED  BY <1>2, <1>3, <2>1, <2>2, <2>3, <2>4 DEF Declares
<1> QED  BY <1>4, <1>5

\* Other ops.
LEMMA DeclareNothing ==
  ASSUME NEW op, op.op \notin {"func", "class_type"}
  PROVE  /\ IsSeq(<<op>>) /\ IsSeq(<<>>)
         /\ Declares(<<op>>, "func", {}) /\ Declares(<<op>>, "class_type", {})
         /\ Declares(<<>>, "func", {}) /\ Declares(<<>>, "class_type", {})
BY DEF Declares, IsSeq

\* The functions imported; the functions that the methods of a class have become.
Funcs(w, cu) == IF cu = None THEN {} ELSE ToSet(w.units[cu])
ClassFuncs(w, c) == {Methods(w, c)[i].func : i \in DOMAIN Methods(w, c)}

UnitInv(w, b, cu, ct) ==
  /\ Declares(b, "func", Funcs(w, cu))
  /\ Declares(b, "class_type", ct)
  /\ \A c \in ct : ClassFuncs(w, c) \subseteq Funcs(w, cu)

\* While nothing has been thrown: the classes of the modules that are, or are
\* being, imported are in the block, with their functions.
DeclaredInv ==
  pc \notin {"throw", "error"} =>
    /\ UnitInv(world, block, compilationUnit, classTypes)
    /\ \A v \in Held : IsModule(v) => Of(v) \in classTypes

LEMMA InitDeclared == Init => DeclaredInv
<1> SUFFICES ASSUME Init PROVE DeclaredInv
  OBVIOUS
<1>1. block = <<>> /\ compilationUnit = None /\ classTypes = {} /\ DOMAIN valueMap = {} /\ frames = <<>>
  BY DEF Init
<1>2. Held = {}
  BY <1>1 DEF Held, Values
<1>3. UnitInv(world, block, compilationUnit, classTypes)
  BY <1>1 DEF UnitInv, Declares, Funcs
<1> QED  BY <1>2, <1>3 DEF DeclaredInv

LEMMA NextIsOne ==
  ASSUME NEW u, NEW v, IsNext(u), IsNext(v)
  PROVE  u = v
BY DEF IsNext, AtElement

\* What a step adds to the values held is next.
LEMMA HeldGrows ==
  ASSUME Inv, [Next]_vars, pc' # "throw", NEW u \in Held'
  PROVE  u \in Held \/ IsNext(u)
<1>1. Held' = Held \/ \E v \in DOMAIN world.values : IsNext(v) /\ Held' = Held \cup {v}
  BY HeldStep
<1> QED  BY <1>1

\* A step that adds no module, class or function.
LEMMA KeepsDeclared ==
  ASSUME Inv, DeclaredInv, NEW ops, IsSeq(ops), Declares(ops, "func", {}), Declares(ops, "class_type", {}),
         block' = block \o ops \/ block' = block,
         world' = world, compilationUnit' = compilationUnit, classTypes' = classTypes,
         pc \notin {"throw", "error"},
         \A v \in Held' : v \in Held \/ ~ IsModule(v)
  PROVE  DeclaredInv'
<1>1. IsSeq(block) /\ UnitInv(world, block, compilationUnit, classTypes)
  BY DEF Inv, BlockInv, DeclaredInv
<1>2. /\ Declares(block', "func", Funcs(world, compilationUnit))
      /\ Declares(block', "class_type", classTypes)
  <2>1. CASE block' = block
    BY <1>1, <2>1 DEF UnitInv
  <2>2. CASE block' = block \o ops
    <3>1. PICK S, T : S = Funcs(world, compilationUnit) /\ T = classTypes
      OBVIOUS
    <3>2. Declares(block, "func", S) /\ Declares(block, "class_type", T)
      BY <1>1, <3>1 DEF UnitInv
    <3>3. Declares(block \o ops, "func", S \cup {}) /\ Declares(block \o ops, "class_type", T \cup {})
      BY <1>1, <3>2, DeclaresMore
    <3>4. S \cup {} = S /\ T \cup {} = T
      OBVIOUS
    <3> QED  BY <2>2, <3>1, <3>3, <3>4
  <2> QED  BY <2>1, <2>2
<1>3. UnitInv(world', block', compilationUnit', classTypes')
  BY <1>1, <1>2 DEF UnitInv
<1>4. ASSUME NEW v \in Held', IsModule(v)' PROVE Of(v)' \in classTypes'
  <2>1. IsModule(v) /\ Of(v)' = Of(v)
    BY <1>4 DEF IsModule, Kind, Of
  <2> QED  BY <2>1 DEF DeclaredInv
<1> QED  BY <1>3, <1>4 DEF DeclaredInv

LEMMA EnterModuleDeclares ==
  ASSUME Inv, DeclaredInv, [Next]_vars, NEW v, EnterModule(v)
  PROVE  DeclaredInv'
<1>1. v \in DOMAIN world.values /\ IsModule(v) /\ world \in Worlds
  BY NextValue DEF EnterModule, Inv
<1>2. PICK c, cu : c = Of(v) /\ cu = world.unitOf[v]
  OBVIOUS
<1>3. /\ world' = world /\ pc' = "import" /\ pc = "import"
      /\ compilationUnit \in {None, cu} /\ compilationUnit' = cu
      /\ classTypes' = classTypes \cup {c}
      /\ block' = block \o FuncOps(NewFuncs(v)) \o ClassTypeOps(c)
  BY <1>2 DEF EnterModule, IsNext
<1>4. cu \in DOMAIN world.units /\ cu # None
  BY <1>1, <1>2, WorldsWellFormed, UnitsWellFormed DEF IsModule, Kind
<1>5. /\ IsSeq(block)
      /\ UnitInv(world, block, compilationUnit, classTypes)
      /\ \A u \in Held : IsModule(u) => Of(u) \in classTypes
  BY <1>3 DEF Inv, BlockInv, DeclaredInv
<1>6. PICK funcs : funcs = NewFuncs(v)
  OBVIOUS
<1>7. IsSeq(funcs) /\ \A i, j \in DOMAIN funcs : funcs[i] = funcs[j] => i = j
  <2>1. IsSeq(funcs)
    BY <1>1, <1>6, NewFuncsSeq
  <2>2. CASE compilationUnit = None
    <3>1. funcs = world.units[cu]
      BY <1>2, <1>6, <2>2 DEF NewFuncs
    <3> QED  BY <1>1, <1>4, <2>1, <3>1, UnitsWellFormed
  <2>3. CASE compilationUnit # None
    <3>1. funcs = <<>>
      BY <1>6, <2>3 DEF NewFuncs
    <3> QED  BY <2>1, <3>1
  <2> QED  BY <2>2, <2>3
<1>8. PICK S, T : S = Funcs(world, compilationUnit) /\ T = ToSet(funcs)
  OBVIOUS
<1>9. S \cap T = {} /\ S \cup T = Funcs(world, cu)
  <2>1. CASE compilationUnit = None
    <3>1. S = {} /\ funcs = world.units[cu]
      BY <1>2, <1>6, <1>8, <2>1 DEF NewFuncs, Funcs
    <3> QED  BY <1>4, <1>8, <3>1 DEF Funcs
  <2>2. CASE compilationUnit # None
    <3>1. funcs = <<>> /\ compilationUnit = cu
      BY <1>3, <1>6, <2>2 DEF NewFuncs
    <3>2. T = {}
      BY <1>8, <3>1 DEF ToSet
    <3> QED  BY <1>8, <3>1, <3>2
  <2> QED  BY <2>1, <2>2
<1>10. PICK b : b = block \o FuncOps(funcs)
  OBVIOUS
<1>11. IsSeq(b) /\ Declares(b, "func", S \cup T) /\ Declares(b, "class_type", classTypes)
  <2>1. /\ IsSeq(FuncOps(funcs))
        /\ Declares(FuncOps(funcs), "func", T)
        /\ Declares(FuncOps(funcs), "class_type", {})
    BY <1>7, <1>8, FuncOpsDeclare
  <2>2. Declares(block, "func", S) /\ Declares(block, "class_type", classTypes)
    BY <1>5, <1>8 DEF UnitInv
  <2>3. classTypes \cap {} = {} /\ classTypes \cup {} = classTypes
    OBVIOUS
  <2>4. Declares(b, "func", S \cup T) /\ IsSeq(b)
    BY <1>5, <1>9, <1>10, <2>1, <2>2, DeclaresMore
  <2>5. Declares(b, "class_type", classTypes \cup {})
    BY <1>5, <1>10, <2>1, <2>2, <2>3, DeclaresMore
  <2> QED  BY <2>3, <2>4, <2>5
<1>12. PICK d : d = b \o ClassTypeOps(c)
  OBVIOUS
<1>13. Declares(d, "func", S \cup T) /\ Declares(d, "class_type", classTypes \cup {c})
  <2>1. /\ IsSeq(ClassTypeOps(c))
        /\ Declares(ClassTypeOps(c), "class_type", {c} \ classTypes)
        /\ Declares(ClassTypeOps(c), "func", {})
    BY ClassTypeOpsDeclare
  <2>2. PICK F : F = S \cup T
    OBVIOUS
  <2>3. Declares(d, "func", F \cup {})
    <3>1. F \cap {} = {}
      OBVIOUS
    <3> QED  BY <1>11, <1>12, <2>1, <2>2, <3>1, DeclaresMore
  <2>4. Declares(d, "class_type", classTypes \cup ({c} \ classTypes))
    <3>1. classTypes \cap ({c} \ classTypes) = {}
      OBVIOUS
    <3> QED  BY <1>11, <1>12, <2>1, <3>1, DeclaresMore
  <2>5. F \cup {} = F /\ classTypes \cup ({c} \ classTypes) = classTypes \cup {c}
    OBVIOUS
  <2> QED  BY <2>2, <2>3, <2>4, <2>5
<1>14. \A k \in classTypes \cup {c} : ClassFuncs(world, k) \subseteq S \cup T
  <2>1. ClassFuncs(world, c) \subseteq ToSet(world.units[cu])
    BY <1>1, <1>2, UnitsWellFormed DEF ClassFuncs, IsModule, Kind, Of
  <2>2. ToSet(world.units[cu]) = S \cup T
    BY <1>4, <1>9 DEF Funcs
  <2>3. \A k \in classTypes : ClassFuncs(world, k) \subseteq S
    BY <1>5, <1>8 DEF UnitInv
  <2> QED  BY <2>1, <2>2, <2>3
<1>15. UnitInv(world', block', compilationUnit', classTypes')
  BY <1>3, <1>6, <1>9, <1>10, <1>12, <1>13, <1>14 DEF UnitInv
<1>16. ASSUME NEW u \in Held', IsModule(u)' PROVE Of(u)' \in classTypes'
  <2>1. IsModule(u) /\ Of(u)' = Of(u)
    BY <1>3, <1>16 DEF IsModule, Kind, Of
  <2>2. IsNext(v)
    BY DEF EnterModule
  <2>3. u \in Held \/ u = v
    BY <1>3, <2>2, HeldGrows, NextIsOne
  <2> QED  BY <1>2, <1>3, <1>5, <2>1, <2>3
<1> QED  BY <1>15, <1>16 DEF DeclaredInv

LEMMA DeclaredStep == Inv /\ DeclaredInv /\ [Next]_vars => DeclaredInv'
<1> SUFFICES ASSUME Inv, DeclaredInv, [Next]_vars PROVE DeclaredInv'
  OBVIOUS
<1>1. IsSeq(<<>>) /\ Declares(<<>>, "func", {}) /\ Declares(<<>>, "class_type", {})
  BY DEF Declares, IsSeq
<1>2. world' = world
  BY HeldStep
<1>3. CASE UNCHANGED vars
  <2>1. Held' = Held
    BY <1>3 DEF Held, vars, importVars
  <2> QED  BY <1>3, <2>1 DEF DeclaredInv, vars, importVars, IsModule, Kind, Of
<1>4. CASE pc' \in {"throw", "error"}
  BY <1>4 DEF DeclaredInv
<1>5. CASE pc' \notin {"throw", "error"} /\ (Annotate \/ StartImport \/ ImportDone)
  <2>1. UNCHANGED importVars
    BY <1>5 DEF Annotate, StartImport, ImportDone
  <2>2. Held' = Held
    BY <2>1 DEF Held, importVars
  <2>3. pc \notin {"throw", "error"}
    BY <1>5 DEF Annotate, StartImport, ImportDone
  <2> QED  BY <1>1, <1>2, <2>1, <2>2, <2>3, KeepsDeclared DEF importVars
<1>6. ASSUME NEW v, ImportKnown(v) PROVE DeclaredInv'
  <2>1. IsNext(v) /\ v \in Held /\ pc = "import" /\ pc' = pc
    BY <1>6 DEF ImportKnown, Held, IsNext
  <2>2. \A u \in Held' : u \in Held
    BY <2>1, HeldGrows, NextIsOne
  <2> QED  BY <1>1, <1>2, <1>6, <2>1, <2>2, KeepsDeclared DEF ImportKnown
<1>7. ASSUME NEW v, EnterValue(v) PROVE DeclaredInv'
  <2>1. IsNext(v) /\ ~ IsModule(v) /\ pc = "import" /\ pc' = pc
    BY <1>7 DEF EnterValue, IsNext, IsModule
  <2>2. \A u \in Held' : u \in Held \/ ~ IsModule(u)
    BY <2>1, HeldGrows, NextIsOne
  <2>3. compilationUnit' = compilationUnit /\ classTypes' = classTypes
    BY <1>7 DEF EnterValue
  <2>4. CASE Kind(v) = "per_tensor_affine"
    <3>1. PICK op : op = Op("literal", v, <<>>, <<>>)
      OBVIOUS
    <3>2. op.op = "literal"
      BY <3>1 DEF Op
    <3>3. block' = block \o <<op>>
      BY <1>7, <2>4, <3>1, AppendIsConcat DEF EnterValue, Inv, BlockInv
    <3> QED  BY <1>2, <2>1, <2>2, <2>3, <3>2, <3>3, DeclareNothing, KeepsDeclared
  <2>5. CASE Kind(v) # "per_tensor_affine"
    BY <1>1, <1>2, <1>7, <2>1, <2>2, <2>3, <2>5, KeepsDeclared DEF EnterValue
  <2> QED  BY <2>4, <2>5
<1>8. CASE Leave
  <2>1. PICK op : op = Op("value", Top.value, Top.operands, <<>>)
    OBVIOUS
  <2>2. op.op = "value"
    BY <2>1 DEF Op
  <2>3. block' = block \o <<op>>
    BY <1>8, <2>1, AppendIsConcat DEF Leave, Emit, Inv, BlockInv
  <2>4. compilationUnit' = compilationUnit /\ classTypes' = classTypes /\ pc = "import" /\ pc' = pc
    BY <1>8 DEF Leave
  <2>5. \A u : ~ IsNext(u)
    BY <1>8 DEF Leave, IsNext
  <2>6. \A u \in Held' : u \in Held
    BY <2>4, <2>5, HeldGrows
  <2> QED  BY <1>2, <2>2, <2>3, <2>4, <2>6, DeclareNothing, KeepsDeclared
<1>9. ASSUME NEW v, RejectSharedStorage(v) \/ RejectUnsupported(v) \/ RejectSecondUnit(v) \/ RejectFunction(v)
      PROVE  pc' = "throw"
  BY <1>9 DEF RejectSharedStorage, RejectUnsupported, RejectSecondUnit, RejectFunction, Throw
<1>10. CASE Unwind \/ ImportFails
  BY <1>4, <1>10 DEF Unwind, ImportFails
<1>11. CASE Terminated
  BY <1>3, <1>11 DEF Terminated
<1> QED  BY <1>3, <1>4, <1>5, <1>6, <1>7, <1>8, <1>9, <1>10, <1>11, EnterModuleDeclares DEF Next, ImportNext

IsOne(op, x) == Cardinality({i \in Positions : block[i].op = op /\ block[i].of = x}) = 1

LEMMA OnlyOne ==
  ASSUME NEW op, NEW x, NEW S, Declares(block, op, S), x \in S
  PROVE  IsOne(op, x)
<1>1. Cardinality({j \in Positions : block[j].op = op /\ block[j].of = x}) = 1
  <2>1. PICK i \in Positions : IsOnly(block, op, x, i)
    BY DEF Declares, Positions
  <2>2. {j \in Positions : block[j].op = op /\ block[j].of = x} = {i}
    BY <2>1 DEF IsOnly, Positions
  <2> QED  BY <2>2, FS_Singleton
<1> QED  BY <1>1 DEF IsOne

LEMMA Accepted == Inv /\ DeclaredInv => VerifiersAccept
<1> SUFFICES ASSUME Inv, DeclaredInv, pc = "done", NEW i \in Positions
             PROVE  /\ block[i].op = "func" => IsOne("func", block[i].of)
                    /\ block[i].op = "class_type" =>
                         /\ IsOne("class_type", block[i].of)
                         /\ \A m \in ToSet(Methods(world, block[i].of)) : IsOne("func", m.func)
                    /\ block[i].op = "value" /\ IsModule(block[i].of) =>
                         LET c == Of(block[i].of)
                         IN /\ IsOne("class_type", c)
                            /\ Len(block[i].operands) = Len(Attrs(world, c))
                            /\ \A j \in DOMAIN Attrs(world, c) :
                                 Attrs(world, c)[j].type \in Classes(world) =>
                                   Of(block[block[i].operands[j]].of) = Attrs(world, c)[j].type
  BY DEF VerifiersAccept, IsOne
<1>1. PICK S : S = Funcs(world, compilationUnit)
  OBVIOUS
<1>2. /\ Declares(block, "func", S)
      /\ Declares(block, "class_type", classTypes)
      /\ \A c \in classTypes : ClassFuncs(world, c) \subseteq S
      /\ \A v \in Held : IsModule(v) => Of(v) \in classTypes
  BY <1>1 DEF DeclaredInv, UnitInv
<1>3. \A f \in S : IsOne("func", f)
  BY <1>2, OnlyOne
<1>4. \A c \in classTypes : IsOne("class_type", c)
  BY <1>2, OnlyOne
<1>5. block[i].op = "func" => IsOne("func", block[i].of)
  BY <1>2, <1>3 DEF Declares, Positions
<1>6. ASSUME block[i].op = "class_type"
      PROVE  /\ IsOne("class_type", block[i].of)
             /\ \A m \in ToSet(Methods(world, block[i].of)) : IsOne("func", m.func)
  <2>1. PICK c \in classTypes : c = block[i].of
    BY <1>2, <1>6 DEF Declares, Positions
  <2>2. \A m \in ToSet(Methods(world, c)) : m.func \in ClassFuncs(world, c)
    BY DEF ToSet, ClassFuncs
  <2> QED  BY <1>2, <1>3, <1>4, <2>1, <2>2
<1>7. ASSUME block[i].op = "value", IsModule(block[i].of)
      PROVE  /\ IsOne("class_type", Of(block[i].of))
             /\ Len(block[i].operands) = Len(Attrs(world, Of(block[i].of)))
             /\ \A j \in DOMAIN Attrs(world, Of(block[i].of)) :
                  Attrs(world, Of(block[i].of))[j].type \in Classes(world) =>
                    Of(block[block[i].operands[j]].of) = Attrs(world, Of(block[i].of))[j].type
  <2>1. PICK v, c, operands, elems :
          v = block[i].of /\ c = Of(v) /\ operands = block[i].operands /\ elems = world.values[v].elems
    OBVIOUS
  <2>2. /\ v \in DOMAIN valueMap /\ valueMap[v] = i /\ v \in DOMAIN world.values
        /\ Consists(world, block, valueMap, v, operands, Len(elems))
    BY <1>7, <2>1 DEF Inv, BlockInv, Positions
  <2>3. world \in Worlds /\ world.values[v].kind = "module" /\ c = world.values[v].of
    BY <1>7, <2>1 DEF Inv, IsModule, Kind, Of
  <2>4. Before(world, v) = 0
    BY <2>3 DEF Before
  <2>5. /\ Len(elems) = Len(Attrs(world, c))
        /\ elems \in Seq(DOMAIN world.values)
    BY <2>1, <2>2, <2>3, WorldsWellFormed DEF Attrs
  <2>6. PICK n \in Nat : n = Len(elems)
    BY <2>5
  <2>7. /\ Len(operands) = n
        /\ \A j \in 1 .. n : elems[j] \in DOMAIN valueMap /\ operands[j] = valueMap[elems[j]]
    <3>1. /\ Len(operands) = 0 + n
          /\ \A j \in 1 .. n : elems[j] \in DOMAIN valueMap /\ operands[0 + j] = valueMap[elems[j]]
      BY <2>1, <2>2, <2>4, <2>6 DEF Consists
    <3>2. 0 + n = n /\ \A j \in 1 .. n : 0 + j = j
      OBVIOUS
    <3> QED  BY <3>1, <3>2
  <2>8. c \in classTypes
    BY <1>2, <1>7, <2>1, <2>2 DEF Held
  <2>9. c \in Classes(world) /\ DOMAIN Attrs(world, c) = 1 .. n /\ DOMAIN elems = 1 .. n
    <3>1. c \in Classes(world)
      BY <2>2, <2>3, ClassesWellFormed
    <3>2. Attrs(world, c) \in Seq(ToSet(Attrs(world, c)))
      BY <2>3, <3>1, ClassesWellFormed
    <3>3. PICK attrs, T : attrs = Attrs(world, c) /\ T = ToSet(Attrs(world, c))
      OBVIOUS
    <3>4. attrs \in Seq(T)
      BY <3>2, <3>3
    <3>5. DOMAIN attrs = 1 .. Len(attrs)
      BY <3>4
    <3> QED  BY <2>5, <2>6, <3>1, <3>3, <3>5
  <2>10. ASSUME NEW j \in 1 .. n, Attrs(world, c)[j].type \in Classes(world)
         PROVE  Of(block[operands[j]].of) = Attrs(world, c)[j].type
    <3>1. PICK e : e = elems[j]
      OBVIOUS
    <3>2. block[valueMap[e]].of = e
      BY <2>7, <3>1 DEF Inv, BlockInv
    <3>3. IF world.values[e].kind = "module"
          THEN Attrs(world, c)[j].type = world.values[e].of
          ELSE Attrs(world, c)[j].type \notin Classes(world)
      BY <2>1, <2>2, <2>3, <2>9, <3>1, ClassesWellFormed
    <3>4. Attrs(world, c)[j].type = world.values[e].of
      BY <2>10, <3>3
    <3> QED  BY <2>7, <3>1, <3>2, <3>4 DEF Of
  <2> QED  BY <1>4, <2>1, <2>5, <2>6, <2>7, <2>8, <2>9, <2>10
<1> QED  BY <1>5, <1>6, <1>7

\* What an op refers to comes before it, and what the verifiers of
\* torch.nn_module, torch.class_type and torch.method ask for holds of every module
\* that is imported: its class, its functions and those of its methods are there
\* once, and each slot of an instance holds an instance of the class of its
\* attribute.
THEOREM Verified == Spec => []ModulesVerify
<1>1. Spec => []VerifiersAccept
  BY InitInv, InitDeclared, NextInv, DeclaredStep, Accepted, PTL DEF Spec
<1> QED  BY <1>1, Dominance, PTL DEF ModulesVerify

=============================================================================
