------------------------- MODULE AcapDispatchProofs -------------------------
(***************************************************************************)
(* Theorems about ATen capture: that every function under construction is  *)
(* well formed, that kernels are recorded by the innermost controller, and *)
(* that a captured function computes what the program computed.            *)
(***************************************************************************)
EXTENDS AcapDispatch, InductionLemmas, SequenceTheorems, Integers, TLAPS

(* A list has elements, lists among them included.                         *)
HasLength(ival) ==
  ival.kind = "list" =>
    /\ Len(ival.elements) \in Nat
    /\ \A j \in 1 .. Len(ival.elements) :
         ival.elements[j].kind = "list" => Len(ival.elements[j].elements) \in Nat

(* What a program may call: kernels, with a list of IValues, none of which *)
(* is the return of a function.                                            *)
IsKernelCall(call) ==
  /\ call.op # "std.return"
  /\ Len(call.args) \in Nat
  /\ call.op = "mkldnn_convolution_backward" => Len(call.args) = 5
  /\ \A i \in 1 .. Len(call.args) : HasLength(call.args[i])
ProgramsCallKernels == \A h : \A call \in Calls(h) : IsKernelCall(call)

-----------------------------------------------------------------------------
\* Lists

\* A list of whatever.
IsList(s) == \E S : s \in Seq(S)

LEMMA Widened ==
  ASSUME NEW S, NEW T, S \subseteq T, NEW s \in Seq(S)
  PROVE  s \in Seq(T)
BY SeqMonotonic

LEMMA EmptyList == IsList(<<>>) /\ Len(<<>>) = 0
<1>1. <<>> \in Seq({})
  OBVIOUS
<1> QED
  BY <1>1 DEF IsList

LEMMA ListLength ==
  ASSUME NEW s, IsList(s)
  PROVE  Len(s) \in Nat /\ DOMAIN s = 1 .. Len(s)
BY DEF IsList

LEMMA ListAppend ==
  ASSUME NEW s, IsList(s), NEW e
  PROVE  /\ IsList(Append(s, e))
         /\ Len(Append(s, e)) = Len(s) + 1
         /\ Append(s, e)[Len(s) + 1] = e
         /\ \A i \in 1 .. Len(s) : Append(s, e)[i] = s[i]
<1>1. PICK S : s \in Seq(S)
  BY DEF IsList
<1>2. PICK T : T = S \cup {e}
  OBVIOUS
<1>3. s \in Seq(T) /\ e \in T
  BY <1>1, <1>2, Widened
<1> QED
  BY <1>3 DEF IsList

\* t is s with e put in at p.
Inserted(s, t, p, e) ==
  /\ IsList(t) /\ Len(t) = Len(s) + 1
  /\ p \in 1 .. Len(s) + 1
  /\ t[p] = e
  /\ \A i \in 1 .. p - 1 : t[i] = s[i]
  /\ \A i \in p .. Len(s) : t[i + 1] = s[i]

LEMMA AppendInserts ==
  ASSUME NEW s, IsList(s), NEW e
  PROVE  Inserted(s, Append(s, e), Len(s) + 1, e)
<1>1. Len(s) \in Nat
  BY ListLength
<1> QED
  BY <1>1, ListAppend DEF Inserted

LEMMA InsertAtInserts ==
  ASSUME NEW s, IsList(s), NEW e, NEW p \in 1 .. Len(s) + 1
  PROVE  Inserted(s, InsertAt(s, p, e), p, e)
<1>1. PICK S : s \in Seq(S)
  BY DEF IsList
<1>2. PICK T : T = S \cup {e}
  OBVIOUS
<1>3. s \in Seq(T) /\ e \in T /\ Len(s) \in Nat
  BY <1>1, <1>2, Widened
<1> DEFINE before == SubSeq(s, 1, p - 1)
           after == SubSeq(s, p, Len(s))
<1>4. /\ before \in Seq(T) /\ Len(before) = p - 1
      /\ \A i \in 1 .. p - 1 : before[i] = s[i]
  BY <1>3
<1>5. /\ after \in Seq(T) /\ Len(after) = Len(s) - p + 1
      /\ \A i \in 1 .. Len(s) - p + 1 : after[i] = s[p + i - 1]
  BY <1>3
<1> HIDE DEF before, after
<1>6. PICK front : front = before \o <<e>>
  OBVIOUS
<1>7. /\ front \in Seq(T) /\ Len(front) = p
      /\ front[p] = e /\ \A i \in 1 .. p - 1 : front[i] = s[i]
  BY <1>3, <1>4, <1>6
<1>8. PICK t : t = front \o after
  OBVIOUS
<1>9. /\ t \in Seq(T) /\ Len(t) = Len(s) + 1
      /\ \A i \in 1 .. p : t[i] = front[i]
      /\ \A i \in p + 1 .. Len(s) + 1 : t[i] = after[i - p]
  <2>1. /\ t \in Seq(T) /\ Len(t) = Len(front) + Len(after)
        /\ \A i \in 1 .. Len(front) + Len(after) :
             t[i] = IF i <= Len(front) THEN front[i] ELSE after[i - Len(front)]
    BY <1>5, <1>7, <1>8, ConcatProperties
  <2>2. Len(front) + Len(after) = Len(s) + 1
    BY <1>3, <1>5, <1>7
  <2>3. \A i \in 1 .. p : i \in 1 .. Len(s) + 1 /\ i <= p
    BY <1>3
  <2>4. \A i \in p + 1 .. Len(s) + 1 : i \in 1 .. Len(s) + 1 /\ ~ (i <= p)
    BY <1>3
  <2> QED
    BY <1>7, <2>1, <2>2, <2>3, <2>4
<1>10. \A i \in p .. Len(s) : t[i + 1] = s[i]
  <2> SUFFICES ASSUME NEW i \in p .. Len(s) PROVE t[i + 1] = s[i]
    OBVIOUS
  <2>1. i + 1 \in p + 1 .. Len(s) + 1 /\ i + 1 - p \in 1 .. Len(s) - p + 1
    BY <1>3
  <2>2. t[i + 1] = after[i + 1 - p]
    BY <1>9, <2>1
  <2>3. p + (i + 1 - p) - 1 = i
    BY <1>3
  <2> QED
    BY <1>5, <2>1, <2>2, <2>3
<1>11. t = InsertAt(s, p, e)
  BY <1>6, <1>8 DEF InsertAt, before, after
<1> QED
  BY <1>3, <1>7, <1>9, <1>10, <1>11 DEF Inserted, IsList

LEMMA GreatestNatural ==
  ASSUME NEW n \in Nat, NEW T \in SUBSET (1 .. n), T # {}
  PROVE  \E m \in T : \A k \in T : k <= m
<1> DEFINE U == {n - k : k \in T}
<1>1. U \in SUBSET Nat /\ U # {}
  <2>1. \A k \in T : n - k \in Nat
    OBVIOUS
  <2> QED
    BY <2>1
<1>2. PICK u \in U : \A w \in U : u <= w
  BY <1>1, LeastNatural
<1>3. PICK m \in T : u = n - m
  OBVIOUS
<1> QED
  BY <1>2, <1>3

-----------------------------------------------------------------------------
\* Functions under construction

IsFunction(f) ==
  /\ f = [args |-> f.args, block |-> f.block, constants |-> f.constants,
          results |-> f.results, tensorValueMap |-> f.tensorValueMap]
  /\ IsList(f.block) /\ IsList(f.tensorValueMap)
  /\ f.args \in Nat /\ f.constants \in 0 .. Len(f.block)

\* Value v is an argument or the result of an operation before position p.
Above(f, v, p) ==
  \/ v.op = 0 /\ v.result \in 1 .. f.args
  \/ \E j \in 1 .. p - 1 : f.block[j].id = v.op /\ v.result \in 1 .. f.block[j].results
Defined(f, v) == Above(f, v, Len(f.block) + 1)

\* An operand of op is above it, or a null one of a list.
Has(f, op, k, p) == Above(f, op.operands[k], p) \/ NullElement(op, k)

WellFormed(f) ==
  /\ IsFunction(f)
  /\ \A i \in 1 .. Len(f.block) :
       /\ f.block[i].id \in 1 .. Len(f.block)
       /\ f.block[i].results \in Nat /\ Len(f.block[i].operands) \in Nat
       /\ IsTerminator(f.block[i]) => f.block[i].results = 0
       /\ \A k \in 1 .. Len(f.block[i].operands) : Has(f, f.block[i], k, i)
  /\ \A i, j \in 1 .. Len(f.block) : f.block[i].id = f.block[j].id => i = j
  /\ \A i \in 1 .. Len(f.tensorValueMap) : Defined(f, f.tensorValueMap[i].value)

HasNoReturn(f) == \A i \in 1 .. Len(f.block) : ~ IsTerminator(f.block[i])

\* g has the operations of f and may have more, none of which returns.
Grows(f, g) ==
  /\ WellFormed(g)
  /\ g.args = f.args /\ g.results = f.results
  /\ \A v : Defined(f, v) => Defined(g, v)
  /\ HasNoReturn(f) => HasNoReturn(g)
  /\ \A i \in 1 .. Len(f.block) : \E j \in 1 .. Len(g.block) : g.block[j] = f.block[i]

LEMMA GrowsSame ==
  ASSUME NEW f, WellFormed(f)
  PROVE  Grows(f, f)
BY DEF Grows

LEMMA GrowsOn ==
  ASSUME NEW f, NEW g, NEW h, Grows(f, g), Grows(g, h)
  PROVE  Grows(f, h)
BY DEF Grows

LEMMA InsertedMoves ==
  ASSUME NEW s, IsList(s), NEW t, NEW p, NEW e, Inserted(s, t, p, e)
  PROVE  \E to \in [1 .. Len(s) -> 1 .. Len(s) + 1] :
           /\ \A i \in 1 .. Len(s) : t[to[i]] = s[i] /\ to[i] # p /\ (i < p <=> to[i] < p)
           /\ \A i, j \in 1 .. Len(s) : i < j <=> to[i] < to[j]
           /\ \A j \in 1 .. Len(s) + 1 : j # p => \E i \in 1 .. Len(s) : j = to[i]
<1>1. PICK n \in Nat : n = Len(s)
  BY ListLength
<1>2. PICK to \in [1 .. n -> 1 .. n + 1] : \A i \in 1 .. n : to[i] = IF i < p THEN i ELSE i + 1
  <2> DEFINE F == [i \in 1 .. n |-> IF i < p THEN i ELSE i + 1]
  <2>1. F \in [1 .. n -> 1 .. n + 1]
    BY <1>1
  <2> QED
    BY <2>1
<1>3. p \in 1 .. n + 1
  BY <1>1 DEF Inserted
<1>4. \A i \in 1 .. n : t[to[i]] = s[i] /\ to[i] # p /\ (i < p <=> to[i] < p)
  <2> SUFFICES ASSUME NEW i \in 1 .. n PROVE t[to[i]] = s[i] /\ to[i] # p /\ (i < p <=> to[i] < p)
    OBVIOUS
  <2>1. CASE i < p
    BY <1>1, <1>2, <1>3, <2>1 DEF Inserted
  <2>2. CASE ~ (i < p)
    <3>1. to[i] = i + 1 /\ i \in p .. n
      BY <1>2, <1>3, <2>2
    <3> QED
      BY <1>1, <1>3, <2>2, <3>1 DEF Inserted
  <2> QED
    BY <2>1, <2>2
<1>5. \A i, j \in 1 .. n : i < j <=> to[i] < to[j]
  BY <1>2, <1>3
<1>6. \A j \in 1 .. n + 1 : j # p => \E i \in 1 .. n : j = to[i]
  <2> SUFFICES ASSUME NEW j \in 1 .. n + 1, j # p PROVE \E i \in 1 .. n : j = to[i]
    OBVIOUS
  <2>1. CASE j < p
    <3>1. j \in 1 .. n
      BY <1>3, <2>1
    <3> QED
      BY <1>2, <2>1, <3>1
  <2>2. CASE p < j
    <3>1. j - 1 \in 1 .. n /\ ~ (j - 1 < p) /\ j = (j - 1) + 1
      BY <1>3, <2>2
    <3> QED
      BY <1>2, <3>1
  <2> QED
    BY <1>3, <2>1, <2>2
<1> QED
  BY <1>1, <1>2, <1>4, <1>5, <1>6

\* op is a new operation that can be put in at position p.
Fits(f, op, p) ==
  /\ op.id = NextId(f) /\ op.results \in Nat /\ Len(op.operands) \in Nat
  /\ IsTerminator(op) => op.results = 0
  /\ \A k \in 1 .. Len(op.operands) : Has(f, op, k, p)

\* A function stays well formed when an operation is put in whose operands are
\* defined above, and what it defines is defined.
LEMMA InsertOperation ==
  ASSUME NEW f, WellFormed(f), NEW g, IsFunction(g),
         g.args = f.args, g.tensorValueMap = f.tensorValueMap,
         NEW op, NEW p, Inserted(f.block, g.block, p, op), Fits(f, op, p)
  PROVE  /\ WellFormed(g)
         /\ \A v : Defined(f, v) => Defined(g, v)
         /\ \A k \in 1 .. op.results : Defined(g, Value(op.id, k))
         /\ \A i \in 1 .. Len(f.block) : \E j \in 1 .. Len(g.block) : g.block[j] = f.block[i]
         /\ \A j \in 1 .. Len(g.block) : (j = p /\ g.block[j] = op)
                                         \/ \E i \in 1 .. Len(f.block) : g.block[j] = f.block[i]
<1>1. PICK n \in Nat : n = Len(f.block) /\ n + 1 = Len(g.block)
  BY ListLength DEF WellFormed, IsFunction, Inserted
<1> USE DEF Fits
<1>2. PICK to \in [1 .. n -> 1 .. n + 1] :
           /\ \A i \in 1 .. n : g.block[to[i]] = f.block[i] /\ to[i] # p /\ (i < p <=> to[i] < p)
           /\ \A i, j \in 1 .. n : i < j <=> to[i] < to[j]
           /\ \A j \in 1 .. n + 1 : j # p => \E i \in 1 .. n : j = to[i]
  <2>1. IsList(f.block)
    BY DEF WellFormed, IsFunction
  <2>2. PICK s, t : s = f.block /\ t = g.block
    OBVIOUS
  <2>3. IsList(s) /\ Inserted(s, t, p, op) /\ n = Len(s)
    BY <1>1, <2>1, <2>2
  <2> HIDE <1>1
  <2>4. \E to \in [1 .. n -> 1 .. n + 1] :
           /\ \A i \in 1 .. n : t[to[i]] = s[i] /\ to[i] # p /\ (i < p <=> to[i] < p)
           /\ \A i, j \in 1 .. n : i < j <=> to[i] < to[j]
           /\ \A j \in 1 .. n + 1 : j # p => \E i \in 1 .. n : j = to[i]
    BY <2>3, InsertedMoves
  <2> QED
    BY <2>2, <2>4
<1>3. p \in 1 .. n + 1 /\ g.block[p] = op
  BY <1>1 DEF Inserted
<1>4. ASSUME NEW v, NEW q \in 1 .. n + 1, NEW r \in 1 .. n + 2, Above(f, v, q),
             \A j \in 1 .. n : j < q => to[j] < r
      PROVE  Above(g, v, r)
  <2>1. CASE v.op = 0 /\ v.result \in 1 .. f.args
    BY <2>1 DEF Above
  <2>2. CASE \E j \in 1 .. q - 1 : f.block[j].id = v.op /\ v.result \in 1 .. f.block[j].results
    <3>1. PICK j \in 1 .. q - 1 : f.block[j].id = v.op /\ v.result \in 1 .. f.block[j].results
      BY <2>2
    <3>2. j \in 1 .. n /\ j < q
      OBVIOUS
    <3>3. to[j] \in 1 .. n + 1 /\ to[j] < r /\ g.block[to[j]] = f.block[j]
      BY <1>2, <1>4, <3>2
    <3>4. to[j] \in 1 .. r - 1
      BY <3>3
    <3> QED
      BY <3>1, <3>3, <3>4 DEF Above
  <2> QED
    BY <1>4, <2>1, <2>2 DEF Above
<1>5. \A v : Defined(f, v) => Defined(g, v)
  <2> SUFFICES ASSUME NEW v, Defined(f, v) PROVE Defined(g, v)
    OBVIOUS
  <2>1. \A j \in 1 .. n : to[j] < n + 2
    BY <1>2
  <2>2. Above(f, v, n + 1)
    BY <1>1 DEF Defined
  <2>3. n + 1 \in 1 .. n + 1 /\ n + 2 \in 1 .. n + 2
    OBVIOUS
  <2>4. Above(g, v, n + 2)
    BY <1>4, <2>1, <2>2, <2>3
  <2>5. Len(g.block) + 1 = n + 2
    BY <1>1
  <2> QED
    BY <2>4, <2>5 DEF Defined
<1>6. \A j \in 1 .. n + 1 : j = p \/ \E i \in 1 .. n : j = to[i] /\ g.block[j] = f.block[i]
  BY <1>2
<1>7. ASSUME NEW j \in 1 .. n + 1
      PROVE  /\ g.block[j].id \in 1 .. n + 1
             /\ g.block[j].results \in Nat /\ Len(g.block[j].operands) \in Nat
             /\ IsTerminator(g.block[j]) => g.block[j].results = 0
             /\ \A k \in 1 .. Len(g.block[j].operands) : Has(g, g.block[j], k, j)
  <2>1. CASE j = p
    <3>1. op.id = n + 1
      BY <1>1 DEF NextId
    <3>2. \A i \in 1 .. n : i < p => to[i] < p
      BY <1>2
    <3>3. \A k \in 1 .. Len(op.operands) : Has(g, op, k, p)
      BY <1>3, <1>4, <3>2 DEF Has
    <3> QED
      BY <1>3, <2>1, <3>1, <3>3
  <2>2. CASE j # p
    <3>1. PICK i \in 1 .. n : j = to[i] /\ g.block[j] = f.block[i]
      BY <1>6, <2>2
    <3>2. /\ f.block[i].id \in 1 .. n
          /\ f.block[i].results \in Nat /\ Len(f.block[i].operands) \in Nat
          /\ IsTerminator(f.block[i]) => f.block[i].results = 0
          /\ \A k \in 1 .. Len(f.block[i].operands) : Has(f, f.block[i], k, i)
      BY <1>1 DEF WellFormed
    <3>3. \A l \in 1 .. n : l < i => to[l] < j
      BY <1>2, <3>1
    <3>4. \A k \in 1 .. Len(f.block[i].operands) : Has(g, f.block[i], k, j)
      BY <1>4, <3>2, <3>3 DEF Has
    <3> QED
      BY <3>1, <3>2, <3>4
  <2> QED
    BY <2>1, <2>2
<1>8. ASSUME NEW i \in 1 .. n + 1, NEW j \in 1 .. n + 1, g.block[i].id = g.block[j].id
      PROVE  i = j
  <2>1. \A k \in 1 .. n : f.block[k].id \in 1 .. n
    BY <1>1 DEF WellFormed
  <2>2. \A k, l \in 1 .. n : f.block[k].id = f.block[l].id => k = l
    BY <1>1 DEF WellFormed
  <2>3. g.block[p].id = n + 1
    BY <1>1, <1>3 DEF NextId
  <2>4. \A k \in 1 .. n : f.block[k].id # n + 1
    BY <2>1
  <2>5. \A l \in 1 .. n + 1 : l # p => g.block[l].id # n + 1
    BY <1>6, <2>4
  <2>6. CASE i # p /\ j # p
    <3>1. PICK k \in 1 .. n : i = to[k] /\ g.block[i] = f.block[k]
      BY <1>6, <2>6
    <3>2. PICK l \in 1 .. n : j = to[l] /\ g.block[j] = f.block[l]
      BY <1>6, <2>6
    <3> QED
      BY <1>8, <2>2, <3>1, <3>2
  <2> QED
    BY <1>8, <2>3, <2>5, <2>6
<1>9. WellFormed(g)
  <2>1. \A i \in 1 .. Len(g.tensorValueMap) : Defined(g, g.tensorValueMap[i].value)
    BY <1>5 DEF WellFormed
  <2> QED
    BY <1>1, <1>7, <1>8, <2>1 DEF WellFormed
<1>10. \A k \in 1 .. op.results : Defined(g, Value(op.id, k))
  <2> SUFFICES ASSUME NEW k \in 1 .. op.results PROVE Defined(g, Value(op.id, k))
    OBVIOUS
  <2>1. p \in 1 .. Len(g.block) + 1 - 1
    BY <1>1, <1>3
  <2> QED
    BY <1>3, <2>1 DEF Defined, Above, Value
<1>11. \A i \in 1 .. n : \E j \in 1 .. n + 1 : g.block[j] = f.block[i]
  BY <1>2
<1> QED
  BY <1>1, <1>3, <1>5, <1>6, <1>9, <1>10, <1>11

\* g is f with one field changed.
SetsBlock(f, t, g) == g = [f EXCEPT !.block = t]
SetsConstants(f, g) == g = [f EXCEPT !.constants = @ + 1]
SetsTensors(f, t, g) == g = [f EXCEPT !.tensorValueMap = t]
SetsResults(f, count, g) == g = [f EXCEPT !.results = count]

LEMMA WithBlock ==
  ASSUME NEW f, IsFunction(f), NEW t, IsList(t), Len(f.block) <= Len(t),
         NEW g, SetsBlock(f, t, g)
  PROVE  /\ IsFunction(g) /\ g.block = t /\ g.args = f.args /\ g.results = f.results
         /\ g.constants = f.constants /\ g.tensorValueMap = f.tensorValueMap
<1>1. PICK m \in Nat, n \in Nat : m = Len(f.block) /\ n = Len(t)
  BY ListLength DEF IsFunction
<1> QED
  BY <1>1 DEF IsFunction, SetsBlock

LEMMA WithConstants ==
  ASSUME NEW f, IsFunction(f), f.constants + 1 <= Len(f.block),
         NEW g, SetsConstants(f, g)
  PROVE  /\ IsFunction(g) /\ g.block = f.block /\ g.args = f.args /\ g.results = f.results
         /\ g.tensorValueMap = f.tensorValueMap
<1>1. PICK m \in Nat : m = Len(f.block)
  BY ListLength DEF IsFunction
<1> QED
  BY <1>1 DEF IsFunction, SetsConstants

LEMMA WithTensors ==
  ASSUME NEW f, IsFunction(f), NEW t, IsList(t),
         NEW g, SetsTensors(f, t, g)
  PROVE  /\ IsFunction(g) /\ g.block = f.block /\ g.args = f.args /\ g.results = f.results
         /\ g.tensorValueMap = t
BY DEF IsFunction, SetsTensors

LEMMA WithResults ==
  ASSUME NEW f, IsFunction(f), NEW count,
         NEW g, SetsResults(f, count, g)
  PROVE  /\ IsFunction(g) /\ g.block = f.block /\ g.args = f.args /\ g.results = count
         /\ g.tensorValueMap = f.tensorValueMap
BY DEF IsFunction, SetsResults

LEMMA InsertGrows ==
  ASSUME NEW f, WellFormed(f), NEW g, IsFunction(g),
         g.args = f.args, g.results = f.results, g.tensorValueMap = f.tensorValueMap,
         NEW op, NEW p, Inserted(f.block, g.block, p, op), Fits(f, op, p), ~ IsTerminator(op)
  PROVE  Grows(f, g) /\ \A k \in 1 .. op.results : Defined(g, Value(op.id, k))
<1>1. /\ WellFormed(g)
      /\ \A v : Defined(f, v) => Defined(g, v)
      /\ \A k \in 1 .. op.results : Defined(g, Value(op.id, k))
      /\ \A i \in 1 .. Len(f.block) : \E j \in 1 .. Len(g.block) : g.block[j] = f.block[i]
      /\ \A j \in 1 .. Len(g.block) : (j = p /\ g.block[j] = op)
                                      \/ \E i \in 1 .. Len(f.block) : g.block[j] = f.block[i]
  BY InsertOperation
<1>2. HasNoReturn(f) => HasNoReturn(g)
  BY <1>1 DEF HasNoReturn
<1> QED
  BY <1>1, <1>2 DEF Grows

LEMMA OperationIs ==
  ASSUME NEW id, NEW name, NEW operands, NEW results, NEW attr
  PROVE  LET op == Operation(id, name, operands, results, attr)
         IN  /\ op.id = id /\ op.name = name /\ op.operands = operands /\ op.results = results
             /\ IsTerminator(op) <=> name = "std.return"
BY DEF Operation, IsTerminator

LEMMA ConstantGrows ==
  ASSUME NEW f, WellFormed(f), NEW name, name # "std.return", NEW attr
  PROVE  LET g == InsertConstantOp(f, name, attr)
         IN  /\ Grows(f, g) /\ Defined(g, Value(NextId(f), 1)) /\ g.tensorValueMap = f.tensorValueMap
             /\ Inserted(f.block, g.block, f.constants + 1, Operation(NextId(f), name, <<>>, 1, attr))
<1> DEFINE op == Operation(NextId(f), name, <<>>, 1, attr)
           t == InsertAt(f.block, f.constants + 1, op)
           h == [f EXCEPT !.block = t]
           g == InsertConstantOp(f, name, attr)
<1>1. /\ op.id = NextId(f) /\ op.operands = <<>> /\ op.results = 1 /\ ~ IsTerminator(op)
  BY OperationIs
<1>2. PICK n \in Nat : n = Len(f.block) /\ f.constants \in 0 .. n /\ IsList(f.block)
  BY ListLength DEF WellFormed, IsFunction
<1> HIDE DEF op
<1>3. Inserted(f.block, t, f.constants + 1, op)
  BY <1>2, InsertAtInserts
<1>4. IsList(t) /\ Len(t) = n + 1
  BY <1>2, <1>3 DEF Inserted
<1> HIDE DEF t
<1>10. SetsBlock(f, t, h)
  BY DEF SetsBlock
<1>5. /\ IsFunction(h) /\ h.block = t /\ h.args = f.args /\ h.results = f.results
      /\ h.constants = f.constants /\ h.tensorValueMap = f.tensorValueMap
  <2> HIDE DEF h
  <2> QED
    BY <1>2, <1>4, <1>10, WithBlock DEF WellFormed
<1>6. SetsConstants(h, g)
  BY DEF InsertConstantOp, SetsConstants, op, t
<1> HIDE DEF h, g
<1>7. /\ IsFunction(g) /\ g.block = t /\ g.args = f.args /\ g.results = f.results
      /\ g.tensorValueMap = f.tensorValueMap
  BY <1>2, <1>4, <1>5, <1>6, WithConstants
<1>8. Fits(f, op, f.constants + 1)
  BY <1>1, EmptyList DEF Fits
<1>9. Grows(f, g) /\ \A k \in 1 .. op.results : Defined(g, Value(op.id, k))
  BY <1>1, <1>3, <1>7, <1>8, InsertGrows
<1>11. Inserted(f.block, g.block, f.constants + 1, op)
  BY <1>3, <1>7
<1> QED
  BY <1>1, <1>7, <1>9, <1>11 DEF g, op

\* An operation with operands that are defined, at the end of the block.
LEMMA AppendedGrows ==
  ASSUME NEW f, WellFormed(f), NEW op, op.id = NextId(f), op.results \in Nat,
         ~ IsTerminator(op), Len(op.operands) \in Nat,
         \A k \in 1 .. Len(op.operands) : Defined(f, op.operands[k]) \/ NullElement(op, k),
         NEW g, SetsBlock(f, Append(f.block, op), g)
  PROVE  /\ Grows(f, g) /\ (\A k \in 1 .. op.results : Defined(g, Value(op.id, k)))
         /\ g.tensorValueMap = f.tensorValueMap /\ Inserted(f.block, g.block, Len(f.block) + 1, op)
<1> DEFINE t == Append(f.block, op)
<1>1. PICK n \in Nat : n = Len(f.block) /\ IsList(f.block)
  BY ListLength DEF WellFormed, IsFunction
<1>2. Inserted(f.block, t, n + 1, op)
  BY <1>1, AppendInserts
<1>3. IsList(t) /\ Len(t) = n + 1
  BY <1>1, <1>2 DEF Inserted
<1>4. SetsBlock(f, t, g)
  OBVIOUS
<1> HIDE DEF t
<1>5. /\ IsFunction(g) /\ g.block = t /\ g.args = f.args /\ g.results = f.results
      /\ g.tensorValueMap = f.tensorValueMap
  BY <1>1, <1>3, <1>4, WithBlock DEF WellFormed
<1>6. Fits(f, op, n + 1)
  BY <1>1 DEF Defined, Fits, Has
<1>7. Grows(f, g) /\ \A k \in 1 .. op.results : Defined(g, Value(op.id, k))
  BY <1>2, <1>5, <1>6, InsertGrows
<1> QED
  BY <1>1, <1>2, <1>5, <1>7

LEMMA AtEndGrows ==
  ASSUME NEW f, WellFormed(f), NEW name, name # "std.return", NEW operands, Len(operands) \in Nat,
         \A k \in 1 .. Len(operands) : Defined(f, operands[k]), NEW results \in Nat, NEW attr
  PROVE  LET g == CreateOperationAtEnd(f, name, operands, results, attr)
         IN  /\ Grows(f, g) /\ (\A k \in 1 .. results : Defined(g, Value(NextId(f), k)))
             /\ g.tensorValueMap = f.tensorValueMap
<1> DEFINE op == Operation(NextId(f), name, operands, results, attr)
           g == CreateOperationAtEnd(f, name, operands, results, attr)
<1>1. /\ op.id = NextId(f) /\ op.operands = operands /\ op.results = results /\ ~ IsTerminator(op)
  BY OperationIs
<1>2. PICK n \in Nat : n = Len(f.block) /\ IsList(f.block)
  BY ListLength DEF WellFormed, IsFunction
<1>3. g = IF f.block # <<>> /\ IsTerminator(Last(f.block))
          THEN [f EXCEPT !.block = InsertAt(f.block, Len(f.block), op)]
          ELSE [f EXCEPT !.block = Append(@, op)]
  BY DEF CreateOperationAtEnd
<1> HIDE DEF op, g
<1>4. CASE f.block # <<>> /\ IsTerminator(Last(f.block))
  <2> DEFINE t == InsertAt(f.block, n, op)
  <2>1. n # 0
    <3>1. PICK S : f.block \in Seq(S)
      BY <1>2 DEF IsList
    <3> QED
      BY <1>2, <1>4, <3>1
  <2>2. n \in 1 .. n /\ IsTerminator(f.block[n])
    BY <1>2, <1>4, <2>1 DEF Last
  <2>3. Inserted(f.block, t, n, op)
    BY <1>2, <2>2, InsertAtInserts
  <2>4. IsList(t) /\ Len(t) = n + 1
    BY <1>2, <2>3 DEF Inserted
  <2>5. SetsBlock(f, t, g)
    BY <1>2, <1>3, <1>4 DEF SetsBlock
  <2> HIDE DEF t
  <2>6. /\ IsFunction(g) /\ g.block = t /\ g.args = f.args /\ g.results = f.results
        /\ g.tensorValueMap = f.tensorValueMap
    BY <1>2, <2>4, <2>5, WithBlock DEF WellFormed
  <2>7. f.block[n].results = 0
    BY <1>2, <2>2 DEF WellFormed
  <2>8. ASSUME NEW v, Defined(f, v)
        PROVE  Above(f, v, n)
    BY <1>2, <2>7, <2>8 DEF Defined, Above
  <2>9. Fits(f, op, n)
    BY <1>1, <2>8 DEF Fits, Has
  <2>10. Grows(f, g) /\ \A k \in 1 .. op.results : Defined(g, Value(op.id, k))
    BY <1>1, <2>3, <2>6, <2>9, InsertGrows
  <2> QED
    BY <1>1, <2>6, <2>10 DEF g
<1>5. CASE ~ (f.block # <<>> /\ IsTerminator(Last(f.block)))
  <2>1. SetsBlock(f, Append(f.block, op), g)
    BY <1>3, <1>5 DEF SetsBlock
  <2>2. \A k \in 1 .. Len(op.operands) : Defined(f, op.operands[k])
    BY <1>1
  <2>3. Grows(f, g) /\ (\A k \in 1 .. op.results : Defined(g, Value(op.id, k)))
        /\ g.tensorValueMap = f.tensorValueMap
    BY <1>1, <2>1, <2>2, AppendedGrows
  <2> QED
    BY <1>1, <2>3 DEF g
<1> QED
  BY <1>4, <1>5

LEMMA AtEndAppends ==
  ASSUME NEW f, WellFormed(f), HasNoReturn(f),
         NEW name, NEW operands, NEW results, NEW attr, NEW op,
         op = Operation(NextId(f), name, operands, results, attr)
  PROVE  SetsBlock(f, Append(f.block, op), CreateOperationAtEnd(f, name, operands, results, attr))
<1>1. PICK n \in Nat : n = Len(f.block)
  BY ListLength DEF WellFormed, IsFunction
<1>2. ~ (f.block # <<>> /\ IsTerminator(Last(f.block)))
  <2>1. f.block # <<>> => n \in 1 .. n
    BY <1>1
  <2> QED
    BY <1>1, <2>1 DEF Last, HasNoReturn
<1> QED
  BY <1>2 DEF CreateOperationAtEnd, SetsBlock

LEMMA MapTensorGrows ==
  ASSUME NEW f, WellFormed(f), NEW t, NEW v, Defined(f, v)
  PROVE  Grows(f, MapTensor(f, t, v))
<1> DEFINE m == Append(f.tensorValueMap, [tensor |-> t, value |-> v])
           g == MapTensor(f, t, v)
<1>1. PICK n \in Nat : n = Len(f.tensorValueMap)
  BY ListLength DEF WellFormed, IsFunction
<1>2. /\ IsList(m) /\ Len(m) = n + 1
      /\ m[n + 1] = [tensor |-> t, value |-> v] /\ \A i \in 1 .. n : m[i] = f.tensorValueMap[i]
  BY <1>1, ListAppend DEF WellFormed, IsFunction
<1>3. SetsTensors(f, m, g)
  BY DEF MapTensor, SetsTensors
<1> HIDE DEF m, g
<1>4. /\ IsFunction(g) /\ g.block = f.block /\ g.args = f.args /\ g.results = f.results
      /\ g.tensorValueMap = m
  BY <1>2, <1>3, WithTensors DEF WellFormed
<1>5. \A w, q : Above(f, w, q) <=> Above(g, w, q)
  BY <1>4 DEF Above
<1>6. \A w : Defined(f, w) <=> Defined(g, w)
  BY <1>4, <1>5 DEF Defined
<1>7. \A i \in 1 .. n + 1 : Defined(g, m[i].value)
  <2> SUFFICES ASSUME NEW i \in 1 .. n + 1 PROVE Defined(g, m[i].value)
    OBVIOUS
  <2>1. CASE i = n + 1
    BY <1>2, <1>6, <2>1
  <2>2. CASE i \in 1 .. n
    BY <1>1, <1>2, <1>6, <2>2 DEF WellFormed
  <2> QED
    BY <2>1, <2>2
<1>10. \A o, k, q : Has(f, o, k, q) <=> Has(g, o, k, q)
  BY <1>5 DEF Has
<1>8. WellFormed(g)
  BY <1>2, <1>4, <1>7, <1>10 DEF WellFormed
<1>9. HasNoReturn(f) <=> HasNoReturn(g)
  BY <1>4 DEF HasNoReturn
<1> QED
  BY <1>4, <1>6, <1>8, <1>9 DEF Grows, g

LEMMA LookupDefined ==
  ASSUME NEW f, WellFormed(f), NEW t, LookupTensor(f, t) # NoValue
  PROVE  Defined(f, LookupTensor(f, t))
<1>1. PICK n \in Nat : n = Len(f.tensorValueMap)
  BY ListLength DEF WellFormed, IsFunction
<1>2. PICK hits : hits = {i \in 1 .. n : f.tensorValueMap[i].tensor = t}
  OBVIOUS
<1>3. hits # {} /\ LookupTensor(f, t) = f.tensorValueMap[CHOOSE i \in hits : \A j \in hits : j <= i].value
  BY <1>1, <1>2 DEF LookupTensor
<1>4. \E i \in hits : \A j \in hits : j <= i
  BY <1>2, <1>3, GreatestNatural
<1>5. (CHOOSE i \in hits : \A j \in hits : j <= i) \in 1 .. n
  BY <1>2, <1>4
<1> QED
  BY <1>1, <1>3, <1>5 DEF WellFormed

-----------------------------------------------------------------------------
\* The loops over operands and results

\* One round of a loop.
Round(loop, id, x, e) ==
  CASE loop = "leaves"   -> IfOk(x, MapLeaf(x, e))
    [] loop = "elements" -> IfOk(x, MapElement(x, e))
    [] loop = "values"   -> IfOk(x, AddOperand(x, e))
    [] loop = "tensors"  -> IfOk(x, TensorValue(x, e))
    [] loop = "results"  -> MapResult(x, id, e)
    [] loop = "replay"   -> ReplayOperation(x, e)

\* The states of a loop over s, which starts in b.
Rounds(loop, id, b, s, up) ==
  /\ up[0] = b
  /\ \A k \in 1 .. Len(s) : up[k] = Round(loop, id, up[k - 1], s[k])

IsLoop(loop, id, b, s, n, up) ==
  up = [k \in 0 .. n |-> IF k = 0 THEN b ELSE Round(loop, id, up[k - 1], s[k])]

LEMMA LoopExists ==
  ASSUME NEW loop, NEW id, NEW b, NEW s, NEW n \in Nat
  PROVE  \E up : IsLoop(loop, id, b, s, n, up)
<1> DEFINE Next1(k, x) == Round(loop, id, x, s[k])
           Is(m, up) == up = [k \in 0 .. m |-> IF k = 0 THEN b ELSE Next1(k, up[k - 1])]
           S == {m \in Nat : \E up : Is(m, up)}
<1> HIDE DEF Next1
<1>1. 0 \in S
  <2> DEFINE g == [k \in 0 .. 0 |-> b]
  <2>1. g = [k \in 0 .. 0 |-> IF k = 0 THEN b ELSE Next1(k, g[k - 1])]
    OBVIOUS
  <2> QED
    BY <2>1
<1>2. ASSUME NEW m \in Nat, m \in S
      PROVE  m + 1 \in S
  <2>1. PICK g : Is(m, g)
    BY <1>2
  <2> DEFINE h == [k \in 0 .. m + 1 |-> IF k = m + 1 THEN Next1(k, g[m]) ELSE g[k]]
  <2>2. \A k \in 0 .. m : g[k] = IF k = 0 THEN b ELSE Next1(k, g[k - 1])
    BY <2>1
  <2>3. \A k \in 0 .. m + 1 : h[k] = IF k = 0 THEN b ELSE Next1(k, h[k - 1])
    <3> SUFFICES ASSUME NEW k \in 0 .. m + 1
                 PROVE  h[k] = IF k = 0 THEN b ELSE Next1(k, h[k - 1])
      OBVIOUS
    <3>1. CASE k = m + 1
      BY <3>1
    <3>2. CASE k = 0
      BY <2>2, <3>2
    <3>3. CASE k \in 1 .. m
      <4>1. k \in 0 .. m /\ k # 0 /\ k # m + 1 /\ k - 1 \in 0 .. m + 1 /\ k - 1 # m + 1
        BY <3>3
      <4> QED
        BY <2>2, <4>1
    <3> QED
      BY <3>1, <3>2, <3>3
  <2>4. Is(m + 1, h)
    <3> DEFINE h1 == [k \in 0 .. m + 1 |-> IF k = 0 THEN b ELSE Next1(k, h[k - 1])]
    <3> SUFFICES h = h1
      OBVIOUS
    <3>1. DOMAIN h = 0 .. m + 1 /\ DOMAIN h1 = 0 .. m + 1
      OBVIOUS
    <3>2. \A k \in 0 .. m + 1 : h[k] = h1[k]
      BY <2>3
    <3> QED
      BY <3>1, <3>2
  <2> HIDE DEF h
  <2>5. \E up : Is(m + 1, up)
    BY <2>4
  <2> HIDE DEF Is
  <2> QED
    BY <2>5
<1>3. n \in S
  <2> HIDE DEF S
  <2> QED
    BY <1>1, <1>2, SetInduction
<1> QED
  BY <1>3 DEF Next1, IsLoop

LEMMA LoopOver ==
  ASSUME NEW loop, NEW id, NEW b, NEW n \in Nat, NEW s, n = Len(s), NEW up,
         IsLoop(loop, id, b, s, n, up)
  PROVE  Rounds(loop, id, b, s, up)
<1>1. 0 \in 0 .. n /\ \A k \in 1 .. n : k \in 0 .. n /\ k # 0
  OBVIOUS
<1> QED
  BY <1>1 DEF Rounds, IsLoop

LEMMA LeavesLoop ==
  ASSUME NEW b, NEW s, Len(s) \in Nat
  PROVE  \E up : Rounds("leaves", 0, b, s, up) /\ InOrder(MapLeaf, b, s) = up[Len(s)]
<1> DEFINE Is(up) == up = [k \in 0 .. Len(s) |-> IF k = 0 THEN b ELSE IfOk(up[k - 1], MapLeaf(up[k - 1], s[k]))]
           last == CHOOSE up : Is(up)
<1>1. InOrder(MapLeaf, b, s) = last[Len(s)]
  BY DEF InOrder
<1>2. \A x, e : Round("leaves", 0, x, e) = IfOk(x, MapLeaf(x, e))
  BY DEF Round
<1>3. PICK up : IsLoop("leaves", 0, b, s, Len(s), up)
  BY LoopExists
<1>4. Is(up)
  BY <1>2, <1>3 DEF IsLoop
<1>5. Is(last)
  BY <1>4
<1> HIDE DEF last
<1>6. IsLoop("leaves", 0, b, s, Len(s), last)
  BY <1>2, <1>5 DEF IsLoop
<1> QED
  BY <1>1, <1>6, LoopOver

LEMMA ElementsLoop ==
  ASSUME NEW b, NEW s, Len(s) \in Nat
  PROVE  \E up : Rounds("elements", 0, b, s, up) /\ InOrder(MapElement, b, s) = up[Len(s)]
<1> DEFINE Is(up) == up = [k \in 0 .. Len(s) |-> IF k = 0 THEN b ELSE IfOk(up[k - 1], MapElement(up[k - 1], s[k]))]
           last == CHOOSE up : Is(up)
<1>1. InOrder(MapElement, b, s) = last[Len(s)]
  BY DEF InOrder
<1>2. \A x, e : Round("elements", 0, x, e) = IfOk(x, MapElement(x, e))
  BY DEF Round
<1>3. PICK up : IsLoop("elements", 0, b, s, Len(s), up)
  BY LoopExists
<1>4. Is(up)
  BY <1>2, <1>3 DEF IsLoop
<1>5. Is(last)
  BY <1>4
<1> HIDE DEF last
<1>6. IsLoop("elements", 0, b, s, Len(s), last)
  BY <1>2, <1>5 DEF IsLoop
<1> QED
  BY <1>1, <1>6, LoopOver

LEMMA ValuesLoop ==
  ASSUME NEW b, NEW s, Len(s) \in Nat
  PROVE  \E up : Rounds("values", 0, b, s, up) /\ InOrder(AddOperand, b, s) = up[Len(s)]
<1> DEFINE Is(up) == up = [k \in 0 .. Len(s) |-> IF k = 0 THEN b ELSE IfOk(up[k - 1], AddOperand(up[k - 1], s[k]))]
           last == CHOOSE up : Is(up)
<1>1. InOrder(AddOperand, b, s) = last[Len(s)]
  BY DEF InOrder
<1>2. \A x, e : Round("values", 0, x, e) = IfOk(x, AddOperand(x, e))
  BY DEF Round
<1>3. PICK up : IsLoop("values", 0, b, s, Len(s), up)
  BY LoopExists
<1>4. Is(up)
  BY <1>2, <1>3 DEF IsLoop
<1>5. Is(last)
  BY <1>4
<1> HIDE DEF last
<1>6. IsLoop("values", 0, b, s, Len(s), last)
  BY <1>2, <1>5 DEF IsLoop
<1> QED
  BY <1>1, <1>6, LoopOver

LEMMA TensorsLoop ==
  ASSUME NEW b, NEW s, Len(s) \in Nat
  PROVE  \E up : Rounds("tensors", 0, b, s, up) /\ InOrder(TensorValue, b, s) = up[Len(s)]
<1> DEFINE Is(up) == up = [k \in 0 .. Len(s) |-> IF k = 0 THEN b ELSE IfOk(up[k - 1], TensorValue(up[k - 1], s[k]))]
           last == CHOOSE up : Is(up)
<1>1. InOrder(TensorValue, b, s) = last[Len(s)]
  BY DEF InOrder
<1>2. \A x, e : Round("tensors", 0, x, e) = IfOk(x, TensorValue(x, e))
  BY DEF Round
<1>3. PICK up : IsLoop("tensors", 0, b, s, Len(s), up)
  BY LoopExists
<1>4. Is(up)
  BY <1>2, <1>3 DEF IsLoop
<1>5. Is(last)
  BY <1>4
<1> HIDE DEF last
<1>6. IsLoop("tensors", 0, b, s, Len(s), last)
  BY <1>2, <1>5 DEF IsLoop
<1> QED
  BY <1>1, <1>6, LoopOver

LEMMA ResultsLoop ==
  ASSUME NEW f, NEW id, NEW s, Len(s) \in Nat
  PROVE  \E up : /\ Rounds("results", id, [fn |-> f, resultCount |-> 0], s, up)
                 /\ MapResults(f, id, s) = up[Len(s)].fn
<1> DEFINE b == [fn |-> f, resultCount |-> 0]
           Is(up) == up = [k \in 0 .. Len(s) |-> IF k = 0 THEN b ELSE MapResult(up[k - 1], id, s[k])]
           last == CHOOSE up : Is(up)
<1>1. MapResults(f, id, s) = last[Len(s)].fn
  BY DEF MapResults
<1>2. \A x, e : Round("results", id, x, e) = MapResult(x, id, e)
  BY DEF Round
<1>3. PICK up : IsLoop("results", id, b, s, Len(s), up)
  BY LoopExists
<1>4. Is(up)
  BY <1>2, <1>3 DEF IsLoop
<1>5. Is(last)
  BY <1>4
<1> HIDE DEF last
<1>6. IsLoop("results", id, b, s, Len(s), last)
  BY <1>2, <1>5 DEF IsLoop
<1> QED
  BY <1>1, <1>6, LoopOver

-----------------------------------------------------------------------------
\* Builders

IsBuilder(b) ==
  /\ b.ok \in BOOLEAN /\ WellFormed(b.fn) /\ IsList(b.values)
  /\ \A k \in 1 .. Len(b.values) : Defined(b.fn, b.values[k])

\* What c has made of b's function.
Further(f, c) == IsBuilder(c) /\ Grows(f, c.fn)

\* The same where a value may be one of N.
IsBuilderBut(b, N) ==
  /\ b.ok \in BOOLEAN /\ WellFormed(b.fn) /\ IsList(b.values)
  /\ \A k \in 1 .. Len(b.values) : Defined(b.fn, b.values[k]) \/ b.values[k] \in N
FurtherBut(f, c, N) == IsBuilderBut(c, N) /\ Grows(f, c.fn)

LEMMA ButNothing ==
  ASSUME NEW b
  PROVE  /\ IsBuilder(b) <=> IsBuilderBut(b, {})
         /\ \A f : Further(f, b) <=> FurtherBut(f, b, {})
BY DEF IsBuilder, IsBuilderBut, Further, FurtherBut

LEMMA ButMore ==
  ASSUME NEW f, NEW c, Further(f, c), NEW N
  PROVE  FurtherBut(f, c, N)
BY DEF IsBuilder, IsBuilderBut, Further, FurtherBut

LEMMA FurtherSame ==
  ASSUME NEW b, IsBuilder(b)
  PROVE  Further(b.fn, b)
BY GrowsSame DEF Further, IsBuilder

LEMMA FurtherOn ==
  ASSUME NEW f, NEW g, Grows(f, g), NEW c, Further(g, c)
  PROVE  Further(f, c)
BY GrowsOn DEF Further

LEMMA FurtherButOn ==
  ASSUME NEW N, NEW f, NEW g, Grows(f, g), NEW c, FurtherBut(g, c, N)
  PROVE  FurtherBut(f, c, N)
BY GrowsOn DEF FurtherBut

LEMMA NewBuilder ==
  ASSUME NEW f, WellFormed(f)
  PROVE  Further(f, Builder(f)) /\ Builder(f).ok /\ Builder(f).fn = f
BY GrowsSame, EmptyList DEF Builder, Further, IsBuilder

LEMMA RefusedBuilder ==
  ASSUME NEW N, NEW b, IsBuilderBut(b, N)
  PROVE  FurtherBut(b.fn, Refuse(b), N) /\ Refuse(b).fn = b.fn
BY GrowsSame DEF Refuse, FurtherBut, IsBuilderBut

LEMMA ValueAdded ==
  ASSUME NEW N, NEW b, IsBuilderBut(b, N), NEW g, Grows(b.fn, g),
         NEW v, Defined(g, v) \/ v \in N
  PROVE  FurtherBut(b.fn, AddValue(b, g, v), N) /\ AddValue(b, g, v).ok = b.ok
<1> DEFINE vs == Append(b.values, v)
           c == AddValue(b, g, v)
<1>1. PICK n \in Nat : n = Len(b.values)
  BY ListLength DEF IsBuilderBut
<1>2. /\ IsList(vs) /\ Len(vs) = n + 1
      /\ vs[n + 1] = v /\ \A i \in 1 .. n : vs[i] = b.values[i]
  BY <1>1, ListAppend DEF IsBuilderBut
<1>3. c.fn = g /\ c.values = vs /\ c.ok = b.ok
  BY DEF AddValue
<1> HIDE DEF vs, c
<1>4. \A i \in 1 .. n + 1 : Defined(g, vs[i]) \/ vs[i] \in N
  <2> SUFFICES ASSUME NEW i \in 1 .. n + 1 PROVE Defined(g, vs[i]) \/ vs[i] \in N
    OBVIOUS
  <2>1. CASE i = n + 1
    BY <1>2, <2>1
  <2>2. CASE i \in 1 .. n
    BY <1>1, <1>2, <2>2 DEF IsBuilderBut, Grows
  <2> QED
    BY <2>1, <2>2
<1> QED
  BY <1>2, <1>3, <1>4 DEF FurtherBut, IsBuilderBut, Grows, c

LEMMA ConstantAdded ==
  ASSUME NEW N, NEW b, IsBuilderBut(b, N), NEW name, name # "std.return", NEW attr
  PROVE  FurtherBut(b.fn, ConstantValue(b, name, attr), N)
<1>1. WellFormed(b.fn)
  BY DEF IsBuilderBut
<1>2. PICK g : g = InsertConstantOp(b.fn, name, attr)
  OBVIOUS
<1>3. Grows(b.fn, g) /\ Defined(g, Value(NextId(b.fn), 1))
  BY <1>1, <1>2, ConstantGrows
<1> QED
  BY <1>2, <1>3, ValueAdded DEF ConstantValue

LEMMA TensorAdded ==
  ASSUME NEW N, NEW b, IsBuilderBut(b, N), NEW t
  PROVE  /\ FurtherBut(b.fn, TensorValue(b, t), N)
         /\ TensorValue(b, t).ok => Len(TensorValue(b, t).values) = Len(b.values) + 1
<1>1. WellFormed(b.fn)
  BY DEF IsBuilderBut
<1>0. TensorValue(b, t).ok => Len(TensorValue(b, t).values) = Len(b.values) + 1
  <2>1. \A f, v : Len(AddValue(b, f, v).values) = Len(b.values) + 1
    BY ListAppend DEF AddValue, IsBuilderBut
  <2>2. ~ Refuse(b).ok
    BY DEF Refuse
  <2> QED
    BY <2>1, <2>2 DEF TensorValue, ImportTensorByValue
<1>2. CASE LookupTensor(b.fn, t) # NoValue
  <2>1. TensorValue(b, t) = AddValue(b, b.fn, LookupTensor(b.fn, t))
    BY <1>2 DEF TensorValue
  <2> QED
    BY <1>0, <1>1, <1>2, <2>1, LookupDefined, GrowsSame, ValueAdded
<1>3. CASE LookupTensor(b.fn, t) = NoValue /\ ~ CanConvert(t)
  <2>1. TensorValue(b, t) = Refuse(b)
    BY <1>3 DEF TensorValue, ImportTensorByValue
  <2> QED
    BY <1>0, <2>1, RefusedBuilder
<1>4. CASE LookupTensor(b.fn, t) = NoValue /\ CanConvert(t)
  <2>1. PICK f : f = CreateOperationAtEnd(b.fn, "torch.tensor.literal", <<>>, 1, ContentOf(heap, t))
    OBVIOUS
  <2>2. PICK v : v = Value(NextId(b.fn), 1)
    OBVIOUS
  <2>3. Grows(b.fn, f) /\ Defined(f, v)
    <3>1. Len(<<>>) \in Nat /\ \A k \in 1 .. Len(<<>>) : Defined(b.fn, <<>>[k])
      BY EmptyList
    <3>2. Grows(b.fn, f) /\ \A k \in 1 .. 1 : Defined(f, Value(NextId(b.fn), k))
      BY <1>1, <2>1, <3>1, AtEndGrows
    <3> QED
      BY <2>2, <3>2
  <2>4. Grows(f, MapTensor(f, t, v))
    BY <2>3, MapTensorGrows DEF Grows
  <2>5. Grows(b.fn, MapTensor(f, t, v)) /\ Defined(MapTensor(f, t, v), v)
    <3>1. Grows(b.fn, MapTensor(f, t, v))
      BY <2>3, <2>4, GrowsOn
    <3>2. \A w : Defined(f, w) => Defined(MapTensor(f, t, v), w)
      BY <2>4 DEF Grows
    <3> QED
      BY <2>3, <3>1, <3>2
  <2>6. TensorValue(b, t) = AddValue(b, MapTensor(f, t, v), v)
    BY <1>4, <2>1, <2>2 DEF TensorValue, ImportTensorByValue
  <2> QED
    BY <1>0, <2>5, <2>6, ValueAdded
<1> QED
  BY <1>2, <1>3, <1>4

Mappable(ival) == ival.kind \in {"scalar", "tensor", "none", "undefined"}

LEMMA LeafAdded ==
  ASSUME NEW N, NEW b, IsBuilderBut(b, N), NEW ival, Mappable(ival) \/ NoValue \in N
  PROVE  FurtherBut(b.fn, MapLeaf(b, ival), N)
<1>1. CASE ival.kind = "scalar"
  BY <1>1, ConstantAdded DEF MapLeaf
<1>2. CASE ival.kind = "tensor"
  BY <1>2, TensorAdded DEF MapLeaf
<1>3. CASE ival.kind \in {"none", "undefined"}
  BY <1>3, ConstantAdded DEF MapLeaf
<1>4. CASE ~ Mappable(ival)
  <2>1. MapLeaf(b, ival) = AddValue(b, b.fn, NoValue)
    BY <1>4 DEF MapLeaf, Mappable
  <2>2. Grows(b.fn, b.fn)
    BY GrowsSame DEF IsBuilderBut
  <2> QED
    BY <1>4, <2>1, <2>2, ValueAdded
<1> QED
  BY <1>1, <1>2, <1>3, <1>4 DEF Mappable

\* A loop whose rounds keep its builder one.
LEMMA LoopAdded ==
  ASSUME NEW loop, NEW N, NEW f, NEW b, FurtherBut(f, b, N), NEW s, Len(s) \in Nat,
         NEW up, Rounds(loop, 0, b, s, up),
         \A i \in 1 .. Len(s) : \A x : IsBuilderBut(x, N) => FurtherBut(x.fn, Round(loop, 0, x, s[i]), N)
  PROVE  FurtherBut(f, up[Len(s)], N)
<1> DEFINE S == {k \in Nat : k <= Len(s) => FurtherBut(f, up[k], N)}
<1>1. 0 \in S
  BY DEF Rounds
<1>2. ASSUME NEW k \in Nat, k \in S
      PROVE  k + 1 \in S
  <2> SUFFICES ASSUME k + 1 <= Len(s) PROVE FurtherBut(f, up[k + 1], N)
    OBVIOUS
  <2>1. PICK x : x = up[k] /\ FurtherBut(f, x, N)
    BY <1>2
  <2>2. k + 1 \in 1 .. Len(s) /\ (k + 1) - 1 = k
    OBVIOUS
  <2>3. up[k + 1] = Round(loop, 0, x, s[k + 1])
    BY <2>1, <2>2 DEF Rounds
  <2>4. FurtherBut(x.fn, up[k + 1], N)
    BY <2>1, <2>2, <2>3 DEF FurtherBut
  <2> QED
    BY <2>1, <2>4, FurtherButOn DEF FurtherBut
<1>3. Len(s) \in S
  <2> HIDE DEF S
  <2> QED
    BY <1>1, <1>2, SetInduction
<1> QED
  BY <1>3

\* The list made of what a loop over its elements has built.
ListOfBuilt(b, e) ==
  IF ~ e.ok THEN [fn |-> e.fn, values |-> b.values, ok |-> FALSE]
  ELSE AddValue(b, InsertBeforeTerminator(e.fn, "torch.prim.ListConstruct", e.values, 1),
                Value(NextId(e.fn), 1))

LEMMA ListAdded ==
  ASSUME NEW N, NEW b, IsBuilderBut(b, N), NEW e, FurtherBut(b.fn, e, {NoValue})
  PROVE  FurtherBut(b.fn, ListOfBuilt(b, e), N)
<1>1. CASE ~ e.ok
  <2>1. PICK c : c = ListOfBuilt(b, e)
    OBVIOUS
  <2>2. c.fn = e.fn /\ c.values = b.values /\ c.ok = FALSE
    BY <1>1, <2>1 DEF ListOfBuilt
  <2>3. \A k \in 1 .. Len(c.values) : Defined(c.fn, c.values[k]) \/ c.values[k] \in N
    BY <2>2 DEF FurtherBut, IsBuilderBut, Grows
  <2> QED
    BY <2>1, <2>2, <2>3 DEF FurtherBut, IsBuilderBut
<1>2. CASE e.ok
  <2>1. PICK f : f = e.fn
    OBVIOUS
  <2>2. PICK op : op = Operation(NextId(f), "torch.prim.ListConstruct", e.values, 1, NoAttr)
    OBVIOUS
  <2>3. PICK g : g = [f EXCEPT !.block = Append(@, op)]
    OBVIOUS
  <2>4. /\ op.id = NextId(f) /\ op.name = "torch.prim.ListConstruct" /\ op.operands = e.values
        /\ op.results = 1 /\ ~ IsTerminator(op)
    BY <2>2, OperationIs
  <2>5. ListOfBuilt(b, e) = AddValue(b, g, Value(NextId(f), 1))
    BY <1>2, <2>1, <2>2, <2>3 DEF ListOfBuilt, InsertBeforeTerminator
  <2>6. /\ WellFormed(f) /\ Len(op.operands) \in Nat
        /\ \A k \in 1 .. Len(op.operands) : Defined(f, op.operands[k]) \/ NullElement(op, k)
    BY <2>1, <2>4, ListLength DEF FurtherBut, IsBuilderBut, NullElement
  <2>7. SetsBlock(f, Append(f.block, op), g)
    BY <2>3 DEF SetsBlock
  <2>10. /\ WellFormed(f) /\ op.id = NextId(f) /\ op.results \in Nat
         /\ ~ IsTerminator(op) /\ Len(op.operands) \in Nat
         /\ \A k \in 1 .. Len(op.operands) : Defined(f, op.operands[k]) \/ NullElement(op, k)
    BY <2>4, <2>6
  <2>8. Grows(f, g) /\ \A k \in 1 .. op.results : Defined(g, Value(op.id, k))
    BY <2>7, <2>10, AppendedGrows
  <2>9. Grows(b.fn, g) /\ Defined(g, Value(NextId(f), 1))
    BY <2>1, <2>4, <2>8, GrowsOn DEF FurtherBut
  <2> QED
    BY <2>5, <2>9, ValueAdded
<1> QED
  BY <1>1, <1>2

LEMMA ElementAdded ==
  ASSUME NEW b, IsBuilderBut(b, {NoValue}),
         NEW ival, ival.kind = "list" => Len(ival.elements) \in Nat
  PROVE  FurtherBut(b.fn, MapElement(b, ival), {NoValue})
<1>1. CASE ival.kind # "list"
  BY <1>1, LeafAdded DEF MapElement
<1>2. CASE ival.kind = "list"
  <2>1. PICK s, f, d : s = ival.elements /\ f = b.fn /\ d = Builder(f)
    OBVIOUS
  <2>2. PICK up : Rounds("leaves", 0, d, s, up) /\ InOrder(MapLeaf, d, s) = up[Len(s)]
    BY <1>2, <2>1, LeavesLoop
  <2>3. FurtherBut(f, d, {NoValue})
    BY <2>1, NewBuilder, ButMore DEF IsBuilderBut
  <2>4. ASSUME NEW i \in 1 .. Len(s), NEW x, IsBuilderBut(x, {NoValue})
        PROVE  FurtherBut(x.fn, Round("leaves", 0, x, s[i]), {NoValue})
    <3>1. Round("leaves", 0, x, s[i]) \in {x, MapLeaf(x, s[i])}
      BY DEF Round, IfOk
    <3>2. FurtherBut(x.fn, x, {NoValue})
      BY <2>4, GrowsSame DEF FurtherBut, IsBuilderBut
    <3>3. FurtherBut(x.fn, MapLeaf(x, s[i]), {NoValue})
      BY <2>4, LeafAdded
    <3> QED
      BY <3>1, <3>2, <3>3
  <2>5. PICK e : e = InOrder(MapLeaf, d, s)
    OBVIOUS
  <2>6. FurtherBut(f, e, {NoValue})
    BY <1>2, <2>1, <2>2, <2>3, <2>4, <2>5, LoopAdded
  <2>7. MapElement(b, ival) = ListOfBuilt(b, e)
    BY <1>2, <2>1, <2>5 DEF MapElement, MapList, ListOfBuilt
  <2> QED
    BY <2>1, <2>6, <2>7, ListAdded
<1> QED
  BY <1>1, <1>2

LEMMA IValueAdded ==
  ASSUME NEW b, IsBuilder(b), NEW ival, HasLength(ival), Mappable(ival) \/ ival.kind = "list"
  PROVE  Further(b.fn, MapIValueToMlirValue(b, ival))
<1>0. IsBuilderBut(b, {})
  BY ButNothing
<1>1. CASE ival.kind # "list"
  BY <1>0, <1>1, LeafAdded, ButNothing DEF MapIValueToMlirValue
<1>2. CASE ival.kind = "list"
  <2>1. PICK s, f, d : s = ival.elements /\ f = b.fn /\ d = Builder(f)
    OBVIOUS
  <2>2. PICK up : Rounds("elements", 0, d, s, up) /\ InOrder(MapElement, d, s) = up[Len(s)]
    BY <1>2, <2>1, ElementsLoop DEF HasLength
  <2>3. FurtherBut(f, d, {NoValue})
    BY <2>1, NewBuilder, ButMore DEF IsBuilder
  <2>4. ASSUME NEW i \in 1 .. Len(s), NEW x, IsBuilderBut(x, {NoValue})
        PROVE  FurtherBut(x.fn, Round("elements", 0, x, s[i]), {NoValue})
    <3>1. Round("elements", 0, x, s[i]) \in {x, MapElement(x, s[i])}
      BY DEF Round, IfOk
    <3>2. FurtherBut(x.fn, x, {NoValue})
      BY <2>4, GrowsSame DEF FurtherBut, IsBuilderBut
    <3>3. FurtherBut(x.fn, MapElement(x, s[i]), {NoValue})
      BY <1>2, <2>1, <2>4, ElementAdded DEF HasLength
    <3> QED
      BY <3>1, <3>2, <3>3
  <2>5. PICK e : e = InOrder(MapElement, d, s)
    OBVIOUS
  <2>6. FurtherBut(f, e, {NoValue})
    BY <1>2, <2>1, <2>2, <2>3, <2>4, <2>5, LoopAdded DEF HasLength
  <2>7. MapIValueToMlirValue(b, ival) = ListOfBuilt(b, e)
    BY <1>2, <2>1, <2>5 DEF MapIValueToMlirValue, MapList, ListOfBuilt
  <2>8. FurtherBut(b.fn, MapIValueToMlirValue(b, ival), {})
    BY <1>0, <2>1, <2>6, <2>7, ListAdded
  <2> QED
    BY <2>8, ButNothing
<1> QED
  BY <1>1, <1>2

\* An operand is what the IValue is mapped to, or refused; a null value is refused.
LEMMA OperandIs ==
  ASSUME NEW b, NEW ival
  PROVE  AddOperand(b, ival) \in {Refuse(b), MapIValueToMlirValue(b, ival)}
BY DEF AddOperand

LEMMA NullRefused ==
  ASSUME NEW b, IsBuilder(b), b.ok, NEW ival, ~ Mappable(ival), ival.kind # "list"
  PROVE  AddOperand(b, ival) = Refuse(b)
<1>1. PICK c : c = AddValue(b, b.fn, NoValue)
  OBVIOUS
<1>2. MapIValueToMlirValue(b, ival) = c
  BY <1>1 DEF MapIValueToMlirValue, MapLeaf, Mappable
<1>3. c.ok /\ c.values = Append(b.values, NoValue)
  BY <1>1 DEF AddValue
<1>4. PICK n \in Nat : n = Len(b.values)
  BY ListLength DEF IsBuilder
<1>5. Len(c.values) = n + 1 /\ c.values[n + 1] = NoValue
  BY <1>3, <1>4, ListAppend DEF IsBuilder
<1>6. Last(c.values) = NoValue
  BY <1>5 DEF Last
<1> QED
  BY <1>2, <1>3, <1>6 DEF AddOperand

LEMMA OperandAdded ==
  ASSUME NEW b, IsBuilder(b), b.ok, NEW ival, HasLength(ival)
  PROVE  Further(b.fn, AddOperand(b, ival))
<1>1. Further(b.fn, Refuse(b))
  BY RefusedBuilder, ButNothing
<1>2. CASE Mappable(ival) \/ ival.kind = "list"
  BY <1>1, <1>2, IValueAdded, OperandIs
<1>3. CASE ~ (Mappable(ival) \/ ival.kind = "list")
  BY <1>1, <1>3, NullRefused
<1> QED
  BY <1>2, <1>3

LEMMA OperandsAdded ==
  ASSUME NEW f, WellFormed(f), NEW args, Len(args) \in Nat,
         \A i \in 1 .. Len(args) : HasLength(args[i])
  PROVE  Further(f, AddOperands(f, args))
<1>1. PICK b : b = Builder(f)
  OBVIOUS
<1>2. PICK up : Rounds("values", 0, b, args, up) /\ InOrder(AddOperand, b, args) = up[Len(args)]
  BY ValuesLoop
<1>3. FurtherBut(f, b, {})
  BY <1>1, NewBuilder, ButMore
<1>4. ASSUME NEW i \in 1 .. Len(args), NEW x, IsBuilderBut(x, {})
      PROVE  FurtherBut(x.fn, Round("values", 0, x, args[i]), {})
  <2>1. IsBuilder(x)
    BY <1>4, ButNothing
  <2>2. CASE x.ok
    <3>1. Round("values", 0, x, args[i]) = AddOperand(x, args[i])
      BY <2>2 DEF Round, IfOk
    <3>2. Further(x.fn, AddOperand(x, args[i]))
      BY <2>1, <2>2, OperandAdded
    <3> QED
      BY <3>1, <3>2, ButNothing
  <2>3. CASE ~ x.ok
    <3>1. Round("values", 0, x, args[i]) = x
      BY <2>3 DEF Round, IfOk
    <3> QED
      BY <2>1, <3>1, FurtherSame, ButNothing
  <2> QED
    BY <2>2, <2>3
<1>5. FurtherBut(f, up[Len(args)], {})
  BY <1>2, <1>3, <1>4, LoopAdded
<1> QED
  BY <1>1, <1>2, <1>5, ButNothing DEF AddOperands

LEMMA TensorsAdded ==
  ASSUME NEW f, WellFormed(f), NEW s, Len(s) \in Nat
  PROVE  LET b == InOrder(TensorValue, Builder(f), s)
         IN  Further(f, b) /\ (b.ok => Len(b.values) = Len(s))
<1> DEFINE b == Builder(f)
<1>0. Further(f, b) /\ b.fn = f /\ Len(b.values) = 0
  BY NewBuilder, EmptyList DEF Builder
<1> HIDE DEF b
<1>1. PICK up : Rounds("tensors", 0, b, s, up) /\ InOrder(TensorValue, b, s) = up[Len(s)]
  BY TensorsLoop
<1> DEFINE S == {k \in Nat : k <= Len(s) => Further(f, up[k]) /\ (up[k].ok => Len(up[k].values) = k)}
<1>2. 0 \in S
  BY <1>0, <1>1 DEF Rounds
<1>3. ASSUME NEW k \in Nat, k \in S
      PROVE  k + 1 \in S
  <2> SUFFICES ASSUME k + 1 <= Len(s)
               PROVE  Further(f, up[k + 1]) /\ (up[k + 1].ok => Len(up[k + 1].values) = k + 1)
    OBVIOUS
  <2>1. Further(f, up[k]) /\ (up[k].ok => Len(up[k].values) = k)
    BY <1>3
  <2>2. k + 1 \in 1 .. Len(s) /\ (k + 1) - 1 = k
    OBVIOUS
  <2>3. up[k + 1] = Round("tensors", 0, up[k], s[k + 1])
    BY <1>1, <2>2 DEF Rounds
  <2>4. up[k + 1] = IF up[k].ok THEN TensorValue(up[k], s[k + 1]) ELSE up[k]
    BY <2>3 DEF Round, IfOk
  <2>5. LET c == TensorValue(up[k], s[k + 1])
        IN  Further(up[k].fn, c) /\ (c.ok => Len(c.values) = Len(up[k].values) + 1)
    BY <2>1, TensorAdded, ButNothing DEF Further
  <2>6. Further(f, TensorValue(up[k], s[k + 1]))
    BY <2>1, <2>5, FurtherOn DEF Further
  <2> QED
    BY <2>1, <2>4, <2>5, <2>6
<1>4. Len(s) \in S
  <2> HIDE DEF S
  <2> QED
    BY <1>2, <1>3, SetInduction
<1> QED
  BY <1>1, <1>4 DEF b

LEMMA ResultsMapped ==
  ASSUME NEW f, WellFormed(f), NEW id, NEW s, Len(s) \in Nat,
         \A k \in 1 .. Len(s) : Defined(f, Value(id, k))
  PROVE  Grows(f, MapResults(f, id, s))
<1>1. PICK up : /\ Rounds("results", id, [fn |-> f, resultCount |-> 0], s, up)
                /\ MapResults(f, id, s) = up[Len(s)].fn
  BY ResultsLoop
<1> DEFINE S == {k \in Nat : k <= Len(s) => Grows(f, up[k].fn) /\ up[k].resultCount \in 0 .. k}
<1>2. 0 \in S
  BY <1>1, GrowsSame DEF Rounds
<1>3. ASSUME NEW k \in Nat, k \in S
      PROVE  k + 1 \in S
  <2> SUFFICES ASSUME k + 1 <= Len(s)
               PROVE  Grows(f, up[k + 1].fn) /\ up[k + 1].resultCount \in 0 .. k + 1
    OBVIOUS
  <2>1. Grows(f, up[k].fn) /\ up[k].resultCount \in 0 .. k
    BY <1>3
  <2>2. k + 1 \in 1 .. Len(s) /\ (k + 1) - 1 = k
    OBVIOUS
  <2>3. up[k + 1] = MapResult(up[k], id, s[k + 1])
    BY <1>1, <2>2 DEF Rounds, Round
  <2>4. PICK count : count = up[k].resultCount + 1
    OBVIOUS
  <2>5. count \in 1 .. Len(s) /\ count \in 0 .. k + 1
    BY <2>1, <2>4
  <2>6. Defined(up[k].fn, Value(id, count)) /\ WellFormed(up[k].fn)
    BY <2>1, <2>5 DEF Grows
  <2>7. Grows(f, MapTensor(up[k].fn, s[k + 1].tensor, Value(id, count)))
    BY <2>1, <2>6, MapTensorGrows, GrowsOn
  <2>8. CASE IsTensorResult(s[k + 1])
    BY <2>3, <2>4, <2>5, <2>7, <2>8 DEF MapResult
  <2>9. CASE ~ IsTensorResult(s[k + 1])
    BY <2>1, <2>3, <2>9 DEF MapResult
  <2> QED
    BY <2>8, <2>9
<1>4. Len(s) \in S
  <2> HIDE DEF S
  <2> QED
    BY <1>2, <1>3, SetInduction
<1> QED
  BY <1>1, <1>4

LEMMA RecordGrows ==
  ASSUME NEW f, WellFormed(f), NEW name, name # "std.return", NEW operands, Len(operands) \in Nat,
         \A k \in 1 .. Len(operands) : Defined(f, operands[k]), NEW results, Len(results) \in Nat
  PROVE  Grows(f, Record(f, name, operands, results))
<1>1. PICK g : g = CreateOperationFromSchema(f, name, operands, results)
  OBVIOUS
<1>2. Grows(f, g) /\ \A k \in 1 .. Len(results) : Defined(g, Value(NextId(f), k))
  BY <1>1, AtEndGrows DEF CreateOperationFromSchema
<1>3. Grows(g, MapResults(g, NextId(f), results))
  BY <1>2, ResultsMapped DEF Grows
<1> QED
  BY <1>1, <1>2, <1>3, GrowsOn DEF Record

LEMMA RunResults ==
  ASSUME NEW h, NEW name, NEW args
  PROVE  Len(Run(h, name, args).results) \in Nat
<1>1. CASE IsBackward(name)
  BY <1>1 DEF Run, BackwardOf
<1>2. CASE ~ IsBackward(name)
  BY <1>2 DEF Run
<1> QED
  BY <1>1, <1>2

\* The return and what it makes of a function without one.
Closes(f, operands, count, g) ==
  g = RewriteFuncReturnTypes(InsertBeforeTerminator(f, "std.return", operands, 0), count)

LEMMA ReturnCloses ==
  ASSUME NEW f, WellFormed(f), HasNoReturn(f), NEW operands, Len(operands) \in Nat,
         \A k \in 1 .. Len(operands) : Defined(f, operands[k]),
         NEW count, count = Len(operands), NEW g, Closes(f, operands, count, g)
  PROVE  /\ WellFormed(g) /\ ReturnIsLast(g)
         /\ \A v : Defined(f, v) => Defined(g, v)
         /\ \E i \in 1 .. Len(g.block) :
              IsTerminator(g.block[i]) /\ Len(g.block[i].operands) = g.results
<1> DEFINE op == Operation(NextId(f), "std.return", operands, 0, NoAttr)
           t == Append(f.block, op)
           h == InsertBeforeTerminator(f, "std.return", operands, 0)
<1>1. PICK n \in Nat : n = Len(f.block) /\ IsList(f.block)
  BY ListLength DEF WellFormed, IsFunction
<1>2. /\ op.id = NextId(f) /\ op.operands = operands /\ op.results = 0 /\ IsTerminator(op)
  BY OperationIs
<1>3. SetsBlock(f, t, h)
  BY DEF InsertBeforeTerminator, SetsBlock
<1> HIDE DEF op, h
<1>4. Inserted(f.block, t, n + 1, op)
  BY <1>1, AppendInserts
<1>5. IsList(t) /\ Len(t) = n + 1 /\ t[n + 1] = op /\ \A i \in 1 .. n : t[i] = f.block[i]
  BY <1>1, <1>4 DEF Inserted
<1> HIDE DEF t
<1>6. /\ IsFunction(h) /\ h.block = t /\ h.args = f.args /\ h.tensorValueMap = f.tensorValueMap
  BY <1>1, <1>3, <1>5, WithBlock DEF WellFormed
<1>12. SetsResults(h, count, g)
  BY DEF Closes, RewriteFuncReturnTypes, SetsResults, h
<1>7. /\ IsFunction(g) /\ g.block = t /\ g.args = f.args /\ g.results = count
      /\ g.tensorValueMap = f.tensorValueMap
  BY <1>6, <1>12, WithResults
<1>8. Fits(f, op, n + 1)
  BY <1>1, <1>2 DEF Fits, Has, Defined
<1>9. WellFormed(g) /\ \A v : Defined(f, v) => Defined(g, v)
  BY <1>4, <1>7, <1>8, InsertOperation
<1>10. ReturnIsLast(g)
  BY <1>1, <1>5, <1>7 DEF ReturnIsLast, HasNoReturn
<1>11. n + 1 \in 1 .. Len(g.block) /\ g.block[n + 1] = op
  BY <1>5, <1>7
<1> QED
  BY <1>2, <1>7, <1>9, <1>10, <1>11

-----------------------------------------------------------------------------
\* Controllers and call stacks

LEMMA ListCons ==
  ASSUME NEW s, IsList(s), NEW e
  PROVE  /\ IsList(<<e>> \o s) /\ Len(<<e>> \o s) = Len(s) + 1
         /\ \A i \in 1 .. Len(<<e>> \o s) : (<<e>> \o s)[i] = IF i = 1 THEN e ELSE s[i - 1]
<1>1. PICK S : s \in Seq(S)
  BY DEF IsList
<1>2. PICK T : T = S \cup {e}
  OBVIOUS
<1>3. s \in Seq(T) /\ <<e>> \in Seq(T) /\ Len(<<e>>) = 1 /\ Len(s) \in Nat
  BY <1>1, <1>2, Widened
<1>4. /\ <<e>> \o s \in Seq(T) /\ Len(<<e>> \o s) = 1 + Len(s)
      /\ \A i \in 1 .. 1 + Len(s) : (<<e>> \o s)[i] = IF i <= 1 THEN <<e>>[i] ELSE s[i - 1]
  BY <1>3, ConcatProperties
<1>5. \A i \in 1 .. 1 + Len(s) : i <= 1 <=> i = 1
  BY <1>3
<1> QED
  BY <1>3, <1>4, <1>5 DEF IsList

LEMMA ListTail ==
  ASSUME NEW s, IsList(s), s # <<>>
  PROVE  /\ Len(s) \in Nat \ {0} /\ Head(s) = s[1]
         /\ IsList(Tail(s)) /\ Len(Tail(s)) = Len(s) - 1
         /\ \A i \in 1 .. Len(Tail(s)) : Tail(s)[i] = s[i + 1]
<1>1. PICK S : s \in Seq(S)
  BY DEF IsList
<1> QED
  BY <1>1 DEF IsList

\* The kernels on the call stack of a thread are being recorded by the innermost
\* of its controllers.
ControllersInv ==
  /\ DOMAIN activeStack = Thread /\ DOMAIN frames = Thread
  /\ \A th \in Thread :
       /\ IsList(activeStack[th]) /\ IsList(frames[th])
       /\ frames[th] # <<>> => activeStack[th] # <<>>
       /\ \A i \in 1 .. Len(frames[th]) : frames[th][i].controller = Head(activeStack[th])

\* What the three interceptions have in common.
Begins(th, call) ==
  call \in Calls(heap) /\ activeStack[th] # <<>> /\ \E excluded : BeginKernel(th, call, excluded)

LEMMA KernelBegins ==
  ASSUME NEW th, NEW call,
         FallbackKernel(th, call) \/ UnboxedKernel(th, call) \/ NestedKernel(th, call)
  PROVE  Begins(th, call)
<1>1. /\ call \in Calls(heap) /\ Dispatched(th, call.op) \in {"fallback", "unboxed"}
      /\ \E excluded : BeginKernel(th, call, excluded)
  BY DEF FallbackKernel, UnboxedKernel, NestedKernel, Dispatch
<1>2. LiveKeys(th) # {}
  BY <1>1 DEF Dispatched
<1>3. activeStack[th] # <<>>
  BY <1>2 DEF LiveKeys, Included
<1> QED
  BY <1>1, <1>3 DEF Begins

\* What a step does to the stacks of a thread.
EntersOrExits(th) ==
  /\ frames[th] = <<>> /\ UNCHANGED frames
  /\ \E s : IsList(s) /\ activeStack' = [activeStack EXCEPT ![th] = s]
Calling(th) ==
  /\ UNCHANGED activeStack
  /\ \E s : /\ frames' = [frames EXCEPT ![th] = s]
            /\ \/ s = <<>>
               \/ frames[th] # <<>> /\ s = Tail(frames[th])
               \/ /\ activeStack[th] # <<>>
                  /\ \E fr : fr.controller = Head(activeStack[th]) /\ s = <<fr>> \o frames[th]

LEMMA BeginCalls ==
  ASSUME NEW th \in Thread, NEW call, Begins(th, call)
  PROVE  Calling(th)
<1>1. PICK excluded : BeginKernel(th, call, excluded)
  BY DEF Begins
<1> DEFINE c == Current(th)
           b == AddOperands(fn[c], RecordedArgs(call))
           fr == Frame(call, c, b.values, excluded)
<1>2. /\ UNCHANGED activeStack
      /\ frames' = IF b.ok THEN [frames EXCEPT ![th] = <<fr>> \o @] ELSE [frames EXCEPT ![th] = <<>>]
  BY <1>1 DEF BeginKernel
<1>3. fr.controller = Head(activeStack[th])
  BY DEF Frame, Current
<1> HIDE DEF fr, b
<1>4. CASE b.ok
  <2>1. frames' = [frames EXCEPT ![th] = <<fr>> \o frames[th]]
    BY <1>2, <1>4
  <2> QED
    BY <1>2, <1>3, <2>1 DEF Calling, Begins
<1>5. CASE ~ b.ok
  BY <1>2, <1>5 DEF Calling
<1> QED
  BY <1>4, <1>5

LEMMA StackSteps ==
  ASSUME ControllersInv, [Next]_vars
  PROVE  \/ UNCHANGED <<activeStack, frames>>
         \/ \E th \in Thread : EntersOrExits(th) \/ Calling(th)
<1>1. CASE UNCHANGED vars
  BY <1>1 DEF vars
<1>2. CASE \E c \in Controller, args \in ArgumentLists : StartCaptureFunction(c, args)
  BY <1>2 DEF StartCaptureFunction
<1>3. ASSUME NEW th \in Thread, NEW c \in Controller, ContextEnter(th, c)
      PROVE  EntersOrExits(th)
  <2>1. activeStack' = [activeStack EXCEPT ![th] = <<c>> \o activeStack[th]]
    BY <1>3 DEF ContextEnter
  <2>2. IsList(<<c>> \o activeStack[th])
    BY ListCons DEF ControllersInv
  <2> QED
    BY <1>3, <2>1, <2>2 DEF ContextEnter, Idle, EntersOrExits
<1>4. ASSUME NEW th \in Thread, ContextExit(th)
      PROVE  EntersOrExits(th)
  <2>1. activeStack' = [activeStack EXCEPT ![th] = Tail(activeStack[th])] /\ activeStack[th] # <<>>
    BY <1>4 DEF ContextExit
  <2>2. IsList(Tail(activeStack[th]))
    BY <2>1, ListTail DEF ControllersInv
  <2> QED
    BY <1>4, <2>1, <2>2 DEF ContextExit, Idle, EntersOrExits
<1>5. CASE \E th \in Thread, c \in Controller, t \in 1..Len(heap.storage) : Returns(th, c, <<t>>)
  BY <1>5 DEF Returns
<1>6. ASSUME NEW th \in Thread, NEW call, PassThrough(th, call) \/ RefusedKernel(th, call)
      PROVE  UNCHANGED <<activeStack, frames>>
  BY <1>6 DEF PassThrough, RefusedKernel
<1>7. ASSUME NEW th \in Thread, NEW call,
             FallbackKernel(th, call) \/ UnboxedKernel(th, call) \/ NestedKernel(th, call)
      PROVE  Calling(th)
  BY <1>7, KernelBegins, BeginCalls
<1>8. ASSUME NEW th \in Thread, KernelReturns(th)
      PROVE  Calling(th)
  <2>1. PICK ok \in BOOLEAN : frames' = [frames EXCEPT ![th] = IF ok THEN Tail(@) ELSE <<>>]
    <3> DEFINE ok == ResultsSupported(Run(heap, Head(frames[th]).call.op, Head(frames[th]).call.args).results)
    <3>1. frames' = [frames EXCEPT ![th] = IF ok THEN Tail(@) ELSE <<>>]
      BY <1>8 DEF KernelReturns
    <3>2. ok \in BOOLEAN
      BY DEF ResultsSupported
    <3> QED
      BY <3>1, <3>2
  <2>2. UNCHANGED activeStack /\ frames[th] # <<>>
    BY <1>8 DEF KernelReturns, Idle
  <2> QED
    BY <2>1, <2>2 DEF Calling
<1>9. ASSUME NEW th \in Thread, KernelThrows(th)
      PROVE  Calling(th)
  BY <1>9 DEF KernelThrows, Calling
<1> QED
  BY <1>1, <1>2, <1>3, <1>4, <1>5, <1>6, <1>7, <1>8, <1>9 DEF Next

LEMMA ControllersInit == Init => ControllersInv
<1> SUFFICES ASSUME Init PROVE ControllersInv
  OBVIOUS
<1>1. /\ activeStack = [th \in Thread |-> <<>>] /\ frames = [th \in Thread |-> <<>>]
  BY DEF Init
<1> QED
  BY <1>1, EmptyList DEF ControllersInv

LEMMA ControllersNext == ControllersInv /\ [Next]_vars => ControllersInv'
<1> SUFFICES ASSUME ControllersInv, [Next]_vars PROVE ControllersInv'
  OBVIOUS
<1>1. CASE UNCHANGED <<activeStack, frames>>
  BY <1>1 DEF ControllersInv
<1>2. ASSUME NEW th \in Thread, EntersOrExits(th)
      PROVE  ControllersInv'
  <2>1. PICK s : IsList(s) /\ activeStack' = [activeStack EXCEPT ![th] = s]
    BY <1>2 DEF EntersOrExits
  <2>2. frames[th] = <<>> /\ UNCHANGED frames /\ Len(frames[th]) = 0
    BY <1>2, EmptyList DEF EntersOrExits
  <2>3. \A u \in Thread : activeStack'[u] = IF u = th THEN s ELSE activeStack[u]
    BY <2>1 DEF ControllersInv
  <2>4. DOMAIN activeStack' = Thread
    BY <2>1 DEF ControllersInv
  <2> QED
    BY <2>1, <2>2, <2>3, <2>4 DEF ControllersInv
<1>3. ASSUME NEW th \in Thread, Calling(th)
      PROVE  ControllersInv'
  <2>1. PICK s : /\ frames' = [frames EXCEPT ![th] = s]
                 /\ \/ s = <<>>
                    \/ frames[th] # <<>> /\ s = Tail(frames[th])
                    \/ /\ activeStack[th] # <<>>
                       /\ \E fr : fr.controller = Head(activeStack[th]) /\ s = <<fr>> \o frames[th]
    BY <1>3 DEF Calling
  <2>2. UNCHANGED activeStack
    BY <1>3 DEF Calling
  <2>3. \A u \in Thread : frames'[u] = IF u = th THEN s ELSE frames[u]
    BY <2>1 DEF ControllersInv
  <2>4. DOMAIN frames' = Thread
    BY <2>1 DEF ControllersInv
  <2>5. IsList(frames[th]) /\ \A i \in 1 .. Len(frames[th]) : frames[th][i].controller = Head(activeStack[th])
    BY DEF ControllersInv
  <2>6. /\ IsList(s)
        /\ s # <<>> => activeStack[th] # <<>>
        /\ \A i \in 1 .. Len(s) : s[i].controller = Head(activeStack[th])
    <3>1. CASE s = <<>>
      BY <3>1, EmptyList
    <3>2. CASE frames[th] # <<>> /\ s = Tail(frames[th])
      <4>1. PICK n \in Nat : n = Len(frames[th])
        BY <2>5, ListLength
      <4>2. IsList(s) /\ Len(s) = n - 1 /\ \A i \in 1 .. Len(s) : s[i] = frames[th][i + 1]
        BY <2>5, <3>2, <4>1, ListTail
      <4>3. \A i \in 1 .. n - 1 : i + 1 \in 1 .. n
        OBVIOUS
      <4> QED
        BY <2>5, <3>2, <4>1, <4>2, <4>3 DEF ControllersInv
    <3>3. CASE /\ activeStack[th] # <<>>
               /\ \E fr : fr.controller = Head(activeStack[th]) /\ s = <<fr>> \o frames[th]
      <4>1. PICK fr : fr.controller = Head(activeStack[th]) /\ s = <<fr>> \o frames[th]
        BY <3>3
      <4>2. PICK n \in Nat : n = Len(frames[th])
        BY <2>5, ListLength
      <4>3. /\ IsList(s) /\ Len(s) = n + 1
            /\ \A i \in 1 .. Len(s) : s[i] = IF i = 1 THEN fr ELSE frames[th][i - 1]
        BY <2>5, <4>1, <4>2, ListCons
      <4>4. \A i \in 1 .. n + 1 : i # 1 => i - 1 \in 1 .. n
        OBVIOUS
      <4> QED
        BY <2>5, <3>3, <4>1, <4>2, <4>3, <4>4
    <3> QED
      BY <2>1, <3>1, <3>2, <3>3
  <2> QED
    BY <2>2, <2>3, <2>4, <2>6 DEF ControllersInv
<1> QED
  BY <1>1, <1>2, <1>3, StackSteps

\* A tensor that is refused leaves the function as it was.
LEMMA OneTensor ==
  ASSUME NEW f, NEW t
  PROVE  LET b == InOrder(TensorValue, Builder(f), <<t>>)
         IN  b.ok \in BOOLEAN /\ (~ b.ok => b.fn = f)
<1>1. PICK up : /\ Rounds("tensors", 0, Builder(f), <<t>>, up)
                /\ InOrder(TensorValue, Builder(f), <<t>>) = up[1]
  <2>1. Len(<<t>>) = 1
    OBVIOUS
  <2> QED
    BY <2>1, TensorsLoop
<1>2. Builder(f).ok = TRUE /\ Builder(f).fn = f
  BY DEF Builder
<1>3. up[1] = TensorValue(Builder(f), t)
  <2>1. 1 \in 1 .. Len(<<t>>) /\ 1 - 1 = 0 /\ <<t>>[1] = t
    OBVIOUS
  <2>2. up[0] = Builder(f) /\ up[1] = Round("tensors", 0, up[0], t)
    BY <1>1, <2>1 DEF Rounds
  <2> QED
    BY <1>2, <2>2 DEF Round, IfOk
<1>4. ASSUME NEW b, b.ok = TRUE
      PROVE  TensorValue(b, t).ok \in BOOLEAN /\ (~ TensorValue(b, t).ok => TensorValue(b, t).fn = b.fn)
  <2>1. Refuse(b).ok = FALSE /\ Refuse(b).fn = b.fn
    BY DEF Refuse
  <2>2. \A g, v : AddValue(b, g, v).ok = TRUE
    BY <1>4 DEF AddValue
  <2>3. TensorValue(b, t) = Refuse(b) \/ \E g, v : TensorValue(b, t) = AddValue(b, g, v)
    BY DEF TensorValue, ImportTensorByValue
  <2> QED
    BY <2>1, <2>2, <2>3
<1> QED
  BY <1>1, <1>2, <1>3, <1>4

LEMMA NoTensor ==
  ASSUME NEW f
  PROVE  InOrder(TensorValue, Builder(f), <<>>).ok = TRUE
<1>1. PICK up : /\ Rounds("tensors", 0, Builder(f), <<>>, up)
                /\ InOrder(TensorValue, Builder(f), <<>>) = up[0]
  BY EmptyList, TensorsLoop
<1> QED
  BY <1>1 DEF Rounds, Builder

FlagsInv == hasReturned \in [Controller -> BOOLEAN]

LEMMA FlagsInit == Init => FlagsInv
BY DEF Init, FlagsInv

LEMMA FlagsNext == FlagsInv /\ [Next]_vars => FlagsInv'
<1> SUFFICES ASSUME FlagsInv, [Next]_vars PROVE FlagsInv'
  OBVIOUS
<1>1. CASE UNCHANGED hasReturned
  BY <1>1 DEF FlagsInv
<1>2. ASSUME NEW th \in Thread, ContextExit(th)
      PROVE  FlagsInv'
  <2>1. UNCHANGED hasReturned \/ DoReturns(Current(th), <<>>)
    BY <1>2 DEF ContextExit
  <2>2. CASE DoReturns(Current(th), <<>>)
    <3>1. hasReturned' = [hasReturned EXCEPT ![Current(th)] = TRUE]
      BY <2>2, NoTensor DEF DoReturns
    <3> QED
      BY <3>1 DEF FlagsInv
  <2> QED
    BY <1>1, <2>1, <2>2
<1>3. ASSUME NEW th \in Thread, NEW c \in Controller, NEW t, Returns(th, c, <<t>>)
      PROVE  FlagsInv'
  <2>1. PICK b : /\ b = InOrder(TensorValue, Builder(fn[c]), <<t>>)
                 /\ hasReturned' = [hasReturned EXCEPT ![c] = b.ok]
    BY <1>3 DEF Returns, DoReturns
  <2>2. b.ok \in BOOLEAN
    BY <2>1, OneTensor
  <2> QED
    BY <2>1, <2>2 DEF FlagsInv
<1>4. ASSUME NEW th \in Thread, NEW call, Begins(th, call)
      PROVE  UNCHANGED hasReturned
  BY <1>4 DEF Begins, BeginKernel
<1>5. \/ UNCHANGED hasReturned
      \/ \E th \in Thread : ContextExit(th)
      \/ \E th \in Thread, c \in Controller, t \in 1..Len(heap.storage) : Returns(th, c, <<t>>)
  <2>1. CASE UNCHANGED vars
    BY <2>1 DEF vars
  <2>2. CASE \E c \in Controller, args \in ArgumentLists : StartCaptureFunction(c, args)
    BY <2>2 DEF StartCaptureFunction
  <2>3. CASE \E th \in Thread, c \in Controller : ContextEnter(th, c)
    BY <2>3 DEF ContextEnter
  <2>4. CASE \E th \in Thread, call \in Calls(heap) :
               FallbackKernel(th, call) \/ UnboxedKernel(th, call) \/ NestedKernel(th, call)
    BY <1>4, <2>4, KernelBegins
  <2>5. CASE \E th \in Thread, call \in Calls(heap) : PassThrough(th, call) \/ RefusedKernel(th, call)
    BY <2>5 DEF PassThrough, RefusedKernel
  <2>6. CASE \E th \in Thread : KernelReturns(th) \/ KernelThrows(th)
    BY <2>6 DEF KernelReturns, KernelThrows
  <2> QED
    BY <2>1, <2>2, <2>3, <2>4, <2>5, <2>6 DEF Next
<1> QED
  BY <1>1, <1>2, <1>3, <1>5

\* Only the innermost controllers' functions change, and that of one that returns.
IsInnermost(c) ==
  \E th \in Thread : /\ activeStack[th] # <<>> /\ Head(activeStack[th]) = c
                     /\ \A other \in Thread \ {th} : frames'[other] = frames[other]

LEMMA OnlyTheInnermost ==
  ASSUME ControllersInv, FlagsInv, [Next]_vars, NEW c \in Started, fn'[c] # fn[c]
  PROVE  IsInnermost(c) \/ hasReturned'[c] # hasReturned[c]
<1>1. CASE UNCHANGED fn
  BY <1>1
<1>2. ASSUME NEW args, NEW d \in Controller, StartCaptureFunction(d, args)
      PROVE  fn'[c] = fn[c]
  BY <1>2 DEF StartCaptureFunction
<1>3. ASSUME NEW th \in Thread, ContextExit(th)
      PROVE  IsInnermost(c)
  <2>1. activeStack[th] # <<>> /\ DoReturns(Current(th), <<>>)
    BY <1>1, <1>3 DEF ContextExit
  <2>2. PICK g : fn' = [fn EXCEPT ![Current(th)] = g]
    BY <2>1 DEF DoReturns
  <2>3. c = Current(th)
    BY <2>2 DEF Started
  <2>4. UNCHANGED frames
    BY <1>3 DEF ContextExit
  <2> QED
    BY <2>1, <2>3, <2>4 DEF Current, IsInnermost
<1>4. ASSUME NEW th \in Thread, NEW d \in Controller, NEW t, Returns(th, d, <<t>>)
      PROVE  hasReturned'[c] # hasReturned[c]
  <2>1. PICK b, g :
          /\ b = InOrder(TensorValue, Builder(fn[d]), <<t>>)
          /\ fn' = [fn EXCEPT ![d] = IF b.ok THEN g ELSE b.fn]
          /\ hasReturned' = [hasReturned EXCEPT ![d] = b.ok]
          /\ ~ hasReturned[d]
    BY <1>4 DEF Returns, DoReturns
  <2>2. c = d
    BY <2>1 DEF Started
  <2>3. b.ok \in BOOLEAN /\ (~ b.ok => b.fn = fn[d])
    BY <2>1, OneTensor
  <2>4. b.ok
    BY <2>1, <2>2, <2>3 DEF Started
  <2> QED
    BY <2>1, <2>2, <2>3, <2>4 DEF FlagsInv
<1>5. ASSUME NEW th \in Thread, NEW call, Begins(th, call)
      PROVE  IsInnermost(c)
  <2>1. PICK g : fn' = [fn EXCEPT ![Current(th)] = g]
    BY <1>5 DEF Begins, BeginKernel
  <2>2. c = Current(th)
    BY <2>1 DEF Started
  <2>3. \A other \in Thread \ {th} : frames'[other] = frames[other]
    BY <1>5, BeginCalls DEF Calling, ControllersInv
  <2> QED
    BY <1>5, <2>2, <2>3 DEF Begins, Current, IsInnermost
<1>6. ASSUME NEW th \in Thread, KernelReturns(th)
      PROVE  IsInnermost(c)
  <2>1. PICK d, g : d = Head(frames[th]).controller /\ fn' = [fn EXCEPT ![d] = g]
    BY <1>6 DEF KernelReturns
  <2>2. c = d
    BY <2>1 DEF Started
  <2>3. IsList(frames[th]) /\ frames[th] # <<>>
    BY <1>6 DEF KernelReturns, Idle, ControllersInv
  <2>4. Head(frames[th]) = frames[th][1] /\ 1 \in 1 .. Len(frames[th])
    BY <2>3, ListTail
  <2>5. activeStack[th] # <<>> /\ frames[th][1].controller = Head(activeStack[th])
    BY <2>3, <2>4 DEF ControllersInv
  <2>6. PICK s : frames' = [frames EXCEPT ![th] = s]
    BY <1>6 DEF KernelReturns
  <2>7. \A other \in Thread \ {th} : frames'[other] = frames[other]
    BY <2>6 DEF ControllersInv
  <2> QED
    BY <2>1, <2>2, <2>4, <2>5, <2>7 DEF IsInnermost
<1>7. CASE UNCHANGED vars
  BY <1>1, <1>7 DEF vars
<1>8. CASE \E th \in Thread, d \in Controller : ContextEnter(th, d)
  BY <1>1, <1>8 DEF ContextEnter
<1>9. CASE \E th \in Thread, call \in Calls(heap) : PassThrough(th, call) \/ RefusedKernel(th, call)
  BY <1>1, <1>9 DEF PassThrough, RefusedKernel, history
<1>10. CASE \E th \in Thread : KernelThrows(th)
  BY <1>1, <1>10 DEF KernelThrows
<1> QED
  BY <1>2, <1>3, <1>4, <1>5, <1>6, <1>7, <1>8, <1>9, <1>10, KernelBegins DEF Next

(* For any threads, controllers and kernels: what a thread records goes to *)
(* the controller that is innermost on it, or a controller returns         *)
(* (getCurrentThreadAcapController).                                       *)
THEOREM RecordedByTheInnermost == Spec => CapturesIntoTheInnermost
<1>1. ControllersInv /\ FlagsInv /\ [Next]_vars =>
        [\A c \in Started : fn'[c] # fn[c] =>
            \/ \E th \in Thread : /\ activeStack[th] # <<>> /\ Head(activeStack[th]) = c
                                  /\ \A other \in Thread \ {th} : frames'[other] = frames[other]
            \/ hasReturned'[c] # hasReturned[c]]_vars
  BY OnlyTheInnermost DEF IsInnermost
<1>2. CapturesIntoTheInnermost <=>
        [][\A c \in Started : fn'[c] # fn[c] =>
            \/ \E th \in Thread : /\ activeStack[th] # <<>> /\ Head(activeStack[th]) = c
                                  /\ \A other \in Thread \ {th} : frames'[other] = frames[other]
            \/ hasReturned'[c] # hasReturned[c]]_vars
  BY DEF CapturesIntoTheInnermost
<1> QED
  BY <1>1, <1>2, ControllersInit, ControllersNext, FlagsInit, FlagsNext, PTL DEF Spec

-----------------------------------------------------------------------------
\* Every function under construction is well formed

\* A function, whether it has returned, and whether a kernel was recorded later.
FunctionOK(f, returns, afterwards) ==
  /\ WellFormed(f)
  /\ ~ returns => HasNoReturn(f)
  /\ returns => \E i \in 1 .. Len(f.block) :
                  IsTerminator(f.block[i]) /\ Len(f.block[i].operands) = f.results
  /\ ~ afterwards => ReturnIsLast(f)

\* A kernel that has not returned is a call of the program, and its operands are
\* defined in the function that it will be recorded in.
FrameOK(fns, fr) ==
  /\ IsKernelCall(fr.call)
  /\ fr.controller \in DOMAIN fns
  /\ Len(fr.operands) \in Nat
  /\ \A k \in 1 .. Len(fr.operands) : Defined(fns[fr.controller], fr.operands[k])

StartedInv ==
  /\ Started \subseteq Controller
  /\ \A c \in Controller \ Started : ~ hasReturned[c]
  /\ \A th \in Thread : \A i \in 1 .. Len(activeStack[th]) : activeStack[th][i] \in Started

FunctionsInv ==
  /\ late \in [Controller -> BOOLEAN]
  /\ \A c \in Started : FunctionOK(fn[c], hasReturned[c], late[c])

FramesInv == \A th \in Thread : \A i \in 1 .. Len(frames[th]) : FrameOK(fn, frames[th][i])

CaptureInv == ControllersInv /\ FlagsInv /\ StartedInv /\ FunctionsInv /\ FramesInv

LEMMA GrowthKeeps ==
  ASSUME NEW f, NEW g, Grows(f, g), NEW r \in BOOLEAN, NEW l \in BOOLEAN, FunctionOK(f, r, l)
  PROVE  FunctionOK(g, r, l \/ (r /\ g # f))
<1>1. WellFormed(g) /\ (~ r => HasNoReturn(g))
  BY DEF FunctionOK, Grows
<1>2. ASSUME r
      PROVE  \E i \in 1 .. Len(g.block) :
               IsTerminator(g.block[i]) /\ Len(g.block[i].operands) = g.results
  BY <1>2 DEF FunctionOK, Grows
<1>3. ASSUME ~ (l \/ (r /\ g # f))
      PROVE  ReturnIsLast(g)
  <2>1. CASE g = f
    BY <1>3, <2>1 DEF FunctionOK
  <2>2. CASE ~ r
    BY <1>1, <2>2 DEF HasNoReturn, ReturnIsLast
  <2> QED
    BY <1>3, <2>1, <2>2
<1> QED
  BY <1>1, <1>2, <1>3 DEF FunctionOK

LEMMA FrameKept ==
  ASSUME NEW fns, NEW fns2, DOMAIN fns \subseteq DOMAIN fns2,
         \A c \in DOMAIN fns : \A v : Defined(fns[c], v) => Defined(fns2[c], v),
         NEW fr, FrameOK(fns, fr)
  PROVE  FrameOK(fns2, fr)
BY DEF FrameOK

\* One function has changed to g.
Changes(c, g) ==
  /\ c \in Started /\ fn' = [fn EXCEPT ![c] = g]
  /\ \A v : Defined(fn[c], v) => Defined(g, v)
  /\ FlagsInv' /\ late' \in [Controller -> BOOLEAN]
  /\ \A d \in Started \ {c} : hasReturned'[d] = hasReturned[d] /\ late'[d] = late[d]
  /\ \A d \in Controller \ Started : hasReturned'[d] = hasReturned[d]
  /\ FunctionOK(g, hasReturned'[c], late'[c])

LEMMA FunctionChanged ==
  ASSUME CaptureInv, NEW c, NEW g, Changes(c, g)
  PROVE  /\ Started' = Started /\ FunctionsInv' /\ fn'[c] = g
         /\ \A d \in Started : \A v : Defined(fn[d], v) => Defined(fn'[d], v)
         /\ \A d \in Controller \ Started : ~ hasReturned'[d]
<1>1. DOMAIN fn' = DOMAIN fn /\ \A d \in Started : fn'[d] = IF d = c THEN g ELSE fn[d]
  BY DEF Changes, Started
<1>2. Started' = Started
  BY <1>1 DEF Started
<1>3. \A d \in Started : FunctionOK(fn'[d], hasReturned'[d], late'[d])
  BY <1>1 DEF CaptureInv, FunctionsInv, Changes
<1>4. \A d \in Started : \A v : Defined(fn[d], v) => Defined(fn'[d], v)
  BY <1>1 DEF Changes
<1> QED
  BY <1>1, <1>2, <1>3, <1>4 DEF CaptureInv, StartedInv, FunctionsInv, Changes

\* What a kernel adds.
LEMMA KernelChanges ==
  ASSUME CaptureInv, NEW c \in Started, NEW g, Grows(fn[c], g),
         fn' = [fn EXCEPT ![c] = g], UNCHANGED hasReturned,
         late' = [late EXCEPT ![c] = @ \/ (hasReturned[c] /\ g # fn[c])]
  PROVE  Changes(c, g)
<1>1. c \in Controller /\ hasReturned[c] \in BOOLEAN /\ late[c] \in BOOLEAN
  BY DEF CaptureInv, StartedInv, FlagsInv, FunctionsInv
<1>2. FunctionOK(g, hasReturned[c], late[c] \/ (hasReturned[c] /\ g # fn[c]))
  BY <1>1, GrowthKeeps DEF CaptureInv, FunctionsInv
<1>3. late \in [Controller -> BOOLEAN]
  BY DEF CaptureInv, FunctionsInv
<1>4. /\ late' \in [Controller -> BOOLEAN]
      /\ late'[c] = (late[c] \/ (hasReturned[c] /\ g # fn[c]))
      /\ \A d \in Controller \ {c} : late'[d] = late[d]
  BY <1>1, <1>3
<1>5. FlagsInv'
  BY DEF CaptureInv, FlagsInv
<1> QED
  BY <1>2, <1>4, <1>5 DEF Changes, Grows, CaptureInv, StartedInv

\* What returns() does.
LEMMA ReturnsChanges ==
  ASSUME CaptureInv, NEW c \in Started, ~ hasReturned[c], NEW tensors, Len(tensors) \in Nat,
         DoReturns(c, tensors), FlagsInv', UNCHANGED late
  PROVE  \E g : Changes(c, g)
<1>1. PICK b : b = InOrder(TensorValue, Builder(fn[c]), tensors)
  OBVIOUS
<1>2. PICK g : g = IF b.ok THEN RewriteFuncReturnTypes(InsertBeforeTerminator(b.fn, "std.return", b.values, 0),
                                                       Len(tensors))
                           ELSE b.fn
  OBVIOUS
<1>3. fn' = [fn EXCEPT ![c] = g] /\ hasReturned' = [hasReturned EXCEPT ![c] = b.ok]
  BY <1>1, <1>2 DEF DoReturns
<1>4. /\ FunctionOK(fn[c], FALSE, late[c]) /\ late[c] \in BOOLEAN
      /\ late \in [Controller -> BOOLEAN] /\ c \in Controller
  <2>1. hasReturned[c] = FALSE
    BY DEF CaptureInv, StartedInv, FlagsInv
  <2> QED
    BY <2>1 DEF CaptureInv, StartedInv, FunctionsInv
<1>5. WellFormed(fn[c]) /\ HasNoReturn(fn[c])
  BY <1>4 DEF FunctionOK
<1>6. Further(fn[c], b) /\ (b.ok => Len(b.values) = Len(tensors))
  BY <1>1, <1>5, TensorsAdded
<1>7. /\ b.ok \in BOOLEAN /\ WellFormed(b.fn) /\ HasNoReturn(b.fn) /\ Len(b.values) \in Nat
      /\ \A k \in 1 .. Len(b.values) : Defined(b.fn, b.values[k])
      /\ \A v : Defined(fn[c], v) => Defined(b.fn, v)
  BY <1>5, <1>6, ListLength DEF Further, IsBuilder, Grows
<1>8. /\ hasReturned'[c] = b.ok
      /\ \A d \in Controller \ {c} : hasReturned'[d] = hasReturned[d]
  BY <1>3, <1>4 DEF CaptureInv, FlagsInv
<1>9. (\A v : Defined(fn[c], v) => Defined(g, v)) /\ FunctionOK(g, b.ok, late[c])
  <2>1. CASE b.ok
    <3>1. Closes(b.fn, b.values, Len(tensors), g)
      BY <1>2, <2>1 DEF Closes
    <3>2. /\ WellFormed(g) /\ ReturnIsLast(g)
          /\ \A v : Defined(b.fn, v) => Defined(g, v)
          /\ \E i \in 1 .. Len(g.block) :
               IsTerminator(g.block[i]) /\ Len(g.block[i].operands) = g.results
      BY <1>6, <1>7, <2>1, <3>1, ReturnCloses
    <3> QED
      BY <1>7, <2>1, <3>2 DEF FunctionOK
  <2>2. CASE ~ b.ok
    <3>1. g = b.fn /\ b.ok = FALSE
      BY <1>2, <1>7, <2>2
    <3>2. ReturnIsLast(b.fn)
      BY <1>7 DEF HasNoReturn, ReturnIsLast
    <3> QED
      BY <1>7, <3>1, <3>2 DEF FunctionOK
  <2> QED
    BY <2>1, <2>2
<1>10. Changes(c, g)
  BY <1>3, <1>4, <1>8, <1>9 DEF Changes, CaptureInv, StartedInv
<1> QED
  BY <1>10

LEMMA CreatedFunction ==
  ASSUME NEW args \in ArgumentLists
  PROVE  WellFormed(CreateFunction(args)) /\ HasNoReturn(CreateFunction(args))
<1> DEFINE maps == [i \in 1 .. Len(args) |-> [tensor |-> args[i], value |-> Argument(i)]]
<1>1. PICK f : f = CreateFunction(args)
  OBVIOUS
<1>2. PICK n \in Nat : n = Len(args)
  BY ArgumentsAssumption
<1>3. /\ f = [args |-> n, block |-> <<>>, constants |-> 0, results |-> 0, tensorValueMap |-> maps]
  BY <1>1, <1>2 DEF CreateFunction
<1>4. IsList(maps) /\ Len(maps) = n /\ \A i \in 1 .. n : maps[i].value = Argument(i)
  <2>1. PICK S : \A i \in 1 .. n : maps[i] \in S
    <3>1. \A i \in 1 .. n : maps[i] \in {maps[j] : j \in 1 .. n}
      OBVIOUS
    <3> QED
      BY <3>1
  <2>2. maps \in Seq(S) /\ Len(maps) = n
    BY <1>2, <2>1
  <2>3. \A i \in 1 .. n : maps[i].value = Argument(i)
    BY <1>2
  <2> QED
    BY <2>2, <2>3 DEF IsList
<1> HIDE DEF maps
<1>5. /\ f.args = n /\ f.block = <<>> /\ f.constants = 0 /\ f.tensorValueMap = maps
      /\ f = [args |-> f.args, block |-> f.block, constants |-> f.constants,
              results |-> f.results, tensorValueMap |-> f.tensorValueMap]
  BY <1>3
<1>6. IsFunction(f) /\ Len(f.block) = 0
  BY <1>4, <1>5, EmptyList DEF IsFunction
<1>7. ASSUME NEW i \in 1 .. Len(f.tensorValueMap)
      PROVE  Defined(f, f.tensorValueMap[i].value)
  <2>1. i \in 1 .. f.args /\ f.tensorValueMap[i].value = Argument(i)
    BY <1>4, <1>5
  <2>2. Argument(i).op = 0 /\ Argument(i).result = i
    BY DEF Argument, Value
  <2> QED
    BY <2>1, <2>2 DEF Defined, Above
<1> QED
  BY <1>1, <1>6, <1>7 DEF WellFormed, HasNoReturn

LEMMA CaptureInit == Init => CaptureInv
<1> SUFFICES ASSUME Init PROVE CaptureInv
  OBVIOUS
<1>1. ControllersInv /\ FlagsInv
  BY ControllersInit, FlagsInit
<1>2. Started = {}
  BY DEF Init, Started
<1>3. \A th \in Thread : /\ activeStack[th] = <<>> /\ Len(activeStack[th]) = 0
                         /\ frames[th] = <<>> /\ Len(frames[th]) = 0
  BY EmptyList DEF Init
<1>4. StartedInv
  BY <1>2, <1>3 DEF Init, StartedInv
<1>5. FunctionsInv
  BY <1>2 DEF Init, FunctionsInv
<1>6. FramesInv
  BY <1>3 DEF FramesInv
<1> QED
  BY <1>1, <1>4, <1>5, <1>6 DEF CaptureInv

\* Values stay defined, and the kernels on the call stacks were there or are ones to record.
ValuesStay == Started \subseteq Started' /\ \A c \in Started : \A v : Defined(fn[c], v) => Defined(fn'[c], v)
FramesFollow ==
  \A th \in Thread : \A i \in 1 .. Len(frames'[th]) :
    \/ \E j \in 1 .. Len(frames[th]) : frames'[th][i] = frames[th][j]
    \/ FrameOK(fn', frames'[th][i])

LEMMA FramesKept ==
  ASSUME FramesInv, ValuesStay, FramesFollow
  PROVE  FramesInv'
<1> SUFFICES ASSUME NEW th \in Thread, NEW i \in 1 .. Len(frames'[th])
             PROVE  FrameOK(fn', frames'[th][i])
  BY DEF FramesInv
<1>1. CASE \E j \in 1 .. Len(frames[th]) : frames'[th][i] = frames[th][j]
  <2>1. FrameOK(fn, frames'[th][i])
    BY <1>1 DEF FramesInv
  <2> QED
    BY <2>1, FrameKept DEF ValuesStay, Started
<1> QED
  BY <1>1 DEF FramesFollow

\* Stacks of controllers that only hold what they held, or one controller more.
StacksFollow ==
  \A th \in Thread : \A i \in 1 .. Len(activeStack'[th]) :
    \/ \E j \in 1 .. Len(activeStack[th]) : activeStack'[th][i] = activeStack[th][j]
    \/ activeStack'[th][i] \in Started

\* A step that changes the function of at most one controller.
LEMMA CaptureStep ==
  ASSUME CaptureInv, [Next]_vars, FramesFollow, StacksFollow,
         \/ UNCHANGED <<fn, hasReturned, late>>
         \/ \E c, g : Changes(c, g)
  PROVE  CaptureInv'
<1>1. /\ Started' = Started /\ FunctionsInv'
      /\ \A d \in Started : \A v : Defined(fn[d], v) => Defined(fn'[d], v)
      /\ \A d \in Controller \ Started : ~ hasReturned'[d]
  <2>1. CASE UNCHANGED <<fn, hasReturned, late>>
    BY <2>1 DEF CaptureInv, FunctionsInv, StartedInv, Started
  <2>2. ASSUME NEW c, NEW g, Changes(c, g)
        PROVE  /\ Started' = Started /\ FunctionsInv'
               /\ \A d \in Started : \A v : Defined(fn[d], v) => Defined(fn'[d], v)
               /\ \A d \in Controller \ Started : ~ hasReturned'[d]
    BY <2>2, FunctionChanged
  <2> QED
    BY <2>1, <2>2
<1>2. StartedInv'
  BY <1>1 DEF StacksFollow, CaptureInv, StartedInv
<1>3. FramesInv'
  BY <1>1, FramesKept DEF ValuesStay, CaptureInv
<1> QED
  BY <1>1, <1>2, <1>3, ControllersNext, FlagsNext DEF CaptureInv

\* Creating a function leaves the others alone.
LEMMA StartCaptures ==
  ASSUME CaptureInv, [Next]_vars,
         NEW c \in Controller, NEW args \in ArgumentLists, StartCaptureFunction(c, args)
  PROVE  CaptureInv'
<1>1. /\ c \notin Started
      /\ fn' = [d \in Started \union {c} |-> IF d = c THEN CreateFunction(args) ELSE fn[d]]
      /\ UNCHANGED <<hasReturned, activeStack, frames, late>>
  BY DEF StartCaptureFunction
<1>2. Started' = Started \union {c}
  BY <1>1 DEF Started
<1>3. fn'[c] = CreateFunction(args) /\ \A d \in Started : fn'[d] = fn[d]
  BY <1>1
<1>4. WellFormed(fn'[c]) /\ HasNoReturn(fn'[c])
  BY <1>3, CreatedFunction
<1>5. FunctionOK(fn'[c], hasReturned[c], late[c])
  <2>1. hasReturned[c] = FALSE
    BY <1>1 DEF CaptureInv, StartedInv, FlagsInv
  <2>2. ReturnIsLast(fn'[c])
    BY <1>4 DEF HasNoReturn, ReturnIsLast
  <2> QED
    BY <1>4, <2>1, <2>2 DEF FunctionOK
<1>6. StartedInv'
  BY <1>1, <1>2 DEF CaptureInv, StartedInv
<1>7. FunctionsInv'
  BY <1>1, <1>2, <1>3, <1>5 DEF CaptureInv, FunctionsInv
<1>8. FramesInv'
  <2>1. ValuesStay
    BY <1>2, <1>3 DEF ValuesStay
  <2>2. FramesFollow
    BY <1>1 DEF FramesFollow
  <2> QED
    BY <2>1, <2>2, FramesKept DEF CaptureInv
<1> QED
  BY <1>6, <1>7, <1>8, ControllersNext, FlagsNext DEF CaptureInv

LEMMA Enters ==
  ASSUME CaptureInv, [Next]_vars, NEW th \in Thread, NEW c \in Controller, ContextEnter(th, c)
  PROVE  CaptureInv'
<1>1. /\ activeStack' = [activeStack EXCEPT ![th] = <<c>> \o activeStack[th]]
      /\ c \in Started /\ UNCHANGED <<fn, hasReturned, frames, late>>
  BY DEF ContextEnter, history
<1>2. \A u \in Thread : activeStack'[u] = IF u = th THEN <<c>> \o activeStack[u] ELSE activeStack[u]
  BY <1>1 DEF CaptureInv, ControllersInv
<1>3. PICK n \in Nat : n = Len(activeStack[th]) /\ IsList(activeStack[th])
  BY ListLength DEF CaptureInv, ControllersInv
<1>4. /\ Len(<<c>> \o activeStack[th]) = n + 1
      /\ \A i \in 1 .. n + 1 : (<<c>> \o activeStack[th])[i] = IF i = 1 THEN c ELSE activeStack[th][i - 1]
  BY <1>3, ListCons
<1>5. \A i \in 1 .. n + 1 : i # 1 => i - 1 \in 1 .. n
  OBVIOUS
<1>6. StacksFollow
  <2> SUFFICES ASSUME NEW u \in Thread, NEW i \in 1 .. Len(activeStack'[u])
               PROVE  \/ \E j \in 1 .. Len(activeStack[u]) : activeStack'[u][i] = activeStack[u][j]
                      \/ activeStack'[u][i] \in Started
    BY DEF StacksFollow
  <2>1. CASE u = th
    <3>1. activeStack'[u] = <<c>> \o activeStack[th] /\ activeStack[u] = activeStack[th]
      BY <1>2, <2>1
    <3>2. i \in 1 .. n + 1 /\ activeStack'[u][i] = IF i = 1 THEN c ELSE activeStack[th][i - 1]
      BY <1>4, <3>1
    <3>3. CASE i = 1
      BY <1>1, <3>2, <3>3
    <3>4. CASE i # 1
      <4>1. i - 1 \in 1 .. Len(activeStack[u])
        BY <1>3, <1>5, <3>1, <3>2, <3>4
      <4> QED
        BY <3>1, <3>2, <3>4, <4>1
    <3> QED
      BY <3>3, <3>4
  <2>2. CASE u # th
    BY <1>2, <2>2
  <2> QED
    BY <2>1, <2>2
<1>7. FramesFollow
  BY <1>1 DEF FramesFollow
<1> QED
  BY <1>1, <1>6, <1>7, CaptureStep

\* Returning, at the end of a context or before.
LEMMA Exits ==
  ASSUME CaptureInv, [Next]_vars, NEW th \in Thread, ContextExit(th)
  PROVE  CaptureInv'
<1>1. /\ activeStack' = [activeStack EXCEPT ![th] = Tail(activeStack[th])]
      /\ activeStack[th] # <<>> /\ UNCHANGED <<frames, late>>
      /\ IF hasReturned[Current(th)] THEN UNCHANGED <<fn, hasReturned>> ELSE DoReturns(Current(th), <<>>)
  BY DEF ContextExit
<1>2. \A u \in Thread : activeStack'[u] = IF u = th THEN Tail(activeStack[u]) ELSE activeStack[u]
  BY <1>1 DEF CaptureInv, ControllersInv
<1>3. PICK n \in Nat : n = Len(activeStack[th]) /\ IsList(activeStack[th])
  BY ListLength DEF CaptureInv, ControllersInv
<1>4. /\ n > 0 /\ Current(th) = activeStack[th][1] /\ Len(Tail(activeStack[th])) = n - 1
      /\ \A i \in 1 .. n - 1 : Tail(activeStack[th])[i] = activeStack[th][i + 1]
  BY <1>1, <1>3, ListTail DEF Current
<1>5. \A i \in 1 .. n - 1 : i + 1 \in 1 .. n
  OBVIOUS
<1>6. StacksFollow
  <2> SUFFICES ASSUME NEW u \in Thread, NEW i \in 1 .. Len(activeStack'[u])
               PROVE  \E j \in 1 .. Len(activeStack[u]) : activeStack'[u][i] = activeStack[u][j]
    BY DEF StacksFollow
  <2>1. CASE u = th
    <3>1. activeStack'[u] = Tail(activeStack[th]) /\ activeStack[u] = activeStack[th]
      BY <1>2, <2>1
    <3>2. i \in 1 .. n - 1 /\ activeStack'[u][i] = activeStack[th][i + 1]
      BY <1>4, <3>1
    <3>3. i + 1 \in 1 .. Len(activeStack[u])
      BY <1>3, <1>5, <3>1, <3>2
    <3> QED
      BY <3>1, <3>2, <3>3
  <2>2. CASE u # th
    BY <1>2, <2>2
  <2> QED
    BY <2>1, <2>2
<1>7. FramesFollow
  BY <1>1 DEF FramesFollow
<1>8. Current(th) \in Started
  <2>1. 1 \in 1 .. Len(activeStack[th])
    BY <1>3, <1>4
  <2> QED
    BY <1>4, <2>1 DEF CaptureInv, StartedInv
<1>9. CASE hasReturned[Current(th)]
  BY <1>1, <1>6, <1>7, <1>9, CaptureStep
<1>10. CASE ~ hasReturned[Current(th)]
  <2>1. FlagsInv'
    BY FlagsNext DEF CaptureInv
  <2>2. Len(<<>>) \in Nat
    BY EmptyList
  <2>3. \E c, g : Changes(c, g)
    BY <1>1, <1>8, <1>10, <2>1, <2>2, ReturnsChanges
  <2> QED
    BY <1>6, <1>7, <2>3, CaptureStep
<1> QED
  BY <1>9, <1>10

LEMMA ReturnsOne ==
  ASSUME CaptureInv, [Next]_vars,
         NEW th \in Thread, NEW c \in Controller, NEW t, Returns(th, c, <<t>>)
  PROVE  CaptureInv'
<1>1. /\ c \in Started /\ ~ hasReturned[c] /\ DoReturns(c, <<t>>)
      /\ UNCHANGED <<activeStack, frames, late>>
  BY DEF Returns
<1>2. FlagsInv'
  BY FlagsNext DEF CaptureInv
<1>3. Len(<<t>>) \in Nat
  OBVIOUS
<1>4. \E g : Changes(c, g)
  BY <1>1, <1>2, <1>3, ReturnsChanges
<1>5. FramesFollow /\ StacksFollow
  BY <1>1 DEF FramesFollow, StacksFollow
<1> QED
  BY <1>4, <1>5, CaptureStep

\* The arguments a kernel records are IValues like the ones it was called with.
LEMMA ArgumentsToRecord ==
  ASSUME NEW call, IsKernelCall(call)
  PROVE  /\ Len(RecordedArgs(call)) \in Nat
         /\ \A i \in 1 .. Len(RecordedArgs(call)) : HasLength(RecordedArgs(call)[i])
         /\ RecordedName(call) # "std.return"
<1>1. RecordedName(call) # "std.return"
  BY DEF RecordedName, IsKernelCall
<1>2. CASE call.op # "mkldnn_convolution_backward"
  BY <1>1, <1>2 DEF RecordedArgs, IsKernelCall
<1>3. CASE call.op = "mkldnn_convolution_backward"
  <2>1. PICK a : a = call.args
    OBVIOUS
  <2>2. RecordedArgs(call) = <<a[2], a[1], a[3], a[5], a[4]>>
    BY <1>3, <2>1 DEF RecordedArgs
  <2>3. \A i \in 1 .. 5 : HasLength(a[i])
    BY <1>3, <2>1 DEF IsKernelCall
  <2>4. /\ Len(RecordedArgs(call)) = 5
        /\ RecordedArgs(call)[1] = a[2] /\ RecordedArgs(call)[2] = a[1] /\ RecordedArgs(call)[3] = a[3]
        /\ RecordedArgs(call)[4] = a[5] /\ RecordedArgs(call)[5] = a[4]
    BY <2>2
  <2> HIDE <2>2
  <2>5. ASSUME NEW i \in 1 .. 5
        PROVE  HasLength(RecordedArgs(call)[i])
    <3>1. i = 1 \/ i = 2 \/ i = 3 \/ i = 4 \/ i = 5
      OBVIOUS
    <3>2. RecordedArgs(call)[i] \in {a[1], a[2], a[3], a[4], a[5]}
      BY <2>4, <3>1
    <3>3. \E j \in 1 .. 5 : RecordedArgs(call)[i] = a[j]
      <4>1. 1 \in 1 .. 5 /\ 2 \in 1 .. 5 /\ 3 \in 1 .. 5 /\ 4 \in 1 .. 5 /\ 5 \in 1 .. 5
        OBVIOUS
      <4> QED
        BY <3>2, <4>1, Zenon
    <3> QED
      BY <2>3, <2>5, <3>3, Zenon
  <2>6. Len(RecordedArgs(call)) \in Nat
    BY <2>4
  <2>7. \A i \in 1 .. Len(RecordedArgs(call)) : HasLength(RecordedArgs(call)[i])
    BY <2>4, <2>5, Zenon
  <2> QED
    BY <1>1, <2>6, <2>7, Zenon
<1> QED
  BY <1>2, <1>3

\* An intercepted kernel up to its redispatch.
LEMMA KernelGoesAhead ==
  ASSUME CaptureInv, [Next]_vars,
         NEW th \in Thread, NEW call, IsKernelCall(call), Begins(th, call)
  PROVE  CaptureInv'
<1>1. PICK c : c = Current(th)
  OBVIOUS
<1>2. c \in Started
  <2>1. IsList(activeStack[th]) /\ activeStack[th] # <<>>
    BY DEF Begins, CaptureInv, ControllersInv
  <2>2. 1 \in 1 .. Len(activeStack[th]) /\ Head(activeStack[th]) = activeStack[th][1]
    BY <2>1, ListTail
  <2> QED
    BY <1>1, <2>2 DEF Current, CaptureInv, StartedInv
<1>3. PICK b : b = AddOperands(fn[c], RecordedArgs(call))
  OBVIOUS
<1>4. PICK excluded :
        /\ fn' = [fn EXCEPT ![c] = b.fn]
        /\ late' = [late EXCEPT ![c] = @ \/ (hasReturned[c] /\ b.fn # fn[c])]
        /\ frames' = IF b.ok THEN [frames EXCEPT ![th] = <<Frame(call, c, b.values, excluded)>> \o @]
                             ELSE [frames EXCEPT ![th] = <<>>]
        /\ UNCHANGED <<hasReturned, activeStack>>
  BY <1>1, <1>3 DEF Begins, BeginKernel, NoteLate
<1>5. Further(fn[c], b)
  <2>1. WellFormed(fn[c])
    BY <1>2 DEF CaptureInv, FunctionsInv, FunctionOK
  <2> QED
    BY <1>3, <2>1, ArgumentsToRecord, OperandsAdded
<1>6. Changes(c, b.fn)
  BY <1>2, <1>4, <1>5, KernelChanges DEF Further
<1>7. StacksFollow
  BY <1>4 DEF StacksFollow
<1>8. FramesFollow
  <2>1. PICK fr : fr = Frame(call, c, b.values, excluded)
    OBVIOUS
  <2>2. FrameOK(fn', fr)
    <3>1. /\ fn'[c] = b.fn /\ c \in DOMAIN fn'
      BY <1>2, <1>4 DEF Started
    <3>2. fr.call = call /\ fr.controller = c /\ fr.operands = b.values
      BY <2>1 DEF Frame
    <3>3. Len(b.values) \in Nat /\ \A k \in 1 .. Len(b.values) : Defined(b.fn, b.values[k])
      BY <1>5, ListLength DEF Further, IsBuilder
    <3> QED
      BY <3>1, <3>2, <3>3 DEF FrameOK
  <2>3. PICK n \in Nat : n = Len(frames[th]) /\ IsList(frames[th])
    BY ListLength DEF CaptureInv, ControllersInv
  <2>4. /\ Len(<<fr>> \o frames[th]) = n + 1
        /\ \A i \in 1 .. n + 1 : (<<fr>> \o frames[th])[i] = IF i = 1 THEN fr ELSE frames[th][i - 1]
    BY <2>3, ListCons
  <2>5. \A i \in 1 .. n + 1 : i # 1 => i - 1 \in 1 .. n
    OBVIOUS
  <2>6. \A u \in Thread : \/ u # th /\ frames'[u] = frames[u]
                          \/ u = th /\ frames'[u] \in {<<>>, <<fr>> \o frames[th]}
    BY <1>4, <2>1 DEF CaptureInv, ControllersInv
  <2> SUFFICES ASSUME NEW u \in Thread, NEW i \in 1 .. Len(frames'[u])
               PROVE  \/ \E j \in 1 .. Len(frames[u]) : frames'[u][i] = frames[u][j]
                      \/ FrameOK(fn', frames'[u][i])
    BY DEF FramesFollow
  <2>7. CASE u # th
    BY <2>6, <2>7
  <2>8. CASE u = th /\ frames'[u] = <<>>
    BY <2>8, EmptyList
  <2>9. CASE u = th /\ frames'[u] = <<fr>> \o frames[th]
    <3>1. i \in 1 .. n + 1 /\ frames'[u][i] = IF i = 1 THEN fr ELSE frames[th][i - 1]
      BY <2>4, <2>9
    <3>2. CASE i = 1
      BY <2>2, <3>1, <3>2
    <3>3. CASE i # 1
      BY <2>3, <2>5, <2>9, <3>1, <3>3
    <3> QED
      BY <3>2, <3>3
  <2> QED
    BY <2>6, <2>7, <2>8, <2>9
<1> QED
  BY <1>6, <1>7, <1>8, CaptureStep

\* A kernel is back, or has thrown: its thread keeps kernels that called it or none.
LEMMA StackForgets ==
  ASSUME CaptureInv, NEW th \in Thread, frames[th] # <<>>, NEW s,
         s = Tail(frames[th]) \/ s = <<>>, frames' = [frames EXCEPT ![th] = s]
  PROVE  \A u \in Thread : \A i \in 1 .. Len(frames'[u]) :
           \E j \in 1 .. Len(frames[u]) : frames'[u][i] = frames[u][j]
<1>1. PICK n \in Nat : n = Len(frames[th]) /\ IsList(frames[th])
  BY ListLength DEF CaptureInv, ControllersInv
<1>2. Len(Tail(frames[th])) = n - 1 /\ \A i \in 1 .. n - 1 : Tail(frames[th])[i] = frames[th][i + 1]
  BY <1>1, ListTail
<1>3. \A i \in 1 .. n - 1 : i + 1 \in 1 .. n
  OBVIOUS
<1>4. \A u \in Thread : frames'[u] = IF u = th THEN s ELSE frames[u]
  BY DEF CaptureInv, ControllersInv
<1> SUFFICES ASSUME NEW u \in Thread, NEW i \in 1 .. Len(frames'[u])
             PROVE  \E j \in 1 .. Len(frames[u]) : frames'[u][i] = frames[u][j]
  OBVIOUS
<1>5. CASE u # th
  BY <1>4, <1>5
<1>6. CASE u = th /\ s = <<>>
  BY <1>4, <1>6, EmptyList
<1>7. CASE u = th /\ s = Tail(frames[th])
  <2>1. i \in 1 .. n - 1 /\ frames'[u][i] = frames[th][i + 1]
    BY <1>2, <1>4, <1>7
  <2> QED
    BY <1>1, <1>3, <1>7, <2>1
<1> QED
  BY <1>5, <1>6, <1>7

LEMMA StackShrinks ==
  ASSUME CaptureInv, NEW th \in Thread, frames[th] # <<>>, NEW s,
         s = Tail(frames[th]) \/ s = <<>>, frames' = [frames EXCEPT ![th] = s]
  PROVE  FramesFollow
BY StackForgets DEF FramesFollow

LEMMA KernelComesBack ==
  ASSUME CaptureInv, [Next]_vars, NEW th \in Thread, KernelReturns(th)
  PROVE  CaptureInv'
<1>1. PICK frame, c, ran, recorded :
        /\ frame = Head(frames[th]) /\ c = frame.controller
        /\ ran = Run(heap, frame.call.op, frame.call.args)
        /\ recorded = Record(fn[c], RecordedName(frame.call), frame.operands, ran.results)
  OBVIOUS
<1>2. PICK ok \in BOOLEAN : ok = ResultsSupported(ran.results)
  BY DEF ResultsSupported
<1>3. PICK g : g = IF ok THEN recorded ELSE fn[c]
  OBVIOUS
<1>4. /\ frames[th] # <<>> /\ UNCHANGED <<hasReturned, activeStack>>
      /\ fn' = [fn EXCEPT ![c] = IF ok THEN recorded ELSE fn[c]]
      /\ frames' = [frames EXCEPT ![th] = IF ok THEN Tail(frames[th]) ELSE <<>>]
      /\ late' = [late EXCEPT ![c] = @ \/ (hasReturned[c] /\ fn'[c] # fn[c])]
  BY <1>1, <1>2 DEF KernelReturns, Idle, NoteLate
<1>5. FrameOK(fn, frame) /\ c \in Started
  <2>1. IsList(frames[th])
    BY DEF CaptureInv, ControllersInv
  <2>2. 1 \in 1 .. Len(frames[th]) /\ Head(frames[th]) = frames[th][1]
    BY <1>4, <2>1, ListTail
  <2> QED
    BY <1>1, <2>2 DEF CaptureInv, FramesInv, FrameOK, Started
<1>6. WellFormed(fn[c])
  BY <1>5 DEF CaptureInv, FunctionsInv, FunctionOK
<1>7. Grows(fn[c], g)
  <2>1. CASE ok
    <3>1. RecordedName(frame.call) # "std.return" /\ Len(ran.results) \in Nat
      BY <1>1, <1>5, ArgumentsToRecord, RunResults DEF FrameOK
    <3>2. Len(frame.operands) \in Nat /\ \A k \in 1 .. Len(frame.operands) : Defined(fn[c], frame.operands[k])
      BY <1>1, <1>5 DEF FrameOK
    <3> QED
      BY <1>1, <1>3, <1>6, <2>1, <3>1, <3>2, RecordGrows
  <2>2. CASE ~ ok
    BY <1>3, <1>6, <2>2, GrowsSame
  <2> QED
    BY <2>1, <2>2
<1>8. fn' = [fn EXCEPT ![c] = g] /\ fn'[c] = g
  BY <1>3, <1>4, <1>5 DEF Started
<1>9. Changes(c, g)
  BY <1>4, <1>5, <1>7, <1>8, KernelChanges
<1>10. FramesFollow
  BY <1>4, StackShrinks
<1>11. StacksFollow
  BY <1>4 DEF StacksFollow
<1> QED
  BY <1>9, <1>10, <1>11, CaptureStep

LEMMA CaptureNext ==
  ASSUME \A call \in Calls(heap) : IsKernelCall(call), CaptureInv, [Next]_vars
  PROVE  CaptureInv'
<1>1. CASE UNCHANGED <<fn, hasReturned, activeStack, frames, late>>
  BY <1>1, CaptureStep DEF FramesFollow, StacksFollow
<1>2. CASE \E c \in Controller, args \in ArgumentLists : StartCaptureFunction(c, args)
  BY <1>2, StartCaptures
<1>3. CASE \E th \in Thread, c \in Controller : ContextEnter(th, c)
  BY <1>3, Enters
<1>4. CASE \E th \in Thread : ContextExit(th)
  BY <1>4, Exits
<1>5. CASE \E th \in Thread, c \in Controller, t \in 1..Len(heap.storage) : Returns(th, c, <<t>>)
  BY <1>5, ReturnsOne
<1>6. CASE \E th \in Thread, call \in Calls(heap) : PassThrough(th, call) \/ RefusedKernel(th, call)
  BY <1>1, <1>6 DEF PassThrough, RefusedKernel, history
<1>7. ASSUME NEW th \in Thread, NEW call \in Calls(heap),
             FallbackKernel(th, call) \/ UnboxedKernel(th, call) \/ NestedKernel(th, call)
      PROVE  CaptureInv'
  BY <1>7, KernelBegins, KernelGoesAhead
<1>8. CASE \E th \in Thread : KernelReturns(th)
  BY <1>8, KernelComesBack
<1>9. ASSUME NEW th \in Thread, KernelThrows(th)
      PROVE  CaptureInv'
  <2>1. /\ frames[th] # <<>> /\ frames' = [frames EXCEPT ![th] = <<>>]
        /\ UNCHANGED <<fn, hasReturned, activeStack, late>>
    BY <1>9 DEF KernelThrows, Idle, history
  <2>2. FramesFollow /\ StacksFollow
    BY <2>1, StackShrinks DEF StacksFollow
  <2> QED
    BY <2>1, <2>2, CaptureStep
<1>10. CASE UNCHANGED vars
  BY <1>1, <1>10 DEF vars
<1> QED
  BY <1>2, <1>3, <1>4, <1>5, <1>6, <1>7, <1>8, <1>9, <1>10 DEF Next

\* The position of an operation in the block is that of its number.
LEMMA AboveDominates ==
  ASSUME NEW f, WellFormed(f), NEW i \in 1 .. Len(f.block), NEW v, Above(f, v, i)
  PROVE  Dominates(f, v, i)
<1>1. CASE v.op = 0 /\ v.result \in 1 .. f.args
  BY <1>1 DEF Dominates
<1>2. CASE \E j \in 1 .. i - 1 : f.block[j].id = v.op /\ v.result \in 1 .. f.block[j].results
  <2>1. PICK n \in Nat : n = Len(f.block)
    BY ListLength DEF WellFormed, IsFunction
  <2>2. PICK j \in 1 .. i - 1 : f.block[j].id = v.op /\ v.result \in 1 .. f.block[j].results
    BY <1>2
  <2>3. j \in 1 .. n /\ j < i
    BY <2>1
  <2>4. PositionOf(f, v.op) = j
    <3>1. \A k \in 1 .. n : f.block[k].id = v.op => k = j
      BY <2>1, <2>2, <2>3 DEF WellFormed
    <3> QED
      BY <2>1, <2>2, <2>3, <3>1 DEF PositionOf
  <2>5. v.op # 0
    BY <2>1, <2>2, <2>3 DEF WellFormed
  <2> QED
    BY <2>2, <2>3, <2>4, <2>5 DEF Dominates
<1> QED
  BY <1>1, <1>2 DEF Above

LEMMA CaptureSafe == CaptureInv => BlockIsWellFormed
<1> SUFFICES ASSUME CaptureInv, NEW c \in Started
             PROVE  /\ \A i \in 1..Len(fn[c].block) : \A k \in 1..Len(fn[c].block[i].operands) :
                            \/ Dominates(fn[c], fn[c].block[i].operands[k], i)
                            \/ NullElement(fn[c].block[i], k)
                    /\ ~late[c] => ReturnIsLast(fn[c])
                    /\ hasReturned[c] => \E i \in 1..Len(fn[c].block) :
                            /\ IsTerminator(fn[c].block[i])
                            /\ Len(fn[c].block[i].operands) = fn[c].results
  BY DEF BlockIsWellFormed
<1>1. FunctionOK(fn[c], hasReturned[c], late[c])
  BY DEF CaptureInv, FunctionsInv
<1>2. ASSUME NEW i \in 1..Len(fn[c].block), NEW k \in 1..Len(fn[c].block[i].operands)
      PROVE  Dominates(fn[c], fn[c].block[i].operands[k], i) \/ NullElement(fn[c].block[i], k)
  BY <1>1, AboveDominates DEF FunctionOK, WellFormed, Has
<1> QED
  BY <1>1, <1>2 DEF FunctionOK

(* For any threads, controllers, argument lists and programs that call     *)
(* kernels: wherever operations are inserted and whatever fails, operands  *)
(* are defined above their uses, and the return agrees with the type and   *)
(* is last unless a kernel was recorded after it (func_builder.cpp,        *)
(* createMlirOperationAtEnd).                                              *)
THEOREM BlocksWellFormed == ProgramsCallKernels => (Spec => []BlockIsWellFormed)
<1> SUFFICES ASSUME ProgramsCallKernels
             PROVE  Spec => []BlockIsWellFormed
  OBVIOUS
<1>1. CaptureInv /\ [Next]_vars => CaptureInv'
  BY CaptureNext DEF ProgramsCallKernels
<1> QED
  BY <1>1, CaptureInit, CaptureSafe, PTL DEF Spec

-----------------------------------------------------------------------------
\* Heaps, and kernels on two of them

IsHeap(h) ==
  /\ h = [storage |-> h.storage, contents |-> h.contents]
  /\ IsList(h.contents) /\ h.storage \in Seq(1 .. Len(h.contents))

\* What a heap has is still there, and may have been written.
HeapGrows(h, g) ==
  /\ IsHeap(g)
  /\ Len(h.storage) <= Len(g.storage) /\ Len(h.contents) <= Len(g.contents)
  /\ \A t \in 1 .. Len(h.storage) : g.storage[t] = h.storage[t]

\* An IValue whose tensors exist; the elements of a list can be mapped, and are no lists.
IsElement(h, ival) ==
  /\ ival.kind = "tensor" => ival.tensor \in 1 .. Len(h.storage)
  /\ ival.kind = "scalar" => ival.datum = <<ival.datum[1]>>
  /\ ival.kind \in {"none", "undefined"} => ival.datum = <<"none">>
IsIValue(h, ival) ==
  /\ IsElement(h, ival)
  /\ ival.kind = "list" =>
       /\ Len(ival.elements) \in Nat
       /\ \A i \in 1 .. Len(ival.elements) : IsElement(h, ival.elements[i]) /\ Mappable(ival.elements[i])

OwnNames == {"torch.tensor.literal", "torch.constant", "torch.constant.none",
             "torch.prim.ListConstruct", "std.return"}

\* A call of a kernel that may run: its tensors exist, a backward convolution has its five
\* arguments, and what a kernel writes or views is a tensor.
IsTypedCall(h, call) ==
  /\ IsKernelCall(call) /\ call.op \notin OwnNames
  /\ IsBackward(call.op) => Len(call.args) = 5
  /\ call.op \in {"add_", "copy_", "add_named", "view"} =>
       1 \in 1 .. Len(call.args) /\ call.args[1].kind = "tensor"
  /\ \A i \in 1 .. Len(call.args) : IsIValue(h, call.args[i])

IsMapping(M) == M = [t \in DOMAIN M |-> M[t]]

\* M, a function on tensors of heap h, gives a tensor of heap hs for each of them ...
Within(h, hs, M) ==
  /\ IsMapping(M)
  /\ \A t \in DOMAIN M : t \in 1 .. Len(h.storage) /\ M[t] \in 1 .. Len(hs.storage)

\* ... that has the same contents and shares its storage with the same ones.
Alike(h, hs, M) ==
  /\ \A t \in DOMAIN M : ContentOf(h, t) = ContentOf(hs, M[t])
  /\ \A t, u \in DOMAIN M : h.storage[t] = h.storage[u] <=> hs.storage[M[t]] = hs.storage[M[u]]

\* Datum d of hs stands for an IValue of h.
ElementStands(M, ival, d) ==
  CASE ival.kind = "tensor" -> ival.tensor \in DOMAIN M /\ d = Tensor(M[ival.tensor])
    [] ival.kind = "scalar" -> d = Scalar(ival.datum[1])
    [] ival.kind \in {"none", "undefined"} -> d = None
    [] OTHER -> FALSE
Stands(M, ival, d) ==
  IF ival.kind # "list" THEN ElementStands(M, ival, d)
  ELSE \E e : /\ d = ListOf(e) /\ Len(e) = Len(ival.elements)
              /\ \A i \in 1 .. Len(e) : ElementStands(M, ival.elements[i], e[i])

\* N adds to M.
Adds(M, N) == DOMAIN M \subseteq DOMAIN N /\ \A t \in DOMAIN M : N[t] = M[t]

LEMMA StandsOn ==
  ASSUME NEW M, NEW N, Adds(M, N), NEW ival, NEW d, Stands(M, ival, d)
  PROVE  Stands(N, ival, d)
<1>1. \A iv, e : ElementStands(M, iv, e) => ElementStands(N, iv, e)
  BY DEF ElementStands, Adds
<1> QED
  BY <1>1 DEF Stands

LEMMA SameDatum ==
  ASSUME NEW h, NEW hs, NEW M, Alike(h, hs, M), NEW ival, IsIValue(h, ival),
         NEW d, Stands(M, ival, d)
  PROVE  DatumOf(h, ival) = DatumOf(hs, d)
<1>1. ASSUME NEW iv, IsElement(h, iv), NEW e, ElementStands(M, iv, e)
      PROVE  LeafDatum(h, iv) = LeafDatum(hs, e) /\ e.kind # "list" /\ iv.kind # "list"
  <2>1. CASE iv.kind = "tensor"
    BY <1>1, <2>1 DEF ElementStands, Alike, Tensor, LeafDatum
  <2>2. CASE iv.kind = "scalar"
    BY <1>1, <2>2 DEF ElementStands, Scalar, IsElement, LeafDatum
  <2>3. CASE iv.kind \in {"none", "undefined"}
    BY <1>1, <2>3 DEF ElementStands, None, IsElement, LeafDatum
  <2> QED
    BY <1>1, <2>1, <2>2, <2>3 DEF ElementStands
<1>2. CASE ival.kind # "list"
  <2>1. LeafDatum(h, ival) = LeafDatum(hs, d) /\ d.kind # "list"
    BY <1>1, <1>2 DEF IsIValue, Stands
  <2> QED
    BY <1>2, <2>1 DEF DatumOf
<1>3. CASE ival.kind = "list"
  <2>1. PICK e : /\ d = ListOf(e) /\ Len(e) = Len(ival.elements)
                 /\ \A i \in 1 .. Len(e) : ElementStands(M, ival.elements[i], e[i])
    BY <1>3 DEF Stands
  <2>2. d.kind = "list" /\ d.elements = e
    BY <2>1 DEF ListOf
  <2>3. \A i \in 1 .. Len(e) : ElementDatum(h, ival.elements[i]) = ElementDatum(hs, e[i])
    BY <1>1, <1>3, <2>1 DEF IsIValue, ElementDatum
  <2> DEFINE one == [i \in 1 .. Len(ival.elements) |-> ElementDatum(h, ival.elements[i])]
             other == [i \in 1 .. Len(d.elements) |-> ElementDatum(hs, d.elements[i])]
  <2>4. one = other
    BY <2>1, <2>2, <2>3
  <2>5. DatumOf(h, ival) = <<"[">> \o FlattenSeq(one) \o <<"]">>
    BY <1>3 DEF DatumOf, ListDatum
  <2>6. DatumOf(hs, d) = <<"[">> \o FlattenSeq(other) \o <<"]">>
    BY <2>2 DEF DatumOf, ListDatum
  <2> QED
    BY <2>4, <2>5, <2>6
<1> QED
  BY <1>2, <1>3

LEMMA SameTerm ==
  ASSUME NEW h, NEW hs, NEW M, Alike(h, hs, M), NEW name, NEW args, NEW ds,
         Len(ds) = Len(args), \A i \in 1 .. Len(args) : IsIValue(h, args[i]),
         \A i \in 1 .. Len(args) : Stands(M, args[i], ds[i])
  PROVE  Term(h, name, args) = Term(hs, name, ds)
<1>1. \A i \in 1 .. Len(args) : DatumOf(h, args[i]) = DatumOf(hs, ds[i])
  BY SameDatum
<1>2. [i \in 1 .. Len(args) |-> DatumOf(h, args[i])] = [i \in 1 .. Len(ds) |-> DatumOf(hs, ds[i])]
  BY <1>1
<1> QED
  BY <1>2 DEF Term

\* A heap as EXCEPT changes it.
SetsStorage(h, t, g) == g = [h EXCEPT !.storage = t]
SetsContents(h, t, g) == g = [h EXCEPT !.contents = t]

LEMMA WithStorage ==
  ASSUME NEW h, IsHeap(h), NEW t, NEW g, SetsStorage(h, t, g)
  PROVE  g = [storage |-> t, contents |-> h.contents]
BY DEF IsHeap, SetsStorage

LEMMA WithContents ==
  ASSUME NEW h, IsHeap(h), NEW t, NEW g, SetsContents(h, t, g)
  PROVE  g = [storage |-> h.storage, contents |-> t]
BY DEF IsHeap, SetsContents

LEMMA HeapLengths ==
  ASSUME NEW h, IsHeap(h)
  PROVE  /\ Len(h.storage) \in Nat /\ Len(h.contents) \in Nat
         /\ \A t \in 1 .. Len(h.storage) : h.storage[t] \in 1 .. Len(h.contents)
BY ListLength DEF IsHeap

LEMMA AllocateIs ==
  ASSUME NEW h, IsHeap(h), NEW content, NEW g, g = Allocate(h, content)
  PROVE  /\ HeapGrows(h, g) /\ Len(g.storage) = Len(h.storage) + 1
         /\ NewTensor(h) = Len(h.storage) + 1
         /\ g.storage[NewTensor(h)] = Len(h.contents) + 1
         /\ ContentOf(g, NewTensor(h)) = content
         /\ \A t \in 1 .. Len(h.storage) : ContentOf(g, t) = ContentOf(h, t)
<1>1. PICK n \in Nat, m \in Nat : n = Len(h.storage) /\ m = Len(h.contents)
  BY HeapLengths
<1>2. g.storage = Append(h.storage, m + 1) /\ g.contents = Append(h.contents, content)
      /\ g = [storage |-> g.storage, contents |-> g.contents]
  BY <1>1 DEF Allocate
<1>3. /\ IsList(g.contents) /\ Len(g.contents) = m + 1 /\ g.contents[m + 1] = content
      /\ \A i \in 1 .. m : g.contents[i] = h.contents[i]
  BY <1>1, <1>2, ListAppend DEF IsHeap
<1>4. h.storage \in Seq(1 .. m + 1)
  <2>1. 1 .. m \subseteq 1 .. m + 1
    OBVIOUS
  <2> QED
    BY <1>1, <2>1, Widened DEF IsHeap
<1>5. /\ g.storage \in Seq(1 .. m + 1) /\ Len(g.storage) = n + 1 /\ g.storage[n + 1] = m + 1
      /\ \A t \in 1 .. n : g.storage[t] = h.storage[t]
  BY <1>1, <1>2, <1>4
<1>6. \A t \in 1 .. n : h.storage[t] \in 1 .. m
  BY <1>1, HeapLengths
<1>7. IsHeap(g)
  BY <1>2, <1>3, <1>5 DEF IsHeap
<1>8. HeapGrows(h, g)
  BY <1>1, <1>3, <1>5, <1>7 DEF HeapGrows
<1>9. \A t \in 1 .. n : g.contents[h.storage[t]] = h.contents[h.storage[t]]
  BY <1>3, <1>6
<1> QED
  BY <1>1, <1>3, <1>5, <1>8, <1>9 DEF ContentOf, NewTensor

LEMMA AddViewIs ==
  ASSUME NEW h, IsHeap(h), NEW v \in 1 .. Len(h.storage), NEW g, g = AddView(h, v)
  PROVE  /\ HeapGrows(h, g) /\ Len(g.storage) = Len(h.storage) + 1
         /\ NewTensor(h) = Len(h.storage) + 1
         /\ g.storage[NewTensor(h)] = h.storage[v]
         /\ ContentOf(g, NewTensor(h)) = ContentOf(h, v)
         /\ \A t \in 1 .. Len(h.storage) : ContentOf(g, t) = ContentOf(h, t)
<1>1. PICK n \in Nat, m \in Nat : n = Len(h.storage) /\ m = Len(h.contents)
  BY HeapLengths
<1>2. SetsStorage(h, Append(h.storage, h.storage[v]), g)
  BY DEF AddView, SetsStorage
<1>3. g = [storage |-> Append(h.storage, h.storage[v]), contents |-> h.contents]
  BY <1>2, WithStorage
<1>4. h.storage[v] \in 1 .. m
  BY <1>1, HeapLengths
<1>5. /\ g.storage \in Seq(1 .. m) /\ Len(g.storage) = n + 1 /\ g.storage[n + 1] = h.storage[v]
      /\ \A t \in 1 .. n : g.storage[t] = h.storage[t]
  BY <1>1, <1>3, <1>4 DEF IsHeap
<1>6. IsHeap(g) /\ g.contents = h.contents
  BY <1>1, <1>3, <1>5 DEF IsHeap
<1>7. HeapGrows(h, g)
  BY <1>1, <1>5, <1>6 DEF HeapGrows
<1> QED
  BY <1>1, <1>5, <1>6, <1>7 DEF ContentOf, NewTensor

LEMMA WriteIs ==
  ASSUME NEW h, IsHeap(h), NEW v \in 1 .. Len(h.storage), NEW content, NEW g, g = Write(h, v, content)
  PROVE  /\ HeapGrows(h, g) /\ g.storage = h.storage
         /\ \A t \in 1 .. Len(h.storage) :
              ContentOf(g, t) = IF h.storage[t] = h.storage[v] THEN content ELSE ContentOf(h, t)
<1>1. PICK n \in Nat, m \in Nat : n = Len(h.storage) /\ m = Len(h.contents)
  BY HeapLengths
<1> DEFINE new == [h.contents EXCEPT ![h.storage[v]] = content]
<1>2. SetsContents(h, new, g)
  BY DEF Write, SetsContents
<1>3. /\ DOMAIN new = DOMAIN h.contents
      /\ \A i \in DOMAIN h.contents : new[i] = IF i = h.storage[v] THEN content ELSE h.contents[i]
  OBVIOUS
<1>4. IsList(new) /\ Len(new) = m
  <2>1. PICK S : h.contents \in Seq(S)
    BY DEF IsHeap, IsList
  <2>2. PICK T : T = S \cup {content}
    OBVIOUS
  <2>3. h.contents \in Seq(T) /\ content \in T
    BY <2>1, <2>2, Widened
  <2>4. new \in Seq(T) /\ Len(new) = Len(h.contents)
    BY <2>3, HeapLengths, ExceptSeq
  <2> QED
    BY <1>1, <2>4 DEF IsList
<1> HIDE DEF new
<1>5. g.storage = h.storage /\ g.contents = new /\ g = [storage |-> g.storage, contents |-> g.contents]
  BY <1>2, WithContents
<1>6. IsHeap(g) /\ HeapGrows(h, g)
  BY <1>1, <1>4, <1>5 DEF IsHeap, HeapGrows
<1>7. \A t \in 1 .. n : h.storage[t] \in DOMAIN h.contents
  BY <1>1, HeapLengths, ListLength DEF IsHeap
<1> QED
  BY <1>1, <1>3, <1>5, <1>6, <1>7 DEF ContentOf

\* M with a place for t.
With(M, t, p) == [u \in DOMAIN M \cup {t} |-> IF u = t THEN p ELSE M[u]]

IsWith(M, t, p, N) ==
  /\ DOMAIN N = DOMAIN M \cup {t} /\ N[t] = p /\ IsMapping(N)
  /\ \A u \in DOMAIN M : u # t => N[u] = M[u]

LEMMA WithIs ==
  ASSUME NEW M, NEW t, NEW p
  PROVE  IsWith(M, t, p, With(M, t, p))
BY DEF With, IsWith, IsMapping

LEMMA WithAdds ==
  ASSUME NEW M, NEW t, NEW p, NEW N, IsWith(M, t, p, N), t \notin DOMAIN M \/ M[t] = p
  PROVE  Adds(M, N)
BY DEF IsWith, Adds

\* Heaps that only got more stay alike in what they had.
LEMMA OldStayAlike ==
  ASSUME NEW h, NEW hs, NEW M, Within(h, hs, M), IsHeap(h), IsHeap(hs),
         NEW g, HeapGrows(h, g), \A t \in 1 .. Len(h.storage) : ContentOf(g, t) = ContentOf(h, t),
         NEW gs, HeapGrows(hs, gs), \A t \in 1 .. Len(hs.storage) : ContentOf(gs, t) = ContentOf(hs, t)
  PROVE  Within(g, gs, M) /\ (Alike(h, hs, M) => Alike(g, gs, M))
<1>1. /\ Len(h.storage) \in Nat /\ Len(g.storage) \in Nat
      /\ Len(hs.storage) \in Nat /\ Len(gs.storage) \in Nat
  BY HeapLengths DEF HeapGrows
<1>2. Within(g, gs, M)
  BY <1>1 DEF Within, HeapGrows
<1>3. ASSUME Alike(h, hs, M)
      PROVE  Alike(g, gs, M)
  <2>1. \A t \in DOMAIN M : t \in 1 .. Len(h.storage) /\ M[t] \in 1 .. Len(hs.storage)
    BY DEF Within
  <2>2. \A t \in DOMAIN M : ContentOf(g, t) = ContentOf(gs, M[t])
    BY <1>3, <2>1 DEF Alike
  <2>3. \A t \in DOMAIN M : g.storage[t] = h.storage[t] /\ gs.storage[M[t]] = hs.storage[M[t]]
    BY <2>1 DEF HeapGrows
  <2> QED
    BY <1>3, <2>2, <2>3 DEF Alike
<1> QED
  BY <1>2, <1>3

\* The same content is put into a new storage of both.
LEMMA AllocateBoth ==
  ASSUME NEW h, NEW hs, NEW M, Within(h, hs, M), IsHeap(h), IsHeap(hs),
         NEW content, NEW own, NEW g, g = Allocate(h, content), NEW gs, gs = Allocate(hs, own),
         NEW N, N = With(M, NewTensor(h), NewTensor(hs))
  PROVE  /\ Within(g, gs, N) /\ Adds(M, N) /\ HeapGrows(h, g) /\ HeapGrows(hs, gs)
         /\ NewTensor(h) \notin DOMAIN M
         /\ Alike(h, hs, M) /\ content = own => Alike(g, gs, N)
<1>1. /\ HeapGrows(h, g) /\ Len(g.storage) = Len(h.storage) + 1
      /\ NewTensor(h) = Len(h.storage) + 1 /\ g.storage[NewTensor(h)] = Len(h.contents) + 1
      /\ ContentOf(g, NewTensor(h)) = content
      /\ \A t \in 1 .. Len(h.storage) : ContentOf(g, t) = ContentOf(h, t)
  BY AllocateIs
<1>2. /\ HeapGrows(hs, gs) /\ Len(gs.storage) = Len(hs.storage) + 1
      /\ NewTensor(hs) = Len(hs.storage) + 1 /\ gs.storage[NewTensor(hs)] = Len(hs.contents) + 1
      /\ ContentOf(gs, NewTensor(hs)) = own
      /\ \A t \in 1 .. Len(hs.storage) : ContentOf(gs, t) = ContentOf(hs, t)
  BY AllocateIs
<1>3. PICK t \in Nat, p \in Nat : t = NewTensor(h) /\ p = NewTensor(hs)
  BY <1>1, <1>2, HeapLengths
<1>4. \A u \in DOMAIN M : u \in 1 .. Len(h.storage) /\ M[u] \in 1 .. Len(hs.storage)
  BY DEF Within
<1>5. t \notin DOMAIN M
  BY <1>1, <1>3, <1>4, HeapLengths
<1>6. /\ DOMAIN N = DOMAIN M \cup {t} /\ N[t] = p /\ (\A u \in DOMAIN M : N[u] = M[u])
      /\ IsMapping(N) /\ Adds(M, N)
  <2>1. IsWith(M, t, p, N)
    BY <1>3, WithIs
  <2> QED
    BY <1>5, <2>1, WithAdds DEF IsWith
<1>7. Within(g, gs, M) /\ (Alike(h, hs, M) => Alike(g, gs, M))
  BY <1>1, <1>2, OldStayAlike
<1>8. t \in 1 .. Len(g.storage) /\ p \in 1 .. Len(gs.storage)
  BY <1>1, <1>2, <1>3, HeapLengths
<1>9. Within(g, gs, N)
  BY <1>6, <1>7, <1>8 DEF Within
<1>10. \A u \in DOMAIN M : g.storage[u] # g.storage[t] /\ gs.storage[M[u]] # gs.storage[p]
  <2> SUFFICES ASSUME NEW u \in DOMAIN M
               PROVE  g.storage[u] # g.storage[t] /\ gs.storage[M[u]] # gs.storage[p]
    OBVIOUS
  <2>1. g.storage[u] = h.storage[u] /\ h.storage[u] \in 1 .. Len(h.contents)
    BY <1>1, <1>4, HeapLengths DEF HeapGrows
  <2>2. gs.storage[M[u]] = hs.storage[M[u]] /\ hs.storage[M[u]] \in 1 .. Len(hs.contents)
    BY <1>2, <1>4, HeapLengths DEF HeapGrows
  <2>3. Len(h.contents) \in Nat /\ Len(hs.contents) \in Nat
    BY HeapLengths
  <2> QED
    BY <1>1, <1>2, <1>3, <2>1, <2>2, <2>3
<1>11. ASSUME Alike(h, hs, M), content = own
       PROVE  Alike(g, gs, N)
  <2>1. Alike(g, gs, M)
    BY <1>7, <1>11
  <2>2. ContentOf(g, t) = ContentOf(gs, p)
    BY <1>1, <1>2, <1>3, <1>11
  <2> QED
    BY <1>6, <1>10, <2>1, <2>2 DEF Alike
<1> QED
  BY <1>1, <1>2, <1>3, <1>5, <1>6, <1>9, <1>11

\* Both get a view on tensors that correspond.
LEMMA ViewBoth ==
  ASSUME NEW h, NEW hs, NEW M, Within(h, hs, M), IsHeap(h), IsHeap(hs),
         NEW v \in DOMAIN M, NEW g, g = AddView(h, v), NEW gs, gs = AddView(hs, M[v]),
         NEW N, N = With(M, NewTensor(h), NewTensor(hs))
  PROVE  /\ Within(g, gs, N) /\ Adds(M, N) /\ HeapGrows(h, g) /\ HeapGrows(hs, gs)
         /\ Alike(h, hs, M) => Alike(g, gs, N)
<1>4. \A u \in DOMAIN M : u \in 1 .. Len(h.storage) /\ M[u] \in 1 .. Len(hs.storage)
  BY DEF Within
<1>1. /\ HeapGrows(h, g) /\ Len(g.storage) = Len(h.storage) + 1
      /\ NewTensor(h) = Len(h.storage) + 1 /\ g.storage[NewTensor(h)] = h.storage[v]
      /\ ContentOf(g, NewTensor(h)) = ContentOf(h, v)
      /\ \A t \in 1 .. Len(h.storage) : ContentOf(g, t) = ContentOf(h, t)
  BY <1>4, AddViewIs
<1>2. /\ HeapGrows(hs, gs) /\ Len(gs.storage) = Len(hs.storage) + 1
      /\ NewTensor(hs) = Len(hs.storage) + 1 /\ gs.storage[NewTensor(hs)] = hs.storage[M[v]]
      /\ ContentOf(gs, NewTensor(hs)) = ContentOf(hs, M[v])
      /\ \A t \in 1 .. Len(hs.storage) : ContentOf(gs, t) = ContentOf(hs, t)
  BY <1>4, AddViewIs
<1>3. PICK t \in Nat, p \in Nat : t = NewTensor(h) /\ p = NewTensor(hs)
  BY <1>1, <1>2, HeapLengths
<1>5. t \notin DOMAIN M
  BY <1>1, <1>3, <1>4, HeapLengths
<1>6. /\ DOMAIN N = DOMAIN M \cup {t} /\ N[t] = p /\ (\A u \in DOMAIN M : N[u] = M[u])
      /\ IsMapping(N) /\ Adds(M, N)
  <2>1. IsWith(M, t, p, N)
    BY <1>3, WithIs
  <2> QED
    BY <1>5, <2>1, WithAdds DEF IsWith
<1>7. Within(g, gs, M) /\ (Alike(h, hs, M) => Alike(g, gs, M))
  BY <1>1, <1>2, OldStayAlike
<1>8. t \in 1 .. Len(g.storage) /\ p \in 1 .. Len(gs.storage)
  BY <1>1, <1>2, <1>3, HeapLengths
<1>9. Within(g, gs, N)
  BY <1>6, <1>7, <1>8 DEF Within
<1>10. /\ g.storage[t] = g.storage[v] /\ gs.storage[p] = gs.storage[M[v]]
       /\ ContentOf(g, t) = ContentOf(g, v) /\ ContentOf(gs, p) = ContentOf(gs, M[v])
  BY <1>1, <1>2, <1>3, <1>4 DEF HeapGrows
<1>11. ASSUME Alike(h, hs, M)
       PROVE  Alike(g, gs, N)
  <2>1. Alike(g, gs, M)
    BY <1>7, <1>11
  <2> QED
    BY <1>6, <1>10, <2>1 DEF Alike
<1> QED
  BY <1>1, <1>2, <1>3, <1>5, <1>6, <1>9, <1>11

\* The same content is written to tensors that correspond.
LEMMA WriteBoth ==
  ASSUME NEW h, NEW hs, NEW M, Within(h, hs, M), IsHeap(h), IsHeap(hs), NEW v \in DOMAIN M,
         NEW content, NEW own, NEW g, g = Write(h, v, content), NEW gs, gs = Write(hs, M[v], own)
  PROVE  /\ Within(g, gs, M) /\ HeapGrows(h, g) /\ HeapGrows(hs, gs)
         /\ Alike(h, hs, M) /\ content = own => Alike(g, gs, M)
<1>1. \A u \in DOMAIN M : u \in 1 .. Len(h.storage) /\ M[u] \in 1 .. Len(hs.storage)
  BY DEF Within
<1>2. /\ HeapGrows(h, g) /\ g.storage = h.storage
      /\ \A t \in 1 .. Len(h.storage) :
           ContentOf(g, t) = IF h.storage[t] = h.storage[v] THEN content ELSE ContentOf(h, t)
  BY <1>1, WriteIs
<1>3. /\ HeapGrows(hs, gs) /\ gs.storage = hs.storage
      /\ \A t \in 1 .. Len(hs.storage) :
           ContentOf(gs, t) = IF hs.storage[t] = hs.storage[M[v]] THEN own ELSE ContentOf(hs, t)
  BY <1>1, WriteIs
<1>4. Within(g, gs, M)
  BY <1>2, <1>3 DEF Within
<1>5. ASSUME Alike(h, hs, M), content = own
      PROVE  Alike(g, gs, M)
  <2>1. ASSUME NEW t \in DOMAIN M
        PROVE  ContentOf(g, t) = ContentOf(gs, M[t])
    <3>1. /\ ContentOf(g, t) = IF h.storage[t] = h.storage[v] THEN content ELSE ContentOf(h, t)
          /\ ContentOf(gs, M[t]) = IF hs.storage[M[t]] = hs.storage[M[v]] THEN own
                                   ELSE ContentOf(hs, M[t])
      BY <1>1, <1>2, <1>3
    <3> QED
      BY <1>5, <3>1 DEF Alike
  <2> QED
    BY <1>2, <1>3, <1>5, <2>1 DEF Alike
<1> QED
  BY <1>2, <1>3, <1>4, <1>5

-----------------------------------------------------------------------------
\* A kernel run on two heaps that are alike

\* The tensors a kernel returns.
TensorsOf(results) ==
  {results[i].tensor : i \in {j \in 1 .. Len(results) : results[j].kind = "tensor"}}

\* Results as kernels have them: tensors exist, undefined ones are number 0, and what is
\* not a tensor comes after the tensors.
ResultsFit(h, results) ==
  /\ Len(results) \in Nat
  /\ \A i \in 1 .. Len(results) :
       results[i].kind = "tensor" => results[i].tensor \in 1 .. Len(h.storage)
  /\ \A i \in 1 .. Len(results) : results[i].kind = "undefined" => results[i].tensor = 0
  /\ \A i \in 1 .. Len(results) :
       IsTensorResult(results[i]) => \A j \in 1 .. i : IsTensorResult(results[j])

\* The kernel run on h and the one replayed on hs leave heaps on which N relates what M
\* related and the tensors returned.
RunAlike(h, hs, M, ran, own, N) ==
  /\ HeapGrows(h, ran.heap) /\ HeapGrows(hs, own.heap)
  /\ Within(ran.heap, own.heap, N) /\ Adds(M, N)
  /\ DOMAIN N = DOMAIN M \cup TensorsOf(ran.results)
  /\ ResultsFit(ran.heap, ran.results)
  /\ \A i \in 1 .. Len(ran.results) :
       ran.results[i].kind = "tensor" => own.results[i] = Tensor(N[ran.results[i].tensor])
  /\ Alike(h, hs, M) => Alike(ran.heap, own.heap, N)

LEMMA HeapGrowsOn ==
  ASSUME NEW h, IsHeap(h), NEW g, HeapGrows(h, g), NEW k, HeapGrows(g, k)
  PROVE  HeapGrows(h, k)
<1>1. PICK a \in Nat, b \in Nat, c \in Nat : a = Len(h.storage) /\ b = Len(g.storage) /\ c = Len(k.storage)
  BY HeapLengths DEF HeapGrows
<1>2. PICK x \in Nat, y \in Nat, z \in Nat : x = Len(h.contents) /\ y = Len(g.contents) /\ z = Len(k.contents)
  BY HeapLengths DEF HeapGrows
<1>3. a <= b /\ b <= c /\ x <= y /\ y <= z
  BY <1>1, <1>2 DEF HeapGrows
<1>4. a <= c /\ x <= z
  BY <1>3
<1>5. \A t \in 1 .. a : t \in 1 .. b
  BY <1>3
<1>6. \A t \in 1 .. a : k.storage[t] = h.storage[t]
  BY <1>1, <1>5 DEF HeapGrows
<1> QED
  BY <1>1, <1>2, <1>4, <1>6 DEF HeapGrows

LEMMA HeapGrowsSame ==
  ASSUME NEW h, IsHeap(h)
  PROVE  HeapGrows(h, h)
BY HeapLengths DEF HeapGrows

LEMMA AddsSame ==
  ASSUME NEW M
  PROVE  Adds(M, M)
BY DEF Adds

LEMMA AddsOn ==
  ASSUME NEW M, NEW N, NEW K, Adds(M, N), Adds(N, K)
  PROVE  Adds(M, K)
BY DEF Adds

LEMMA KindsOf ==
  ASSUME NEW t
  PROVE  /\ Tensor(t).kind = "tensor" /\ Tensor(t).tensor = t
         /\ UndefinedTensor.kind = "undefined" /\ UndefinedTensor.tensor = 0
         /\ Unsupported.kind = "unsupported"
         /\ \A e : ListOf(e).kind = "list" /\ ListOf(e).elements = e
BY DEF Tensor, UndefinedTensor, Unsupported, ListOf

\* One result.
LEMMA OneResult ==
  ASSUME NEW r, NEW results, results = <<r>>
  PROVE  /\ Len(results) = 1 /\ results[1] = r
         /\ \A i \in 1 .. Len(results) : i = 1
         /\ TensorsOf(results) = IF r.kind = "tensor" THEN {r.tensor} ELSE {}
BY DEF TensorsOf

LEMMA OneResultFits ==
  ASSUME NEW r, NEW results, results = <<r>>, NEW h,
         r.kind = "tensor" => r.tensor \in 1 .. Len(h.storage), r.kind # "undefined"
  PROVE  ResultsFit(h, results)
<1>1. Len(results) = 1 /\ results[1] = r
  OBVIOUS
<1> QED
  BY <1>1 DEF ResultsFit

\* Backward convolutions, with their arguments in the order of the kernel of mkldnn.
Backward(h, x1, x2, x3, x4, x5) ==
  [heap |-> Allocate(Allocate(h, BackwardTerm(h, "grad_input", x1, x2, x3, x4, x5)),
                     BackwardTerm(h, "grad_weight", x1, x2, x3, x4, x5)),
   results |-> <<Tensor(NewTensor(h)), Tensor(NewTensor(h) + 1), UndefinedTensor>>]

LEMMA BackwardIs ==
  ASSUME NEW h, NEW args
  PROVE  /\ BackwardOf(h, "mkldnn_convolution_backward", args) =
              Backward(h, args[1], args[2], args[3], args[4], args[5])
         /\ BackwardOf(h, "convolution_backward_overrideable", args) =
              Backward(h, args[2], args[1], args[3], args[5], args[4])
<1>1. "convolution_backward_overrideable" # "mkldnn_convolution_backward"
  OBVIOUS
<1>2. PICK a : a = <<args[2], args[1], args[3], args[5], args[4]>>
  OBVIOUS
<1>3. a[1] = args[2] /\ a[2] = args[1] /\ a[3] = args[3] /\ a[4] = args[5] /\ a[5] = args[4]
  BY <1>2
<1> QED
  BY <1>1, <1>2, <1>3 DEF BackwardOf, Backward

LEMMA RunsBackward ==
  ASSUME NEW h, NEW name, IsBackward(name), NEW args
  PROVE  Run(h, name, args) = BackwardOf(h, name, args)
<1>1. /\ ~ Writes(name) /\ name # "view" /\ name # "nonzero" /\ name # "add_named"
  BY DEF IsBackward, Writes
<1> QED
  BY <1>1 DEF Run

LEMMA BackwardBoth ==
  ASSUME NEW h, NEW hs, NEW M, IsHeap(h), IsHeap(hs), Within(h, hs, M),
         NEW xs, Len(xs) = 5, \A i \in 1 .. 5 : IsIValue(h, xs[i]),
         NEW ys, Len(ys) = 5, \A i \in 1 .. 5 : Stands(M, xs[i], ys[i]),
         NEW x, x = <<xs[1], xs[2], xs[3], xs[4], xs[5]>>,
         NEW y, y = <<ys[1], ys[2], ys[3], ys[4], ys[5]>>,
         NEW ran, ran = Backward(h, xs[1], xs[2], xs[3], xs[4], xs[5]),
         NEW own, own = Backward(hs, ys[1], ys[2], ys[3], ys[4], ys[5])
  PROVE  \E N : RunAlike(h, hs, M, ran, own, N)
<1>1. /\ Len(x) = 5 /\ Len(y) = 5
      /\ \A i \in 1 .. 5 : IsIValue(h, x[i]) /\ Stands(M, x[i], y[i])
  <2>1. \A i \in 1 .. 5 : x[i] = xs[i] /\ y[i] = ys[i]
    <3>1. \A i \in 1 .. 5 : i = 1 \/ i = 2 \/ i = 3 \/ i = 4 \/ i = 5
      OBVIOUS
    <3> QED
      BY <3>1
  <2>2. Len(x) = 5 /\ Len(y) = 5
    OBVIOUS
  <2> QED
    BY <2>1, <2>2
<1> DEFINE c1 == Term(h, "grad_input", x)
           c2 == Term(h, "grad_weight", x)
           d1 == Term(hs, "grad_input", y)
           d2 == Term(hs, "grad_weight", y)
           g1 == Allocate(h, c1)
           g2 == Allocate(g1, c2)
           e1 == Allocate(hs, d1)
           e2 == Allocate(e1, d2)
           n == NewTensor(h)
           m == NewTensor(hs)
           K == With(M, n, m)
           N == With(K, NewTensor(g1), NewTensor(e1))
<1>2. Alike(h, hs, M) => c1 = d1 /\ c2 = d2
  BY <1>1, SameTerm
<1>3. /\ ran.heap = g2 /\ ran.results = <<Tensor(n), Tensor(n + 1), UndefinedTensor>>
      /\ own.heap = e2 /\ own.results = <<Tensor(m), Tensor(m + 1), UndefinedTensor>>
  BY DEF Backward, BackwardTerm
<1> HIDE DEF c1, c2, d1, d2
<1>4. /\ Within(g1, e1, K) /\ Adds(M, K) /\ HeapGrows(h, g1) /\ HeapGrows(hs, e1)
      /\ Alike(h, hs, M) => Alike(g1, e1, K)
  <2>1. Alike(h, hs, M) /\ c1 = d1 => Alike(g1, e1, K)
    BY AllocateBoth
  <2>2. Within(g1, e1, K) /\ Adds(M, K) /\ HeapGrows(h, g1) /\ HeapGrows(hs, e1)
    BY AllocateBoth
  <2> QED
    BY <1>2, <2>1, <2>2
<1>5. Len(g1.storage) = Len(h.storage) + 1 /\ Len(e1.storage) = Len(hs.storage) + 1
  BY AllocateIs
<1>6. /\ n = Len(h.storage) + 1 /\ NewTensor(g1) = n + 1
      /\ m = Len(hs.storage) + 1 /\ NewTensor(e1) = m + 1
  BY <1>5, HeapLengths DEF NewTensor
<1>7. IsWith(M, n, m, K) /\ IsWith(K, n + 1, m + 1, N)
  BY <1>6, WithIs
<1> HIDE DEF g1, e1, n, m, K
<1>8. IsHeap(g1) /\ IsHeap(e1)
  BY <1>4 DEF HeapGrows
<1>9. /\ Within(g2, e2, N) /\ Adds(K, N) /\ HeapGrows(g1, g2) /\ HeapGrows(e1, e2)
      /\ NewTensor(g1) \notin DOMAIN K
      /\ Alike(h, hs, M) => Alike(g2, e2, N)
  <2>1. Alike(g1, e1, K) /\ c2 = d2 => Alike(g2, e2, N)
    BY <1>4, <1>8, AllocateBoth
  <2>2. /\ Within(g2, e2, N) /\ Adds(K, N) /\ HeapGrows(g1, g2) /\ HeapGrows(e1, e2)
        /\ NewTensor(g1) \notin DOMAIN K
    BY <1>4, <1>8, AllocateBoth
  <2> QED
    BY <1>2, <1>4, <2>1, <2>2
<1>10. Len(g2.storage) = n + 1
  BY <1>5, <1>6, <1>8, AllocateIs, HeapLengths
<1> HIDE DEF g2, e2, N
<1>11. n \in Nat \ {0} /\ m \in Nat \ {0}
  BY <1>6, HeapLengths
<1>12. HeapGrows(h, g2) /\ HeapGrows(hs, e2)
  BY <1>4, <1>9, HeapGrowsOn
<1>13. PICK rs : rs = ran.results
  OBVIOUS
<1>14. /\ Len(rs) = 3 /\ rs[1] = Tensor(n) /\ rs[2] = Tensor(n + 1) /\ rs[3] = UndefinedTensor
       /\ \A i \in 1 .. Len(rs) : i = 1 \/ i = 2 \/ i = 3
  BY <1>3, <1>13
<1>15. TensorsOf(rs) = {n, n + 1}
  <2>1. {j \in 1 .. Len(rs) : rs[j].kind = "tensor"} = {1, 2}
    <3>1. /\ rs[1].kind = "tensor" /\ rs[2].kind = "tensor" /\ rs[3].kind # "tensor"
      BY <1>14, KindsOf
    <3>2. 1 \in 1 .. Len(rs) /\ 2 \in 1 .. Len(rs)
      BY <1>14
    <3> QED
      BY <1>14, <3>1, <3>2
  <2>2. TensorsOf(rs) = {rs[i].tensor : i \in {1, 2}}
    BY <2>1 DEF TensorsOf
  <2>3. rs[1].tensor = n /\ rs[2].tensor = n + 1
    BY <1>14, KindsOf
  <2> QED
    BY <2>2, <2>3
<1>16. DOMAIN N = DOMAIN M \cup TensorsOf(rs)
  BY <1>7, <1>15 DEF IsWith
<1>17. ResultsFit(g2, rs)
  <2>1. /\ rs[1].kind = "tensor" /\ rs[2].kind = "tensor" /\ rs[3].kind = "undefined"
        /\ rs[1].tensor = n /\ rs[2].tensor = n + 1 /\ rs[3].tensor = 0
    BY <1>14, KindsOf
  <2>2. \A i \in 1 .. Len(rs) : IsTensorResult(rs[i])
    BY <1>14, <2>1 DEF IsTensorResult
  <2>3. n \in 1 .. Len(g2.storage) /\ n + 1 \in 1 .. Len(g2.storage)
    BY <1>10, <1>11
  <2>5. \A i \in 1 .. Len(rs) : \A j \in 1 .. i : j \in 1 .. Len(rs)
    BY <1>14
  <2>6. \A i \in 1 .. Len(rs) : \A j \in 1 .. i : IsTensorResult(rs[j])
    BY <2>2, <2>5
  <2>7. Len(rs) \in Nat
    BY <1>14
  <2>8. \A i \in 1 .. Len(rs) : rs[i].kind = "tensor" => rs[i].tensor \in 1 .. Len(g2.storage)
    BY <1>14, <2>1, <2>3
  <2>9. \A i \in 1 .. Len(rs) : rs[i].kind = "undefined" => rs[i].tensor = 0
    BY <1>14, <2>1
  <2>10. \A i \in 1 .. Len(rs) : IsTensorResult(rs[i]) => \A j \in 1 .. i : IsTensorResult(rs[j])
    BY <2>6
  <2> QED
    BY <2>7, <2>8, <2>9, <2>10 DEF ResultsFit
<1>18. \A i \in 1 .. Len(rs) : rs[i].kind = "tensor" => own.results[i] = Tensor(N[rs[i].tensor])
  <2>1. N[n] = m /\ N[n + 1] = m + 1
    BY <1>6, <1>7, <1>9, <1>11 DEF IsWith
  <2>2. own.results[1] = Tensor(m) /\ own.results[2] = Tensor(m + 1)
    BY <1>3
  <2>3. /\ rs[3].kind # "tensor" /\ rs[1].tensor = n /\ rs[2].tensor = n + 1
    BY <1>14, KindsOf
  <2> QED
    BY <1>14, <2>1, <2>2, <2>3
<1>19. Adds(M, N)
  BY <1>4, <1>9, AddsOn
<1>20. RunAlike(h, hs, M, ran, own, N)
  BY <1>3, <1>9, <1>12, <1>13, <1>16, <1>17, <1>18, <1>19 DEF RunAlike
<1> QED
  BY <1>20

LEMMA BackwardGrows ==
  ASSUME NEW h, IsHeap(h), NEW x1, NEW x2, NEW x3, NEW x4, NEW x5
  PROVE  HeapGrows(h, Backward(h, x1, x2, x3, x4, x5).heap)
<1> DEFINE c1 == BackwardTerm(h, "grad_input", x1, x2, x3, x4, x5)
           c2 == BackwardTerm(h, "grad_weight", x1, x2, x3, x4, x5)
           g == Allocate(h, c1)
<1>1. Backward(h, x1, x2, x3, x4, x5).heap = Allocate(g, c2)
  BY DEF Backward
<1> HIDE DEF c1, c2
<1>2. HeapGrows(h, g)
  BY AllocateIs
<1> HIDE DEF g
<1>3. HeapGrows(g, Allocate(g, c2))
  BY <1>2, AllocateIs DEF HeapGrows
<1> QED
  BY <1>1, <1>2, <1>3, HeapGrowsOn

\* A kernel only adds to the heap, or writes to it.
LEMMA RunGrows ==
  ASSUME NEW h, IsHeap(h), NEW call, IsTypedCall(h, call)
  PROVE  HeapGrows(h, Run(h, call.op, call.args).heap)
<1> DEFINE args == call.args
           v == args[1].tensor
           term == Term(h, call.op, args)
           ran == Run(h, call.op, args)
<1> HIDE DEF term
<1>1. ASSUME call.op \in {"add_", "copy_", "add_named", "view"}
      PROVE  v \in 1 .. Len(h.storage)
  BY <1>1 DEF IsTypedCall, IsIValue, IsElement
<1>2. CASE IsBackward(call.op)
  <2>1. ran = BackwardOf(h, call.op, args)
    BY <1>2, RunsBackward
  <2> QED
    BY <1>2, <2>1, BackwardIs, BackwardGrows DEF IsBackward
<1>3. CASE call.op \in {"add_", "copy_", "add_named"}
  <2>1. ran.heap = Write(h, v, term)
    BY <1>3 DEF Run, IsBackward, Writes, term
  <2> QED
    BY <1>1, <1>3, <2>1, WriteIs
<1>4. CASE call.op = "view"
  <2>1. ran.heap = AddView(h, v)
    BY <1>4 DEF Run, IsBackward, Writes
  <2> QED
    BY <1>1, <1>4, <2>1, AddViewIs
<1>5. CASE ~ IsBackward(call.op) /\ call.op \notin {"add_", "copy_", "add_named", "view"}
  <2>1. ran.heap = Allocate(h, term)
    BY <1>5 DEF Run, Writes, term
  <2> QED
    BY <2>1, AllocateIs
<1> QED
  BY <1>2, <1>3, <1>4, <1>5

LEMMA RunBoth ==
  ASSUME NEW h, NEW hs, NEW M, IsHeap(h), IsHeap(hs), Within(h, hs, M),
         NEW call, IsTypedCall(h, call), NEW ds, Len(ds) = Len(RecordedArgs(call)),
         \A k \in 1 .. Len(ds) : Stands(M, RecordedArgs(call)[k], ds[k]),
         NEW ran, ran = Run(h, call.op, call.args), NEW own, own = Run(hs, RecordedName(call), ds)
  PROVE  \E N : RunAlike(h, hs, M, ran, own, N)
<1> DEFINE args == call.args
<1>1. CASE call.op = "mkldnn_convolution_backward"
  <2>1. PICK ys : ys = <<ds[2], ds[1], ds[3], ds[5], ds[4]>>
    OBVIOUS
  <2>2. PICK ps : ps = <<args[2], args[1], args[3], args[5], args[4]>>
    OBVIOUS
  <2>3. RecordedArgs(call) = ps /\ Len(ps) = 5
    BY <1>1, <2>2 DEF RecordedArgs
  <2>4. ps[1] = args[2] /\ ps[2] = args[1] /\ ps[3] = args[3] /\ ps[4] = args[5] /\ ps[5] = args[4]
    BY <2>2
  <2>5. ys[1] = ds[2] /\ ys[2] = ds[1] /\ ys[3] = ds[3] /\ ys[4] = ds[5] /\ ys[5] = ds[4] /\ Len(ys) = 5
    BY <2>1
  <2>6. /\ Stands(M, args[1], ds[2]) /\ Stands(M, args[2], ds[1]) /\ Stands(M, args[3], ds[3])
        /\ Stands(M, args[4], ds[5]) /\ Stands(M, args[5], ds[4])
    <3>1. Len(ds) = 5
      BY <2>3
    <3>2. \A k \in 1 .. 5 : Stands(M, ps[k], ds[k])
      BY <2>3, <3>1
    <3>3. 1 \in 1 .. 5 /\ 2 \in 1 .. 5 /\ 3 \in 1 .. 5 /\ 4 \in 1 .. 5 /\ 5 \in 1 .. 5
      OBVIOUS
    <3>4. /\ Stands(M, ps[1], ds[1]) /\ Stands(M, ps[2], ds[2]) /\ Stands(M, ps[3], ds[3])
          /\ Stands(M, ps[4], ds[4]) /\ Stands(M, ps[5], ds[5])
      BY <3>2, <3>3
    <3> QED
      BY <2>4, <3>4
  <2>7. \A i \in 1 .. 5 : Stands(M, args[i], ys[i])
    <3>1. \A i \in 1 .. 5 : i = 1 \/ i = 2 \/ i = 3 \/ i = 4 \/ i = 5
      OBVIOUS
    <3> QED
      BY <2>5, <2>6, <3>1
  <2>8. Len(args) = 5 /\ \A i \in 1 .. 5 : IsIValue(h, args[i])
    BY <1>1 DEF IsTypedCall, IsBackward
  <2>9. ran = Backward(h, args[1], args[2], args[3], args[4], args[5])
    BY <1>1, BackwardIs, RunsBackward DEF IsBackward
  <2>10. own = Backward(hs, ys[1], ys[2], ys[3], ys[4], ys[5])
    <3>1. own = BackwardOf(hs, "convolution_backward_overrideable", ds)
      BY <1>1, RunsBackward DEF RecordedName, IsBackward
    <3> QED
      BY <2>5, <3>1, BackwardIs
  <2> QED
    BY <2>5, <2>7, <2>8, <2>9, <2>10, BackwardBoth
<1> DEFINE name == call.op
<1>2. ASSUME call.op # "mkldnn_convolution_backward"
      PROVE  /\ RecordedName(call) = name /\ RecordedArgs(call) = args /\ Len(ds) = Len(args)
             /\ own = Run(hs, name, ds)
             /\ \A i \in 1 .. Len(args) : IsIValue(h, args[i]) /\ Stands(M, args[i], ds[i])
  BY <1>2 DEF RecordedName, RecordedArgs, IsTypedCall
<1>3. CASE name = "convolution_backward_overrideable"
  <2>0. name # "mkldnn_convolution_backward"
    BY <1>3
  <2>1. PICK xs : xs = <<args[2], args[1], args[3], args[5], args[4]>>
    OBVIOUS
  <2>2. PICK ys : ys = <<ds[2], ds[1], ds[3], ds[5], ds[4]>>
    OBVIOUS
  <2>3. xs[1] = args[2] /\ xs[2] = args[1] /\ xs[3] = args[3] /\ xs[4] = args[5] /\ xs[5] = args[4] /\ Len(xs) = 5
    BY <2>1
  <2>4. ys[1] = ds[2] /\ ys[2] = ds[1] /\ ys[3] = ds[3] /\ ys[4] = ds[5] /\ ys[5] = ds[4] /\ Len(ys) = 5
    BY <2>2
  <2>5. Len(args) = 5
    BY <1>3 DEF IsTypedCall, IsBackward
  <2>6. \A i \in 1 .. 5 : IsIValue(h, args[i]) /\ Stands(M, args[i], ds[i])
    BY <1>2, <2>0, <2>5
  <2>7. \A i \in 1 .. 5 : IsIValue(h, xs[i]) /\ Stands(M, xs[i], ys[i])
    <3>1. \A i \in 1 .. 5 : i = 1 \/ i = 2 \/ i = 3 \/ i = 4 \/ i = 5
      OBVIOUS
    <3>2. 1 \in 1 .. 5 /\ 2 \in 1 .. 5 /\ 3 \in 1 .. 5 /\ 4 \in 1 .. 5 /\ 5 \in 1 .. 5
      OBVIOUS
    <3>3. /\ IsIValue(h, args[1]) /\ Stands(M, args[1], ds[1])
          /\ IsIValue(h, args[2]) /\ Stands(M, args[2], ds[2])
          /\ IsIValue(h, args[3]) /\ Stands(M, args[3], ds[3])
          /\ IsIValue(h, args[4]) /\ Stands(M, args[4], ds[4])
          /\ IsIValue(h, args[5]) /\ Stands(M, args[5], ds[5])
      BY <2>6, <3>2
    <3> QED
      BY <2>3, <2>4, <3>1, <3>3
  <2>8. ran = Backward(h, xs[1], xs[2], xs[3], xs[4], xs[5])
    BY <1>3, <2>3, BackwardIs, RunsBackward DEF IsBackward
  <2>9. own = Backward(hs, ys[1], ys[2], ys[3], ys[4], ys[5])
    BY <1>2, <1>3, <2>0, <2>4, BackwardIs, RunsBackward DEF IsBackward
  <2> QED
    BY <2>3, <2>4, <2>7, <2>8, <2>9, BackwardBoth
<1>4. CASE ~ IsBackward(name)
  <2>0. name # "mkldnn_convolution_backward"
    BY <1>4 DEF IsBackward
  <2> DEFINE term == Term(h, name, args)
             own1 == Term(hs, name, ds)
             v == args[1].tensor
  <2>1. Alike(h, hs, M) => term = own1
    BY <1>2, <2>0, SameTerm
  <2> HIDE DEF term, own1
  <2>2. ASSUME name \in {"add_", "copy_", "add_named", "view"}
        PROVE  v \in DOMAIN M /\ ds[1] = Tensor(M[v]) /\ args[1].kind = "tensor"
    <3>1. 1 \in 1 .. Len(args) /\ args[1].kind = "tensor"
      BY <2>2 DEF IsTypedCall
    <3>2. Stands(M, args[1], ds[1])
      BY <1>2, <2>0, <3>1
    <3> QED
      BY <3>1, <3>2 DEF Stands, ElementStands
  <2>3. CASE name \in {"add_", "copy_", "add_named"}
    <3> DEFINE r == IF name = "add_named" THEN Unsupported ELSE args[1]
    <3>1. ran.heap = Write(h, v, term) /\ ran.results = <<r>>
      BY <1>4, <2>3 DEF Run, Writes, term
    <3>2. own.heap = Write(hs, M[v], own1) /\ (name # "add_named" => own.results = <<ds[1]>>)
      BY <1>2, <1>4, <2>0, <2>2, <2>3, KindsOf DEF Run, Writes, own1
    <3>3. /\ Within(ran.heap, own.heap, M) /\ HeapGrows(h, ran.heap) /\ HeapGrows(hs, own.heap)
          /\ Alike(h, hs, M) => Alike(ran.heap, own.heap, M)
      <4>1. /\ Within(ran.heap, own.heap, M) /\ HeapGrows(h, ran.heap) /\ HeapGrows(hs, own.heap)
            /\ Alike(h, hs, M) /\ term = own1 => Alike(ran.heap, own.heap, M)
        BY <2>2, <2>3, <3>1, <3>2, WriteBoth
      <4> QED
        BY <2>1, <4>1
    <3>4. (r.kind = "tensor" => r.tensor \in DOMAIN M) /\ r.kind # "undefined"
          /\ (r.kind = "tensor" => name # "add_named" /\ r = args[1])
      BY <2>2, <2>3, KindsOf
    <3> HIDE DEF r
    <3>5. ResultsFit(ran.heap, ran.results)
      BY <3>1, <3>3, <3>4, OneResultFits DEF Within
    <3>6. TensorsOf(ran.results) \subseteq DOMAIN M
      BY <3>1, <3>4, OneResult
    <3>7. \A i \in 1 .. Len(ran.results) :
            ran.results[i].kind = "tensor" => own.results[i] = Tensor(M[ran.results[i].tensor])
      BY <2>2, <2>3, <3>1, <3>2, <3>4, OneResult
    <3> QED
      BY <3>3, <3>5, <3>6, <3>7, AddsSame DEF RunAlike
  <2>4. CASE name = "nonzero"
    <3> DEFINE r == ListOf(<<Tensor(NewTensor(h))>>)
    <3>1. ran.heap = Allocate(h, term) /\ ran.results = <<r>>
      BY <1>4, <2>4 DEF Run, Writes, term
    <3>2. own.heap = Allocate(hs, own1)
      BY <1>2, <1>4, <2>0, <2>4 DEF Run, Writes, own1
    <3>3. r.kind = "list"
      BY KindsOf
    <3> HIDE DEF r
    <3>4. /\ HeapGrows(h, ran.heap) /\ \A t \in 1 .. Len(h.storage) : ContentOf(ran.heap, t) = ContentOf(h, t)
      BY <3>1, AllocateIs
    <3>5. /\ HeapGrows(hs, own.heap) /\ \A t \in 1 .. Len(hs.storage) : ContentOf(own.heap, t) = ContentOf(hs, t)
      BY <3>2, AllocateIs
    <3>6. Within(ran.heap, own.heap, M) /\ (Alike(h, hs, M) => Alike(ran.heap, own.heap, M))
      BY <3>4, <3>5, OldStayAlike
    <3>7. ResultsFit(ran.heap, ran.results)
      BY <3>1, <3>3, OneResultFits
    <3>8. TensorsOf(ran.results) = {} /\ \A i \in 1 .. Len(ran.results) : ran.results[i].kind # "tensor"
      BY <3>1, <3>3, OneResult
    <3> QED
      BY <3>4, <3>5, <3>6, <3>7, <3>8, AddsSame DEF RunAlike
  <2>5. CASE name \notin {"add_", "copy_", "add_named", "nonzero"}
    <3> DEFINE n == NewTensor(h)
               m == NewTensor(hs)
               N == With(M, n, m)
    <3>1. /\ ran.results = <<Tensor(n)>> /\ own.results = <<Tensor(m)>>
          /\ ran.heap = IF name = "view" THEN AddView(h, v) ELSE Allocate(h, term)
          /\ own.heap = IF name = "view" THEN AddView(hs, M[v]) ELSE Allocate(hs, own1)
      BY <1>2, <1>4, <2>0, <2>2, <2>5, KindsOf DEF Run, Writes, term, own1
    <3>2. /\ Within(ran.heap, own.heap, N) /\ Adds(M, N) /\ HeapGrows(h, ran.heap) /\ HeapGrows(hs, own.heap)
          /\ Alike(h, hs, M) => Alike(ran.heap, own.heap, N)
      <4>1. CASE name = "view"
        BY <2>2, <3>1, <4>1, ViewBoth
      <4>2. CASE name # "view"
        <5>1. ran.heap = Allocate(h, term) /\ own.heap = Allocate(hs, own1)
          BY <3>1, <4>2
        <5>2. /\ Within(ran.heap, own.heap, N) /\ Adds(M, N) /\ HeapGrows(h, ran.heap) /\ HeapGrows(hs, own.heap)
              /\ Alike(h, hs, M) /\ term = own1 => Alike(ran.heap, own.heap, N)
          BY <5>1, AllocateBoth
        <5> QED
          BY <2>1, <5>2
      <4> QED
        BY <4>1, <4>2
    <3>3. IsWith(M, n, m, N)
      BY WithIs
    <3>4. Tensor(n).kind = "tensor" /\ Tensor(n).tensor = n
      BY KindsOf
    <3> HIDE DEF n, m, N
    <3>5. TensorsOf(ran.results) = {n}
      BY <3>1, <3>4, OneResult
    <3>6. DOMAIN N = DOMAIN M \cup TensorsOf(ran.results) /\ N[n] = m
      BY <3>3, <3>5 DEF IsWith
    <3>7. ResultsFit(ran.heap, ran.results)
      BY <3>1, <3>2, <3>4, <3>5, <3>6, OneResultFits DEF Within
    <3>8. \A i \in 1 .. Len(ran.results) : own.results[i] = Tensor(N[ran.results[i].tensor])
      BY <3>1, <3>4, <3>6, OneResult
    <3> QED
      BY <3>2, <3>6, <3>7, <3>8 DEF RunAlike
  <2> QED
    BY <2>3, <2>4, <2>5
<1> QED
  BY <1>1, <1>3, <1>4 DEF IsBackward

-----------------------------------------------------------------------------
\* Replaying a block

\* The states between the operations of a block.
Trace(block, in, up) ==
  /\ up[0] = StartReplay(in)
  /\ \A k \in 1 .. Len(block) : up[k] = ReplayOperation(up[k - 1], block[k])

LEMMA SameTrace ==
  ASSUME NEW block, Len(block) \in Nat, NEW in, NEW up, Trace(block, in, up),
         NEW vp, Trace(block, in, vp)
  PROVE  up[Len(block)] = vp[Len(block)]
<1> DEFINE S == {k \in Nat : k <= Len(block) => up[k] = vp[k]}
<1>1. 0 \in S
  BY DEF Trace
<1>2. ASSUME NEW k \in Nat, k \in S
      PROVE  k + 1 \in S
  <2> SUFFICES ASSUME k + 1 <= Len(block) PROVE up[k + 1] = vp[k + 1]
    OBVIOUS
  <2>1. up[k] = vp[k]
    BY <1>2
  <2>2. k + 1 \in 1 .. Len(block) /\ (k + 1) - 1 = k
    OBVIOUS
  <2> QED
    BY <2>1, <2>2 DEF Trace
<1>3. Len(block) \in S
  <2> HIDE DEF S
  <2> QED
    BY <1>1, <1>2, SetInduction
<1> QED
  BY <1>3

LEMMA ReplayIs ==
  ASSUME NEW block, Len(block) \in Nat, NEW in, NEW up, Trace(block, in, up)
  PROVE  ReplayBlock(block, in) = up[Len(block)]
<1> DEFINE b == StartReplay(in)
           Is(vp) == vp = [k \in 0 .. Len(block) |->
                             IF k = 0 THEN b ELSE ReplayOperation(vp[k - 1], block[k])]
           last == CHOOSE vp : Is(vp)
<1>1. ReplayBlock(block, in) = last[Len(block)]
  BY DEF ReplayBlock
<1>2. \A x, e : Round("replay", 0, x, e) = ReplayOperation(x, e)
  BY DEF Round
<1>3. PICK vp : IsLoop("replay", 0, b, block, Len(block), vp)
  BY LoopExists
<1>4. Is(vp)
  BY <1>2, <1>3 DEF IsLoop
<1>5. Is(last)
  BY <1>4
<1> HIDE DEF last
<1>6. IsLoop("replay", 0, b, block, Len(block), last)
  BY <1>2, <1>5 DEF IsLoop
<1>7. Trace(block, in, last)
  BY <1>2, <1>6, LoopOver DEF Rounds, Trace
<1> QED
  BY <1>1, <1>7, SameTrace

\* What an operation finds, and what it does to a state.
Operands(state, op) == [k \in 1 .. Len(op.operands) |-> state.env[op.operands[k]]]
Ran(state, op) == Effect(state.heap, op, Operands(state, op))

EnvKept(s, g) == \A v \in DOMAIN s.env : v \in DOMAIN g.env /\ g.env[v] = s.env[v]

Values(op, n) == {Value(op.id, k) : k \in 1 .. n}
EnvOf(state, op, ran) ==
  [v \in DOMAIN state.env \cup Values(op, Len(ran.results)) |->
     IF v \in Values(op, Len(ran.results)) THEN ran.results[v.result] ELSE state.env[v]]
ReturnsOf(state, op) ==
  IF op.name # "std.return" THEN state.returns
  ELSE [k \in 1 .. Len(Operands(state, op)) |-> ContentOf(state.heap, Operands(state, op)[k].tensor)]

LEMMA ReplayShape ==
  ASSUME NEW s, NEW op
  PROVE  ReplayOperation(s, op) =
           [heap |-> Ran(s, op).heap, env |-> EnvOf(s, op, Ran(s, op)), returns |-> ReturnsOf(s, op)]
BY DEF ReplayOperation, Ran, Operands, EnvOf, ReturnsOf, Values

LEMMA ValueIs ==
  ASSUME NEW id, NEW k
  PROVE  Value(id, k).op = id /\ Value(id, k).result = k
BY DEF Value

LEMMA OperationRuns ==
  ASSUME NEW s, NEW op, NEW ran, ran = Ran(s, op), NEW g, g = ReplayOperation(s, op),
         \A v \in DOMAIN s.env : v.op # op.id
  PROVE  /\ g.heap = ran.heap /\ g.returns = ReturnsOf(s, op)
         /\ \A v \in DOMAIN g.env : v \in DOMAIN s.env \/ v.op = op.id
         /\ EnvKept(s, g)
         /\ \A k \in 1 .. Len(ran.results) :
              Value(op.id, k) \in DOMAIN g.env /\ g.env[Value(op.id, k)] = ran.results[k]
<1> DEFINE values == Values(op, Len(ran.results))
<1>1. /\ g.heap = ran.heap /\ g.returns = ReturnsOf(s, op)
      /\ g.env = [v \in DOMAIN s.env \cup values |->
                    IF v \in values THEN ran.results[v.result] ELSE s.env[v]]
  BY ReplayShape DEF EnvOf
<1>2. \A v \in values : v.op = op.id /\ v \notin DOMAIN s.env
  BY ValueIs DEF Values
<1>3. \A k \in 1 .. Len(ran.results) : Value(op.id, k) \in values /\ Value(op.id, k).result = k
  BY ValueIs DEF Values
<1> HIDE DEF values
<1>4. EnvKept(s, g)
  BY <1>1, <1>2 DEF EnvKept
<1>5. \A v \in DOMAIN g.env : v \in DOMAIN s.env \/ v.op = op.id
  BY <1>1, <1>2
<1>6. \A k \in 1 .. Len(ran.results) :
        Value(op.id, k) \in DOMAIN g.env /\ g.env[Value(op.id, k)] = ran.results[k]
  BY <1>1, <1>3
<1> QED
  BY <1>1, <1>4, <1>5, <1>6

\* A block whose operands have been computed when they are used.
Runs(block, in, up) ==
  /\ Trace(block, in, up)
  /\ \A k \in 0 .. Len(block) : \A v \in DOMAIN up[k].env : v.op \in 0 .. Len(block)
  /\ \A k \in 1 .. Len(block) : \A i \in 1 .. Len(block[k].operands) :
       block[k].operands[i] \in DOMAIN up[k - 1].env

\* The state after a block.
After(block, in, s) == \E up : Runs(block, in, up) /\ s = up[Len(block)]

LEMMA AfterIs ==
  ASSUME NEW block, Len(block) \in Nat, NEW in, NEW s, After(block, in, s)
  PROVE  /\ ReplayBlock(block, in) = s
         /\ \A v \in DOMAIN s.env : v.op \in 0 .. Len(block)
BY ReplayIs DEF After, Runs

\* An operation is appended.
LEMMA AfterAppended ==
  ASSUME NEW block, IsList(block), NEW in, NEW s, After(block, in, s),
         NEW op, op.id = Len(block) + 1,
         \A i \in 1 .. Len(op.operands) : op.operands[i] \in DOMAIN s.env,
         NEW t, Inserted(block, t, Len(block) + 1, op)
  PROVE  After(t, in, ReplayOperation(s, op))
<1>1. PICK n \in Nat : n = Len(block)
  BY ListLength
<1>2. PICK up : Runs(block, in, up) /\ s = up[n]
  BY <1>1 DEF After
<1> DEFINE vp == [k \in 0 .. n + 1 |-> IF k = n + 1 THEN ReplayOperation(s, op) ELSE up[k]]
<1>3. Len(t) = n + 1 /\ t[n + 1] = op /\ \A k \in 1 .. n : t[k] = block[k]
  BY <1>1 DEF Inserted
<1>4. vp[n + 1] = ReplayOperation(s, op) /\ \A k \in 0 .. n : vp[k] = up[k]
  OBVIOUS
<1> HIDE DEF vp
<1>5. Trace(t, in, vp)
  <2>1. vp[0] = StartReplay(in)
    BY <1>2, <1>4 DEF Runs, Trace
  <2>2. ASSUME NEW k \in 1 .. n + 1
        PROVE  vp[k] = ReplayOperation(vp[k - 1], t[k])
    <3>1. CASE k = n + 1
      <4>1. k - 1 = n
        BY <3>1
      <4> QED
        BY <1>2, <1>3, <1>4, <3>1, <4>1
    <3>2. CASE k \in 1 .. n
      <4>1. k - 1 \in 0 .. n /\ k \in 0 .. n
        BY <3>2
      <4> QED
        BY <1>1, <1>2, <1>3, <1>4, <3>2, <4>1 DEF Runs, Trace
    <3> QED
      BY <3>1, <3>2
  <2> QED
    BY <1>3, <2>1, <2>2 DEF Trace
<1>6. \A v \in DOMAIN s.env : v.op \in 0 .. n
  BY <1>1, <1>2 DEF Runs
<1>7. ASSUME NEW k \in 0 .. n + 1, NEW v \in DOMAIN vp[k].env
      PROVE  v.op \in 0 .. n + 1
  <2>1. CASE k = n + 1
    <3>1. \A w \in DOMAIN s.env : w.op # op.id
      BY <1>1, <1>6
    <3>3. PICK g : g = ReplayOperation(s, op)
      OBVIOUS
    <3>5. PICK ran : ran = Ran(s, op)
      OBVIOUS
    <3>4. \A w \in DOMAIN g.env : w \in DOMAIN s.env \/ w.op = op.id
      BY <3>1, <3>3, <3>5, OperationRuns
    <3>2. v \in DOMAIN s.env \/ v.op = op.id
      BY <1>4, <1>7, <2>1, <3>3, <3>4
    <3> QED
      BY <1>1, <1>6, <3>2
  <2>2. CASE k \in 0 .. n
    BY <1>1, <1>2, <1>4, <1>7, <2>2 DEF Runs
  <2> QED
    BY <2>1, <2>2
<1>8. ASSUME NEW k \in 1 .. n + 1, NEW i \in 1 .. Len(t[k].operands)
      PROVE  t[k].operands[i] \in DOMAIN vp[k - 1].env
  <2>1. CASE k = n + 1
    <3>1. k - 1 = n /\ vp[k - 1] = s
      BY <1>2, <1>4, <2>1
    <3> QED
      BY <1>3, <1>8, <2>1, <3>1
  <2>2. CASE k \in 1 .. n
    <3>1. k - 1 \in 0 .. n /\ vp[k - 1] = up[k - 1] /\ t[k] = block[k]
      BY <1>3, <1>4, <2>2
    <3> QED
      BY <1>1, <1>2, <1>8, <2>2, <3>1 DEF Runs
  <2> QED
    BY <2>1, <2>2
<1>9. Runs(t, in, vp)
  BY <1>3, <1>5, <1>7, <1>8 DEF Runs
<1> QED
  BY <1>3, <1>4, <1>9 DEF After

\* A constant is put in among the constants: the state has its value from there on.
Bound(s, v, d) ==
  [heap |-> s.heap, env |-> [w \in DOMAIN s.env \cup {v} |-> IF w = v THEN d ELSE s.env[w]],
   returns |-> s.returns]

LEMMA BoundIs ==
  ASSUME NEW s, NEW v, NEW d
  PROVE  /\ Bound(s, v, d).heap = s.heap /\ Bound(s, v, d).returns = s.returns
         /\ DOMAIN Bound(s, v, d).env = DOMAIN s.env \cup {v}
         /\ Bound(s, v, d).env[v] = d
         /\ \A w \in DOMAIN s.env : w # v => Bound(s, v, d).env[w] = s.env[w]
         /\ v \notin DOMAIN s.env => EnvKept(s, Bound(s, v, d))
BY DEF Bound, EnvKept

LEMMA BoundCommutes ==
  ASSUME NEW s, NEW v, v \notin DOMAIN s.env, NEW d, NEW op, v.op # op.id,
         \A i \in 1 .. Len(op.operands) : op.operands[i] \in DOMAIN s.env
  PROVE  ReplayOperation(Bound(s, v, d), op) = Bound(ReplayOperation(s, op), v, d)
<1> DEFINE b == Bound(s, v, d)
           ran == Ran(s, op)
           values == Values(op, Len(ran.results))
           g == ReplayOperation(s, op)
<1>2. /\ b.heap = s.heap /\ b.returns = s.returns /\ DOMAIN b.env = DOMAIN s.env \cup {v}
      /\ b.env[v] = d /\ \A w \in DOMAIN s.env : b.env[w] = s.env[w]
  BY BoundIs
<1> HIDE DEF b
<1>3. Operands(b, op) = Operands(s, op)
  BY <1>2 DEF Operands
<1>4. Ran(b, op) = ran /\ ReturnsOf(b, op) = ReturnsOf(s, op)
  BY <1>2, <1>3 DEF Ran, ReturnsOf
<1>5. v \notin values
  BY ValueIs DEF Values
<1>6. /\ g.heap = ran.heap /\ g.returns = ReturnsOf(s, op)
      /\ g.env = [w \in DOMAIN s.env \cup values |->
                    IF w \in values THEN ran.results[w.result] ELSE s.env[w]]
  BY ReplayShape DEF EnvOf
<1>7. ReplayOperation(b, op) =
        [heap |-> ran.heap,
         env |-> [w \in DOMAIN b.env \cup values |->
                    IF w \in values THEN ran.results[w.result] ELSE b.env[w]],
         returns |-> ReturnsOf(s, op)]
  <2> HIDE DEF ran
  <2> QED
    BY <1>4, ReplayShape DEF EnvOf
<1> HIDE DEF values, ran, g
<1>8. [w \in DOMAIN b.env \cup values |->
         IF w \in values THEN ran.results[w.result] ELSE b.env[w]] =
      [w \in DOMAIN g.env \cup {v} |-> IF w = v THEN d ELSE g.env[w]]
  BY <1>2, <1>5, <1>6
<1> QED
  BY <1>6, <1>7, <1>8 DEF Bound, b, g

\* What a constant operation does.
Constant(op) == IF op.name = "torch.constant" THEN Scalar(op.attr[1]) ELSE None

LEMMA ConstantBinds ==
  ASSUME NEW s, NEW op, op.name \in {"torch.constant", "torch.constant.none"}
  PROVE  ReplayOperation(s, op) = Bound(s, Value(op.id, 1), Constant(op))
<1> DEFINE v == Value(op.id, 1)
           d == Constant(op)
           ran == Ran(s, op)
           values == Values(op, Len(ran.results))
<1>1. ran = [heap |-> s.heap, results |-> <<d>>]
  BY DEF Ran, Effect, Constant
<1> HIDE DEF ran, d
<1>2. ran.heap = s.heap /\ Len(ran.results) = 1 /\ ran.results[1] = d
  BY <1>1
<1>3. ReplayOperation(s, op) =
        [heap |-> ran.heap,
         env |-> [w \in DOMAIN s.env \cup values |->
                    IF w \in values THEN ran.results[w.result] ELSE s.env[w]],
         returns |-> s.returns]
  BY ReplayShape DEF EnvOf, ReturnsOf, ran
<1>4. values = {v} /\ v.result = 1
  BY <1>2, ValueIs DEF Values
<1> HIDE DEF values, v
<1>5. [w \in DOMAIN s.env \cup values |-> IF w \in values THEN ran.results[w.result] ELSE s.env[w]] =
      [w \in DOMAIN s.env \cup {v} |-> IF w = v THEN d ELSE s.env[w]]
  BY <1>2, <1>4
<1> QED
  BY <1>2, <1>3, <1>5 DEF Bound, d, v

LEMMA AfterConstant ==
  ASSUME NEW block, IsList(block), NEW in, NEW s, After(block, in, s),
         \A i \in 1 .. Len(block) : block[i].id \in 1 .. Len(block),
         NEW op, op.id = Len(block) + 1, op.operands = <<>>,
         op.name \in {"torch.constant", "torch.constant.none"},
         NEW p, NEW t, Inserted(block, t, p, op)
  PROVE  After(t, in, Bound(s, Value(op.id, 1), Constant(op)))
<1>1. PICK n \in Nat : n = Len(block)
  BY ListLength
<1>2. PICK up : Runs(block, in, up) /\ s = up[n]
  BY <1>1 DEF After
<1>3. PICK v : v = Value(op.id, 1) /\ v.op = n + 1
  BY <1>1, ValueIs
<1>4. PICK d : d = Constant(op)
  OBVIOUS
<1> DEFINE vp == [k \in 0 .. n + 1 |-> IF k < p THEN up[k] ELSE Bound(up[k - 1], v, d)]
<1>5. /\ p \in 1 .. n + 1 /\ Len(t) = n + 1 /\ t[p] = op
      /\ \A i \in 1 .. p - 1 : t[i] = block[i]
      /\ \A i \in p .. n : t[i + 1] = block[i]
  BY <1>1 DEF Inserted
<1>6. /\ \A k \in 0 .. p - 1 : vp[k] = up[k]
      /\ \A k \in p .. n + 1 : vp[k] = Bound(up[k - 1], v, d)
  BY <1>1, <1>5
<1> HIDE DEF vp
<1>7. \A k \in 0 .. n : v \notin DOMAIN up[k].env
  BY <1>1, <1>2, <1>3 DEF Runs
<1>8. Trace(t, in, vp)
  <2>1. vp[0] = StartReplay(in)
    BY <1>2, <1>5, <1>6 DEF Runs, Trace
  <2>2. ASSUME NEW k \in 1 .. n + 1
        PROVE  vp[k] = ReplayOperation(vp[k - 1], t[k])
    <3>1. CASE k < p
      <4>1. k \in 1 .. p - 1 /\ k \in 0 .. p - 1 /\ k - 1 \in 0 .. p - 1 /\ k \in 1 .. n
        BY <1>5, <3>1
      <4>2. up[k] = ReplayOperation(up[k - 1], block[k])
        BY <1>1, <1>2, <4>1 DEF Runs, Trace
      <4> QED
        BY <1>5, <1>6, <4>1, <4>2
    <3>2. CASE k = p
      <4>1. k \in p .. n + 1 /\ k - 1 \in 0 .. p - 1
        BY <1>5, <3>2
      <4>2. vp[k] = Bound(up[k - 1], v, d) /\ vp[k - 1] = up[k - 1] /\ t[k] = op
        BY <1>5, <1>6, <3>2, <4>1
      <4>3. PICK x : x = up[k - 1]
        OBVIOUS
      <4>4. ReplayOperation(x, op) = Bound(x, Value(op.id, 1), Constant(op))
        BY ConstantBinds
      <4> QED
        BY <1>3, <1>4, <4>2, <4>3, <4>4
    <3>3. CASE p < k
      <4>1. PICK j \in 1 .. n : j = k - 1 /\ j \in p .. n /\ j \in p .. n + 1 /\ k \in p .. n + 1
                                /\ k = j + 1 /\ j - 1 \in 0 .. n
        BY <1>5, <3>3
      <4>2. vp[k] = Bound(up[j], v, d) /\ vp[k - 1] = Bound(up[j - 1], v, d) /\ t[k] = block[j]
        BY <1>5, <1>6, <4>1
      <4>3. up[j] = ReplayOperation(up[j - 1], block[j])
        BY <1>1, <1>2, <4>1 DEF Runs, Trace
      <4>4. \A i \in 1 .. Len(block[j].operands) : block[j].operands[i] \in DOMAIN up[j - 1].env
        BY <1>1, <1>2, <4>1 DEF Runs
      <4>5. v.op # block[j].id
        BY <1>1, <1>3, <4>1
      <4>6. v \notin DOMAIN up[j - 1].env
        BY <1>7, <4>1
      <4>7. PICK x, o : x = up[j - 1] /\ o = block[j]
        OBVIOUS
      <4>8. v \notin DOMAIN x.env /\ v.op # o.id /\ \A i \in 1 .. Len(o.operands) : o.operands[i] \in DOMAIN x.env
        BY <4>4, <4>5, <4>6, <4>7
      <4>9. ReplayOperation(Bound(x, v, d), o) = Bound(ReplayOperation(x, o), v, d)
        BY <4>8, BoundCommutes
      <4> QED
        BY <4>2, <4>3, <4>7, <4>9
    <3> QED
      BY <1>5, <3>1, <3>2, <3>3
  <2> QED
    BY <1>5, <2>1, <2>2 DEF Trace
<1>9. ASSUME NEW k \in 0 .. n + 1, NEW w \in DOMAIN vp[k].env
      PROVE  w.op \in 0 .. n + 1
  <2>1. CASE k < p
    <3>1. k \in 0 .. p - 1 /\ k \in 0 .. n
      BY <1>5, <2>1
    <3>2. w.op \in 0 .. n
      BY <1>1, <1>2, <1>6, <1>9, <3>1 DEF Runs
    <3> QED
      BY <3>2
  <2>2. CASE ~ (k < p)
    <3>1. k \in p .. n + 1 /\ k - 1 \in 0 .. n
      BY <1>5, <2>2
    <3>2. w \in DOMAIN up[k - 1].env \/ w = v
      BY <1>6, <1>9, <3>1, BoundIs
    <3>3. w.op \in 0 .. n \/ w.op = n + 1
      BY <1>1, <1>2, <1>3, <3>1, <3>2 DEF Runs
    <3> QED
      BY <3>3
  <2> QED
    BY <2>1, <2>2
<1>10. ASSUME NEW k \in 1 .. n + 1, NEW i \in 1 .. Len(t[k].operands)
       PROVE  t[k].operands[i] \in DOMAIN vp[k - 1].env
  <2>1. CASE k < p
    <3>1. k \in 1 .. p - 1 /\ k - 1 \in 0 .. p - 1 /\ k \in 1 .. n
      BY <1>5, <2>1
    <3>2. t[k] = block[k] /\ vp[k - 1] = up[k - 1]
      BY <1>5, <1>6, <3>1
    <3> QED
      BY <1>1, <1>2, <1>10, <3>1, <3>2 DEF Runs
  <2>2. CASE k = p
    BY <1>5, <1>10, <2>2, EmptyList
  <2>3. CASE p < k
    <3>1. PICK j \in 1 .. n : j = k - 1 /\ j \in p .. n /\ j \in p .. n + 1 /\ k = j + 1 /\ j - 1 \in 0 .. n
      BY <1>5, <2>3
    <3>2. t[k] = block[j] /\ vp[k - 1] = Bound(up[j - 1], v, d)
      BY <1>5, <1>6, <3>1
    <3>3. t[k].operands[i] \in DOMAIN up[j - 1].env
      BY <1>1, <1>2, <1>10, <3>1, <3>2 DEF Runs
    <3> QED
      BY <3>2, <3>3, BoundIs
  <2> QED
    BY <1>5, <2>1, <2>2, <2>3
<1>11. Runs(t, in, vp)
  BY <1>5, <1>8, <1>9, <1>10 DEF Runs
<1>12. vp[n + 1] = Bound(s, v, d)
  <2>1. n + 1 \in p .. n + 1 /\ (n + 1) - 1 = n
    BY <1>5
  <2> QED
    BY <1>2, <1>6, <2>1
<1> QED
  BY <1>3, <1>4, <1>5, <1>11, <1>12 DEF After

-----------------------------------------------------------------------------
\* What a function under construction does

\* Where the tensors mapped so far are in the state of the function.
Places(f, s) == [t \in MappedTensors(f) \ {0} |-> s.env[LookupTensor(f, t)].tensor]

\* Replayed from in, the function gets to state s, which has a place for every mapped
\* tensor of heap h.
Means(f, in, h, s) ==
  /\ WellFormed(f) /\ HasNoReturn(f) /\ After(f.block, in, s)
  /\ IsHeap(s.heap) /\ Within(h, s.heap, Places(f, s))
  /\ \A t \in MappedTensors(f) \ {0} :
       LookupTensor(f, t) \in DOMAIN s.env /\ s.env[LookupTensor(f, t)] = Tensor(Places(f, s)[t])

TensorsKept(f, g) ==
  /\ Len(f.tensorValueMap) <= Len(g.tensorValueMap)
  /\ \A i \in 1 .. Len(f.tensorValueMap) : g.tensorValueMap[i] = f.tensorValueMap[i]

\* g, which gets to x, has what f has, which gets to s.
Keeps(f, s, g, x) ==
  Grows(f, g) /\ TensorsKept(f, g) /\ EnvKept(s, x) /\ Adds(Places(f, s), Places(g, x))

LEMMA KeepsSame ==
  ASSUME NEW f, WellFormed(f), NEW s
  PROVE  Keeps(f, s, f, s)
<1>1. Len(f.tensorValueMap) \in Nat
  BY ListLength DEF WellFormed, IsFunction
<1> QED
  BY <1>1, GrowsSame, AddsSame DEF Keeps, TensorsKept, EnvKept

LEMMA KeepsOn ==
  ASSUME NEW f, NEW s, NEW g, NEW x, NEW k, NEW y, WellFormed(f), Keeps(f, s, g, x), Keeps(g, x, k, y)
  PROVE  Keeps(f, s, k, y)
<1>1. Grows(f, k)
  BY GrowsOn DEF Keeps
<1>2. TensorsKept(f, k)
  <2>1. PICK a \in Nat, b \in Nat, c \in Nat :
            a = Len(f.tensorValueMap) /\ b = Len(g.tensorValueMap) /\ c = Len(k.tensorValueMap)
    BY ListLength DEF Keeps, Grows, WellFormed, IsFunction
  <2>2. a <= b /\ b <= c
    BY <2>1 DEF Keeps, TensorsKept
  <2>3. a <= c /\ \A i \in 1 .. a : i \in 1 .. b
    BY <2>2
  <2> QED
    BY <2>1, <2>3 DEF Keeps, TensorsKept
<1>3. EnvKept(s, y)
  BY DEF Keeps, EnvKept
<1>4. Adds(Places(f, s), Places(k, y))
  BY AddsOn DEF Keeps
<1> QED
  BY <1>1, <1>2, <1>3, <1>4 DEF Keeps

LEMMA PlacesIs ==
  ASSUME NEW f, NEW s
  PROVE  /\ IsMapping(Places(f, s)) /\ DOMAIN Places(f, s) = MappedTensors(f) \ {0}
         /\ \A t \in MappedTensors(f) \ {0} : Places(f, s)[t] = s.env[LookupTensor(f, t)].tensor
BY DEF Places, IsMapping

\* The mapping made last.
LEMMA LookupLatest ==
  ASSUME NEW f, IsList(f.tensorValueMap), NEW t
  PROVE  /\ t \notin MappedTensors(f) => LookupTensor(f, t) = NoValue
         /\ t \in MappedTensors(f) =>
              \E i \in 1 .. Len(f.tensorValueMap) :
                /\ f.tensorValueMap[i].tensor = t /\ LookupTensor(f, t) = f.tensorValueMap[i].value
                /\ \A j \in 1 .. Len(f.tensorValueMap) : f.tensorValueMap[j].tensor = t => j <= i
<1>1. PICK n \in Nat : n = Len(f.tensorValueMap)
  BY ListLength
<1>2. PICK hits : hits = {i \in 1 .. n : f.tensorValueMap[i].tensor = t}
  OBVIOUS
<1>3. LookupTensor(f, t) = IF hits = {} THEN NoValue
                           ELSE f.tensorValueMap[CHOOSE i \in hits : \A j \in hits : j <= i].value
  BY <1>1, <1>2 DEF LookupTensor
<1>4. t \in MappedTensors(f) <=> hits # {}
  BY <1>1, <1>2 DEF MappedTensors
<1>5. ASSUME hits # {}
      PROVE  \E i \in 1 .. n : /\ f.tensorValueMap[i].tensor = t /\ LookupTensor(f, t) = f.tensorValueMap[i].value
                               /\ \A j \in 1 .. n : f.tensorValueMap[j].tensor = t => j <= i
  <2>1. \E i \in hits : \A j \in hits : j <= i
    BY <1>2, <1>5, GreatestNatural
  <2>2. PICK top : top = CHOOSE i \in hits : \A j \in hits : j <= i
    OBVIOUS
  <2>3. top \in hits /\ \A j \in hits : j <= top
    BY <2>1, <2>2
  <2>4. LookupTensor(f, t) = f.tensorValueMap[top].value
    BY <1>3, <1>5, <2>2
  <2>5. /\ top \in 1 .. n /\ f.tensorValueMap[top].tensor = t
        /\ \A j \in 1 .. n : f.tensorValueMap[j].tensor = t => j <= top
    BY <1>2, <2>3
  <2> QED
    BY <2>4, <2>5
<1> QED
  BY <1>1, <1>3, <1>4, <1>5

LEMMA LookupOfMapped ==
  ASSUME NEW f, WellFormed(f), NEW t
  PROVE  t \in MappedTensors(f) <=> LookupTensor(f, t) # NoValue
<1>1. IsList(f.tensorValueMap) /\ Len(f.tensorValueMap) \in Nat /\ Len(f.block) \in Nat /\ f.args \in Nat
  BY ListLength DEF WellFormed, IsFunction
<1>2. ASSUME t \in MappedTensors(f)
      PROVE  LookupTensor(f, t) # NoValue
  <2>1. PICK i \in 1 .. Len(f.tensorValueMap) : LookupTensor(f, t) = f.tensorValueMap[i].value
    BY <1>1, <1>2, LookupLatest
  <2>2. PICK v : v = f.tensorValueMap[i].value /\ Defined(f, v)
    BY DEF WellFormed
  <2>3. ~ (v.op = 0 /\ v.result = 0)
    <3>1. CASE v.op = 0 /\ v.result \in 1 .. f.args
      BY <1>1, <3>1
    <3>2. CASE \E j \in 1 .. (Len(f.block) + 1) - 1 : f.block[j].id = v.op /\ v.result \in 1 .. f.block[j].results
      <4>1. PICK j \in 1 .. Len(f.block) : f.block[j].id = v.op
        BY <1>1, <3>2
      <4>2. v.op \in 1 .. Len(f.block)
        BY <4>1 DEF WellFormed
      <4> QED
        BY <1>1, <4>2
    <3> QED
      BY <2>2, <3>1, <3>2 DEF Defined, Above
  <2> QED
    BY <2>1, <2>2, <2>3, ValueIs DEF NoValue
<1> QED
  BY <1>1, <1>2, LookupLatest

LEMMA LookupSame ==
  ASSUME NEW f, NEW g, g.tensorValueMap = f.tensorValueMap
  PROVE  MappedTensors(g) = MappedTensors(f) /\ \A t : LookupTensor(g, t) = LookupTensor(f, t)
BY DEF MappedTensors, LookupTensor

\* t is mapped to v, and the rest stays.
LEMMA LookupMapped ==
  ASSUME NEW f, IsList(f.tensorValueMap), NEW t, NEW v, NEW g,
         g.tensorValueMap = Append(f.tensorValueMap, [tensor |-> t, value |-> v])
  PROVE  /\ MappedTensors(g) = MappedTensors(f) \cup {t} /\ LookupTensor(g, t) = v
         /\ \A u : u # t => LookupTensor(g, u) = LookupTensor(f, u)
         /\ TensorsKept(f, g)
<1>1. PICK n \in Nat : n = Len(f.tensorValueMap)
  BY ListLength
<1>2. /\ IsList(g.tensorValueMap) /\ Len(g.tensorValueMap) = n + 1
      /\ g.tensorValueMap[n + 1] = [tensor |-> t, value |-> v]
      /\ \A i \in 1 .. n : g.tensorValueMap[i] = f.tensorValueMap[i]
  BY <1>1, ListAppend
<1>3. MappedTensors(g) = MappedTensors(f) \cup {t}
  <2>1. \A i \in 1 .. n + 1 : i = n + 1 \/ i \in 1 .. n
    OBVIOUS
  <2>2. n + 1 \in 1 .. n + 1 /\ \A i \in 1 .. n : i \in 1 .. n + 1
    OBVIOUS
  <2> QED
    BY <1>1, <1>2, <2>1, <2>2 DEF MappedTensors
<1>4. LookupTensor(g, t) = v
  <2>1. PICK i \in 1 .. n + 1 : /\ LookupTensor(g, t) = g.tensorValueMap[i].value
                                /\ \A j \in 1 .. n + 1 : g.tensorValueMap[j].tensor = t => j <= i
    BY <1>2, <1>3, LookupLatest
  <2>2. i = n + 1
    BY <1>2, <2>1
  <2> QED
    BY <1>2, <2>1, <2>2
<1>5. ASSUME NEW u, u # t
      PROVE  LookupTensor(g, u) = LookupTensor(f, u)
  <2>1. CASE u \notin MappedTensors(f)
    <3>1. u \notin MappedTensors(g)
      BY <1>3, <1>5, <2>1
    <3>2. LookupTensor(g, u) = NoValue
      BY <1>2, <3>1, LookupLatest
    <3>3. LookupTensor(f, u) = NoValue
      BY <2>1, LookupLatest
    <3> QED
      BY <3>2, <3>3
  <2>2. CASE u \in MappedTensors(f)
    <3>1. PICK i \in 1 .. n + 1 : /\ g.tensorValueMap[i].tensor = u
                                  /\ LookupTensor(g, u) = g.tensorValueMap[i].value
                                  /\ \A j \in 1 .. n + 1 : g.tensorValueMap[j].tensor = u => j <= i
      BY <1>2, <1>3, <2>2, LookupLatest
    <3>2. PICK k \in 1 .. n : /\ f.tensorValueMap[k].tensor = u
                              /\ LookupTensor(f, u) = f.tensorValueMap[k].value
                              /\ \A j \in 1 .. n : f.tensorValueMap[j].tensor = u => j <= k
      BY <1>1, <2>2, LookupLatest
    <3>3. i # n + 1
      BY <1>2, <1>5, <3>1
    <3>4. i \in 1 .. n /\ k \in 1 .. n + 1
      BY <3>3
    <3>5. i <= k /\ k <= i
      BY <1>2, <3>1, <3>2, <3>4
    <3>6. i = k
      BY <3>5
    <3>7. g.tensorValueMap[k] = f.tensorValueMap[k]
      BY <1>2
    <3> QED
      BY <3>1, <3>2, <3>6, <3>7
  <2> QED
    BY <2>1, <2>2
<1>6. TensorsKept(f, g)
  BY <1>1, <1>2 DEF TensorsKept
<1> QED
  BY <1>3, <1>4, <1>5, <1>6

\* More operations, no more tensors.
LEMMA MeansKept ==
  ASSUME NEW f, NEW in, NEW h, NEW s, Means(f, in, h, s), NEW g, Grows(f, g),
         g.tensorValueMap = f.tensorValueMap, NEW x, After(g.block, in, x),
         EnvKept(s, x), HeapGrows(s.heap, x.heap), NEW k, IsHeap(h), HeapGrows(h, k)
  PROVE  Means(g, in, k, x) /\ Keeps(f, s, g, x) /\ Places(g, x) = Places(f, s)
<1>1. WellFormed(g) /\ HasNoReturn(g)
  BY DEF Means, Grows
<1>2. MappedTensors(g) = MappedTensors(f) /\ \A t : LookupTensor(g, t) = LookupTensor(f, t)
  BY LookupSame
<1>3. ASSUME NEW t \in MappedTensors(f) \ {0}
      PROVE  LookupTensor(g, t) \in DOMAIN x.env /\ x.env[LookupTensor(g, t)] = s.env[LookupTensor(f, t)]
  BY <1>2 DEF Means, EnvKept
<1>4. Places(g, x) = Places(f, s)
  BY <1>2, <1>3 DEF Places
<1>5. Within(k, x.heap, Places(g, x))
  <2>1. PICK M : M = Places(f, s)
    OBVIOUS
  <2>2. Within(h, s.heap, M)
    BY <2>1 DEF Means
  <2>3. PICK a \in Nat, b \in Nat, c \in Nat, d \in Nat :
           a = Len(h.storage) /\ b = Len(k.storage) /\ c = Len(s.heap.storage) /\ d = Len(x.heap.storage)
    BY HeapLengths DEF Means, HeapGrows
  <2>4. a <= b /\ c <= d
    BY <2>3 DEF HeapGrows
  <2>5. (\A i \in 1 .. a : i \in 1 .. b) /\ (\A i \in 1 .. c : i \in 1 .. d)
    BY <2>4
  <2>6. \A t \in DOMAIN M : t \in 1 .. b /\ M[t] \in 1 .. d
    BY <2>2, <2>3, <2>5 DEF Within
  <2> QED
    BY <1>4, <2>1, <2>2, <2>3, <2>6 DEF Within
<1>6. Means(g, in, k, x)
  BY <1>1, <1>2, <1>3, <1>4, <1>5 DEF Means, HeapGrows
<1>7. TensorsKept(f, g)
  BY ListLength DEF TensorsKept, Means, WellFormed, IsFunction
<1> QED
  BY <1>4, <1>6, <1>7, AddsSame DEF Keeps

LEMMA WithSame ==
  ASSUME NEW M, NEW t, NEW p, NEW N, IsMapping(N), IsWith(M, t, p, N), t \in DOMAIN M => M[t] = p
  PROVE  N = With(M, t, p)
<1>1. DOMAIN N = DOMAIN M \cup {t} /\ \A u \in DOMAIN N : N[u] = IF u = t THEN p ELSE M[u]
  BY DEF IsWith
<1>2. N = [u \in DOMAIN N |-> N[u]]
  BY DEF IsMapping
<1> QED
  BY <1>1, <1>2 DEF With

\* A tensor of the heap is mapped to a value that holds a tensor, or tensor 0 is.
LEMMA MeansMapped ==
  ASSUME NEW f, NEW in, NEW h, NEW s, Means(f, in, h, s), NEW v \in DOMAIN s.env, Defined(f, v),
         NEW t, NEW p, NEW g, g = MapTensor(f, t, v),
         t # 0 => /\ t \in 1 .. Len(h.storage) /\ p \in 1 .. Len(s.heap.storage)
                  /\ s.env[v] = Tensor(p)
                  /\ t \in DOMAIN Places(f, s) => Places(f, s)[t] = p
  PROVE  /\ Means(g, in, h, s) /\ Keeps(f, s, g, s)
         /\ Places(g, s) = IF t = 0 THEN Places(f, s) ELSE With(Places(f, s), t, p)
<1> DEFINE m == Append(f.tensorValueMap, [tensor |-> t, value |-> v])
<1>1. WellFormed(f) /\ IsFunction(f) /\ IsList(f.tensorValueMap)
  BY DEF Means, WellFormed, IsFunction
<1>2. IsList(m)
  BY <1>1, ListAppend
<1>3. SetsTensors(f, m, g)
  BY DEF MapTensor, SetsTensors
<1> HIDE DEF m
<1>4. g.block = f.block /\ g.tensorValueMap = m
  BY <1>1, <1>2, <1>3, WithTensors
<1>5. Grows(f, g)
  BY <1>1, MapTensorGrows
<1>6. /\ MappedTensors(g) = MappedTensors(f) \cup {t} /\ LookupTensor(g, t) = v
      /\ \A u : u # t => LookupTensor(g, u) = LookupTensor(f, u)
      /\ TensorsKept(f, g)
  BY <1>1, <1>4, LookupMapped DEF m
<1> DEFINE M == Places(f, s)
           N == Places(g, s)
<1>7. /\ IsMapping(M) /\ DOMAIN M = MappedTensors(f) \ {0} /\ IsMapping(N)
      /\ DOMAIN N = (MappedTensors(f) \cup {t}) \ {0}
      /\ \A u \in DOMAIN M : u # t => N[u] = M[u]
      /\ t # 0 => N[t] = s.env[v].tensor
  <2>1. /\ IsMapping(M) /\ DOMAIN M = MappedTensors(f) \ {0}
        /\ \A u \in MappedTensors(f) \ {0} : M[u] = s.env[LookupTensor(f, u)].tensor
    BY PlacesIs
  <2>2. /\ IsMapping(N) /\ DOMAIN N = MappedTensors(g) \ {0}
        /\ \A u \in MappedTensors(g) \ {0} : N[u] = s.env[LookupTensor(g, u)].tensor
    BY PlacesIs
  <2> HIDE DEF M, N
  <2>3. DOMAIN N = (MappedTensors(f) \cup {t}) \ {0}
    BY <1>6, <2>2
  <2>4. \A u \in DOMAIN M : u # t => N[u] = M[u]
    BY <1>6, <2>1, <2>2
  <2>5. t # 0 => N[t] = s.env[v].tensor
    BY <1>6, <2>2
  <2> QED
    BY <2>1, <2>2, <2>3, <2>4, <2>5
<1>8. t # 0 => N[t] = p
  BY <1>7, KindsOf
<1>9. N = IF t = 0 THEN M ELSE With(M, t, p)
  <2>1. CASE t = 0
    <3>1. N = [u \in DOMAIN N |-> N[u]] /\ M = [u \in DOMAIN M |-> M[u]]
      BY <1>7 DEF IsMapping
    <3>2. DOMAIN N = DOMAIN M /\ \A u \in DOMAIN M : N[u] = M[u]
      BY <1>7, <2>1
    <3> HIDE DEF M, N
    <3> QED
      BY <2>1, <3>1, <3>2
  <2>2. CASE t # 0
    <3>1. IsWith(M, t, p, N)
      BY <1>7, <1>8, <2>2 DEF IsWith
    <3>2. t \in DOMAIN M => M[t] = p
      BY <2>2
    <3> HIDE DEF M, N
    <3>3. N = With(M, t, p)
      BY <1>7, <3>1, <3>2, WithSame
    <3> QED
      BY <2>2, <3>3
  <2> QED
    BY <2>1, <2>2
<1>10. Adds(M, N)
  <2>1. t \in DOMAIN M => N[t] = M[t]
    BY <1>7, <1>8
  <2> QED
    BY <1>7, <2>1 DEF Adds
<1>11. Keeps(f, s, g, s)
  BY <1>5, <1>6, <1>10 DEF Keeps, EnvKept
<1>12. Within(h, s.heap, N)
  <2>1. Within(h, s.heap, M)
    BY DEF Means
  <2>2. ASSUME NEW u \in DOMAIN N
        PROVE  u \in 1 .. Len(h.storage) /\ N[u] \in 1 .. Len(s.heap.storage)
    <3>1. CASE u = t
      BY <1>7, <1>8, <3>1
    <3>2. CASE u # t
      <4>1. u \in DOMAIN M /\ N[u] = M[u]
        BY <1>7, <3>2
      <4> QED
        BY <2>1, <4>1 DEF Within
    <3> QED
      BY <3>1, <3>2
  <2> QED
    BY <1>7, <2>2 DEF Within
<1>13. ASSUME NEW u \in MappedTensors(g) \ {0}
       PROVE  LookupTensor(g, u) \in DOMAIN s.env /\ s.env[LookupTensor(g, u)] = Tensor(N[u])
  <2>1. CASE u = t
    BY <1>6, <1>8, <2>1
  <2>2. CASE u # t
    BY <1>6, <1>7, <2>2 DEF Means
  <2> QED
    BY <2>1, <2>2
<1>14. Means(g, in, h, s)
  BY <1>4, <1>5, <1>12, <1>13 DEF Means, Grows
<1> QED
  BY <1>9, <1>11, <1>14

LEMMA PositionIs ==
  ASSUME NEW f, WellFormed(f), NEW i \in 1 .. Len(f.block)
  PROVE  PositionOf(f, f.block[i].id) = i
<1> DEFINE id == f.block[i].id
           pos == CHOOSE k \in 1 .. Len(f.block) : f.block[k].id = id
<1>1. pos \in 1 .. Len(f.block) /\ f.block[pos].id = id
  OBVIOUS
<1> HIDE DEF pos
<1>2. pos = i
  BY <1>1 DEF WellFormed
<1> QED
  BY <1>2 DEF PositionOf, pos

OperationsKept(f, g) == \A i \in 1 .. Len(f.block) : \E j \in 1 .. Len(g.block) : g.block[j] = f.block[i]

\* Tensors that share a storage behind the function's back keep doing so.
LEMMA AliasPersists ==
  ASSUME NEW f, WellFormed(f), NEW g, WellFormed(g), OperationsKept(f, g), TensorsKept(f, g),
         NEW h, IsHeap(h), NEW k, HeapGrows(h, k),
         MappedTensors(f) \ {0} \subseteq 1 .. Len(h.storage), HiddenAlias(h, f)
  PROVE  HiddenAlias(k, g)
<1>1. PICK i, j \in 1 .. Len(f.tensorValueMap) :
           /\ i < j /\ f.tensorValueMap[i].tensor # f.tensorValueMap[j].tensor
           /\ 0 \notin {f.tensorValueMap[i].tensor, f.tensorValueMap[j].tensor}
           /\ h.storage[f.tensorValueMap[i].tensor] = h.storage[f.tensorValueMap[j].tensor]
           /\ \/ f.tensorValueMap[j].value.op = 0
              \/ f.block[PositionOf(f, f.tensorValueMap[j].value.op)].name = "torch.tensor.literal"
  BY DEF HiddenAlias
<1>2. PICK a, b : a = f.tensorValueMap[i] /\ b = f.tensorValueMap[j]
  OBVIOUS
<1>3. g.tensorValueMap[i] = a /\ g.tensorValueMap[j] = b
  BY <1>2 DEF TensorsKept
<1>4. i \in 1 .. Len(g.tensorValueMap) /\ j \in 1 .. Len(g.tensorValueMap)
  <2>1. Len(f.tensorValueMap) \in Nat /\ Len(g.tensorValueMap) \in Nat
    BY ListLength DEF WellFormed, IsFunction
  <2> QED
    BY <2>1 DEF TensorsKept
<1>5. k.storage[a.tensor] = k.storage[b.tensor]
  <2>1. a.tensor \in MappedTensors(f) \ {0} /\ b.tensor \in MappedTensors(f) \ {0}
    BY <1>1, <1>2 DEF MappedTensors
  <2>2. a.tensor \in 1 .. Len(h.storage) /\ b.tensor \in 1 .. Len(h.storage)
    BY <2>1
  <2> QED
    BY <1>1, <1>2, <2>2 DEF HeapGrows
<1>6. ASSUME b.value.op # 0
      PROVE  g.block[PositionOf(g, b.value.op)].name = "torch.tensor.literal"
  <2>1. PICK m \in 1 .. Len(f.block) : f.block[m].id = b.value.op
    <3>1. Defined(f, b.value)
      BY <1>2 DEF WellFormed
    <3>2. Len(f.block) \in Nat
      BY ListLength DEF WellFormed, IsFunction
    <3> QED
      BY <1>6, <3>1, <3>2 DEF Defined, Above
  <2>2. f.block[m].name = "torch.tensor.literal"
    BY <1>1, <1>2, <1>6, <2>1, PositionIs
  <2>3. PICK q \in 1 .. Len(g.block) : g.block[q] = f.block[m]
    BY DEF OperationsKept
  <2> QED
    BY <2>1, <2>2, <2>3, PositionIs
<1> QED
  BY <1>1, <1>2, <1>3, <1>4, <1>5, <1>6 DEF HiddenAlias

-----------------------------------------------------------------------------
\* Building leads from a function and its state to another

\* g, which gets to x, keeps what f, which gets to s, has, and if s was like the heap and
\* no alias is hidden, x is.
Leads(f, s, g, x, in) ==
  /\ Means(g, in, heap, x) /\ Keeps(f, s, g, x)
  /\ Alike(heap, s.heap, Places(f, s)) /\ ~ HiddenAlias(heap, g) => Alike(heap, x.heap, Places(g, x))

LEMMA LeadsSame ==
  ASSUME NEW f, NEW in, NEW s, Means(f, in, heap, s)
  PROVE  Leads(f, s, f, s, in)
BY KeepsSame DEF Leads, Means

LEMMA AliasStays ==
  ASSUME NEW f, NEW s, NEW in, NEW h, IsHeap(h), Means(f, in, h, s), NEW g, NEW x, Keeps(f, s, g, x),
         NEW k, HeapGrows(h, k), HiddenAlias(h, f)
  PROVE  HiddenAlias(k, g)
<1>1. MappedTensors(f) \ {0} \subseteq 1 .. Len(h.storage)
  BY PlacesIs DEF Means, Within
<1>2. WellFormed(f) /\ WellFormed(g) /\ OperationsKept(f, g) /\ TensorsKept(f, g)
  BY DEF Means, Keeps, Grows, OperationsKept
<1> QED
  BY <1>1, <1>2, AliasPersists

LEMMA LeadsOn ==
  ASSUME IsHeap(heap), NEW f, NEW in, NEW s, Means(f, in, heap, s), NEW g, NEW x, Leads(f, s, g, x, in),
         NEW k, NEW y, Leads(g, x, k, y, in)
  PROVE  Leads(f, s, k, y, in)
<1>1. Keeps(f, s, k, y)
  BY KeepsOn DEF Leads, Means
<1>2. ~ HiddenAlias(heap, k) => ~ HiddenAlias(heap, g)
  BY AliasStays, HeapGrowsSame DEF Leads
<1> QED
  BY <1>1, <1>2 DEF Leads

\* An operation is appended: g, which gets to x, has its results.
Appended(f, in, s, op, g, ran, k, x) ==
  /\ Means(g, in, k, x) /\ Keeps(f, s, g, x) /\ Places(g, x) = Places(f, s)
  /\ x.heap = ran.heap /\ g.tensorValueMap = f.tensorValueMap
  /\ \A j \in 1 .. Len(ran.results) :
       Value(op.id, j) \in DOMAIN x.env /\ x.env[Value(op.id, j)] = ran.results[j]
  /\ \A j \in 1 .. op.results : Defined(g, Value(op.id, j))
  /\ Inserted(f.block, g.block, Len(f.block) + 1, op)

LEMMA OperationAppended ==
  ASSUME NEW f, NEW in, NEW h, IsHeap(h), NEW s, Means(f, in, h, s),
         NEW op, op.id = NextId(f), op.results \in Nat, ~ IsTerminator(op), Len(op.operands) \in Nat,
         \A j \in 1 .. Len(op.operands) : Defined(f, op.operands[j]) /\ op.operands[j] \in DOMAIN s.env,
         NEW g, SetsBlock(f, Append(f.block, op), g),
         NEW ran, ran = Ran(s, op), HeapGrows(s.heap, ran.heap), NEW k, HeapGrows(h, k),
         NEW x, x = ReplayOperation(s, op)
  PROVE  Appended(f, in, s, op, g, ran, k, x)
<1>1. /\ WellFormed(f) /\ After(f.block, in, s) /\ IsList(f.block) /\ Len(f.block) \in Nat
      /\ op.id = Len(f.block) + 1
  BY ListLength DEF Means, WellFormed, IsFunction, NextId
<1>2. /\ Grows(f, g) /\ (\A j \in 1 .. op.results : Defined(g, Value(op.id, j)))
      /\ g.tensorValueMap = f.tensorValueMap /\ Inserted(f.block, g.block, Len(f.block) + 1, op)
  BY <1>1, AppendedGrows
<1>3. After(g.block, in, x)
  BY <1>1, <1>2, AfterAppended
<1>4. \A v \in DOMAIN s.env : v.op # op.id
  BY <1>1, AfterIs
<1>5. /\ x.heap = ran.heap /\ EnvKept(s, x)
      /\ \A j \in 1 .. Len(ran.results) :
           Value(op.id, j) \in DOMAIN x.env /\ x.env[Value(op.id, j)] = ran.results[j]
  BY <1>4, OperationRuns
<1>6. Means(g, in, k, x) /\ Keeps(f, s, g, x) /\ Places(g, x) = Places(f, s)
  BY <1>2, <1>3, <1>5, MeansKept
<1> QED
  BY <1>2, <1>5, <1>6 DEF Appended

\* A constant is inserted.
LEMMA ConstantLeads ==
  ASSUME IsHeap(heap), NEW f, NEW in, NEW s, Means(f, in, heap, s),
         NEW name \in {"torch.constant", "torch.constant.none"}, NEW attr,
         NEW g, g = InsertConstantOp(f, name, attr), NEW v, v = Value(NextId(f), 1)
  PROVE  \E x : /\ Leads(f, s, g, x, in) /\ v \in DOMAIN x.env
                /\ x.env[v] = IF name = "torch.constant" THEN Scalar(attr[1]) ELSE None
<1>1. PICK op : op = Operation(NextId(f), name, <<>>, 1, attr)
  OBVIOUS
<1>2. op.id = NextId(f) /\ op.name = name /\ op.operands = <<>> /\ op.attr = attr
  BY <1>1 DEF Operation
<1>3. /\ WellFormed(f) /\ After(f.block, in, s) /\ IsList(f.block) /\ Len(f.block) \in Nat
      /\ op.id = Len(f.block) + 1 /\ \A i \in 1 .. Len(f.block) : f.block[i].id \in 1 .. Len(f.block)
  BY <1>2, ListLength DEF Means, WellFormed, IsFunction, NextId
<1>4. Grows(f, g) /\ g.tensorValueMap = f.tensorValueMap /\ Inserted(f.block, g.block, f.constants + 1, op)
  BY <1>1, <1>3, ConstantGrows
<1>5. PICK d : d = Constant(op)
  OBVIOUS
<1>6. PICK x : x = Bound(s, v, d)
  OBVIOUS
<1>7. PICK p : p = f.constants + 1
  OBVIOUS
<1>8. After(g.block, in, x)
  <2>1. Inserted(f.block, g.block, p, op)
    BY <1>4, <1>7
  <2>2. After(g.block, in, Bound(s, Value(op.id, 1), Constant(op)))
    BY <1>2, <1>3, <2>1, AfterConstant
  <2> QED
    BY <1>2, <1>5, <1>6, <2>2
<1>9. v \notin DOMAIN s.env
  <2>1. \A w \in DOMAIN s.env : w.op \in 0 .. Len(f.block)
    BY <1>3, AfterIs
  <2>2. v.op = Len(f.block) + 1
    BY ValueIs DEF NextId
  <2> QED
    BY <1>3, <2>1, <2>2
<1>10. x.heap = s.heap /\ EnvKept(s, x) /\ v \in DOMAIN x.env /\ x.env[v] = d
  BY <1>6, <1>9, BoundIs
<1>11. HeapGrows(s.heap, x.heap) /\ HeapGrows(heap, heap)
  BY <1>10, HeapGrowsSame DEF Means
<1>12. Means(g, in, heap, x) /\ Keeps(f, s, g, x) /\ Places(g, x) = Places(f, s)
  BY <1>4, <1>8, <1>10, <1>11, MeansKept
<1>13. Leads(f, s, g, x, in)
  BY <1>10, <1>12 DEF Leads
<1> QED
  BY <1>2, <1>5, <1>10, <1>13 DEF Constant

\* A literal is appended: e, which gets to x, has its value in a new tensor p.
Literal(f, s, in, t, op, e, x, v, p) ==
  /\ Means(f, in, heap, s) /\ t \in 1 .. Len(heap.storage) /\ t \notin MappedTensors(f)
  /\ Means(e, in, heap, x) /\ Keeps(f, s, e, x) /\ Places(e, x) = Places(f, s)
  /\ e.tensorValueMap = f.tensorValueMap
  /\ v \in DOMAIN x.env /\ x.env[v] = Tensor(p) /\ Defined(e, v)
  /\ op.name = "torch.tensor.literal" /\ v.op = op.id /\ \E i \in 1 .. Len(e.block) : e.block[i] = op
  /\ x.heap = Allocate(s.heap, ContentOf(heap, t)) /\ p = NewTensor(s.heap)

LEMMA LiteralMade ==
  ASSUME IsHeap(heap), NEW f, NEW in, NEW s, Means(f, in, heap, s),
         NEW t \in 1 .. Len(heap.storage), t \notin MappedTensors(f),
         NEW op, op = Operation(NextId(f), "torch.tensor.literal", <<>>, 1, ContentOf(heap, t)),
         NEW e, SetsBlock(f, Append(f.block, op), e), NEW x, x = ReplayOperation(s, op)
  PROVE  Literal(f, s, in, t, op, e, x, Value(op.id, 1), NewTensor(s.heap))
<1>2. /\ op.id = NextId(f) /\ op.name = "torch.tensor.literal" /\ op.operands = <<>> /\ op.results = 1
      /\ op.attr = ContentOf(heap, t) /\ ~ IsTerminator(op)
  BY DEF Operation, IsTerminator
<1>3. PICK ran : ran = Ran(s, op)
  OBVIOUS
<1>4. PICK p : p = NewTensor(s.heap)
  OBVIOUS
<1>5. ran = [heap |-> Allocate(s.heap, ContentOf(heap, t)), results |-> <<Tensor(p)>>]
  BY <1>2, <1>3, <1>4 DEF Ran, Effect
<1>6. ran.heap = Allocate(s.heap, ContentOf(heap, t)) /\ Len(ran.results) = 1 /\ ran.results[1] = Tensor(p)
  BY <1>5
<1>7. HeapGrows(s.heap, ran.heap) /\ HeapGrows(heap, heap)
  BY <1>6, AllocateIs, HeapGrowsSame DEF Means
<1>8. Len(op.operands) \in Nat /\ \A j \in 1 .. Len(op.operands) : FALSE
  BY <1>2, EmptyList
<1>9. /\ Means(e, in, heap, x) /\ Keeps(f, s, e, x) /\ Places(e, x) = Places(f, s)
      /\ x.heap = ran.heap /\ e.tensorValueMap = f.tensorValueMap
      /\ \A j \in 1 .. Len(ran.results) :
           Value(op.id, j) \in DOMAIN x.env /\ x.env[Value(op.id, j)] = ran.results[j]
      /\ \A j \in 1 .. op.results : Defined(e, Value(op.id, j))
      /\ Inserted(f.block, e.block, Len(f.block) + 1, op)
  <2>1. op.results \in Nat /\ op.id = NextId(f) /\ ~ IsTerminator(op) /\ Len(op.operands) \in Nat
    BY <1>2, <1>8
  <2>2. \A j \in 1 .. Len(op.operands) : Defined(f, op.operands[j]) /\ op.operands[j] \in DOMAIN s.env
    BY <1>8
  <2>3. Appended(f, in, s, op, e, ran, heap, x)
    BY <1>3, <1>7, <2>1, <2>2, OperationAppended
  <2> QED
    BY <2>3 DEF Appended
<1>10. \E i \in 1 .. Len(e.block) : e.block[i] = op
  <2>1. Len(f.block) \in Nat
    BY ListLength DEF Means, WellFormed, IsFunction
  <2> QED
    BY <1>9, <2>1 DEF Inserted
<1>11. 1 \in 1 .. Len(ran.results) /\ 1 \in 1 .. op.results
  BY <1>2, <1>6
<1>12. Value(op.id, 1) \in DOMAIN x.env /\ x.env[Value(op.id, 1)] = Tensor(p) /\ Defined(e, Value(op.id, 1))
  BY <1>6, <1>9, <1>11
<1>13. PICK v : v = Value(op.id, 1)
  OBVIOUS
<1>14. v.op = op.id
  BY <1>13, ValueIs
<1>15. Literal(f, s, in, t, op, e, x, v, p)
  BY <1>2, <1>4, <1>6, <1>9, <1>10, <1>12, <1>13, <1>14 DEF Literal
<1> QED
  BY <1>4, <1>13, <1>15

\* A literal is made of a tensor that is not mapped, and the tensor mapped to it.
LEMMA LiteralMapped ==
  ASSUME IsHeap(heap), NEW f, NEW in, NEW s, NEW t, NEW op, NEW e, NEW x, NEW v, NEW p,
         Literal(f, s, in, t, op, e, x, v, p), NEW g, g = MapTensor(e, t, v)
  PROVE  /\ Leads(f, s, g, x, in) /\ v \in DOMAIN x.env
         /\ t \in DOMAIN Places(g, x) /\ x.env[v] = Tensor(Places(g, x)[t])
<1>7. /\ HeapGrows(s.heap, x.heap) /\ Len(x.heap.storage) = Len(s.heap.storage) + 1
      /\ p = Len(s.heap.storage) + 1
      /\ x.heap.storage[p] = Len(s.heap.contents) + 1 /\ ContentOf(x.heap, p) = ContentOf(heap, t)
      /\ \A u \in 1 .. Len(s.heap.storage) : ContentOf(x.heap, u) = ContentOf(s.heap, u)
  BY AllocateIs DEF Means, Literal
<1>12. /\ Means(e, in, heap, x) /\ Keeps(f, s, e, x) /\ Places(e, x) = Places(f, s)
       /\ e.tensorValueMap = f.tensorValueMap /\ Means(f, in, heap, s)
       /\ v \in DOMAIN x.env /\ x.env[v] = Tensor(p) /\ Defined(e, v) /\ t \in 1 .. Len(heap.storage)
  BY DEF Literal
<1> DEFINE M == Places(f, s)
<1>13. /\ IsMapping(M) /\ DOMAIN M = MappedTensors(f) \ {0} /\ t \notin DOMAIN M /\ t # 0
       /\ Within(heap, s.heap, M)
  <2>1. t \notin MappedTensors(f) /\ t # 0
    BY <1>12, HeapLengths DEF Literal
  <2> QED
    BY <1>12, <2>1, PlacesIs DEF Means
<1>14. Len(s.heap.storage) \in Nat /\ Len(s.heap.contents) \in Nat /\ p \in 1 .. Len(x.heap.storage)
  BY <1>7, <1>12, HeapLengths DEF Means
<1>15. Means(g, in, heap, x) /\ Keeps(e, x, g, x) /\ Places(g, x) = With(M, t, p)
  <2> HIDE DEF M
  <2>1. Places(e, x) = M
    BY <1>12 DEF M
  <2>2. t # 0 => /\ t \in 1 .. Len(heap.storage) /\ p \in 1 .. Len(x.heap.storage)
                 /\ x.env[v] = Tensor(p)
                 /\ t \in DOMAIN Places(e, x) => Places(e, x)[t] = p
    BY <1>12, <1>13, <1>14, <2>1
  <2>3. v \in DOMAIN x.env /\ Means(e, in, heap, x) /\ Defined(e, v)
    BY <1>12
  <2>4. /\ Means(g, in, heap, x) /\ Keeps(e, x, g, x)
        /\ Places(g, x) = IF t = 0 THEN Places(e, x) ELSE With(Places(e, x), t, p)
    BY <2>2, <2>3, MeansMapped, SMTT(30)
  <2> QED
    BY <1>13, <2>1, <2>4
<1>16. Keeps(f, s, g, x)
  BY <1>12, <1>15, KeepsOn DEF Means
<1>17. PICK N : N = Places(g, x)
  OBVIOUS
<1>18. IsWith(M, t, p, N)
  BY <1>15, <1>17, WithIs
<1>19. ASSUME Alike(heap, s.heap, M), ~ HiddenAlias(heap, g)
       PROVE  Alike(heap, x.heap, N)
  <2>1. ASSUME NEW u \in DOMAIN M
        PROVE  /\ N[u] = M[u] /\ u # t /\ M[u] \in 1 .. Len(s.heap.storage)
               /\ x.heap.storage[M[u]] = s.heap.storage[M[u]] /\ ContentOf(x.heap, M[u]) = ContentOf(heap, u)
               /\ s.heap.storage[M[u]] \in 1 .. Len(s.heap.contents)
    <3>1. u # t /\ N[u] = M[u] /\ M[u] \in 1 .. Len(s.heap.storage)
      BY <1>13, <1>18 DEF IsWith, Within
    <3>2. ContentOf(heap, u) = ContentOf(s.heap, M[u])
      BY <1>19 DEF Alike
    <3>3. x.heap.storage[M[u]] = s.heap.storage[M[u]] /\ ContentOf(x.heap, M[u]) = ContentOf(s.heap, M[u])
      BY <1>7, <1>12, <3>1 DEF HeapGrows
    <3>4. s.heap.storage[M[u]] \in 1 .. Len(s.heap.contents)
      BY <1>12, <3>1, HeapLengths DEF Means
    <3> QED
      BY <3>1, <3>2, <3>3, <3>4
  <2>2. ASSUME NEW u \in DOMAIN M
        PROVE  heap.storage[u] # heap.storage[t]
    <3> SUFFICES ASSUME heap.storage[u] = heap.storage[t] PROVE HiddenAlias(heap, g)
      BY <1>19
    <3>1. PICK n \in Nat : n = Len(f.tensorValueMap) /\ IsList(f.tensorValueMap)
      BY <1>12, ListLength DEF Means, WellFormed, IsFunction
    <3>2. g.tensorValueMap = Append(f.tensorValueMap, [tensor |-> t, value |-> v])
      <4>0. PICK m : m = Append(e.tensorValueMap, [tensor |-> t, value |-> v])
        OBVIOUS
      <4>1. SetsTensors(e, m, g)
        BY <4>0 DEF MapTensor, SetsTensors
      <4>2. IsFunction(e) /\ IsList(m)
        BY <1>12, <3>1, <4>0, ListAppend DEF Means, WellFormed
      <4>3. g.tensorValueMap = m
        BY <4>1, <4>2, WithTensors
      <4> QED
        BY <1>12, <4>0, <4>3
    <3>3. /\ Len(g.tensorValueMap) = n + 1 /\ g.tensorValueMap[n + 1] = [tensor |-> t, value |-> v]
          /\ \A i \in 1 .. n : g.tensorValueMap[i] = f.tensorValueMap[i]
      BY <3>1, <3>2, ListAppend
    <3>4. PICK i \in 1 .. n : f.tensorValueMap[i].tensor = u
      BY <1>13, <3>1 DEF MappedTensors
    <3>5. PICK a, b : a = g.tensorValueMap[i] /\ b = g.tensorValueMap[n + 1]
      OBVIOUS
    <3>6. a.tensor = u /\ b.tensor = t /\ b.value = v /\ a.tensor # b.tensor /\ 0 \notin {a.tensor, b.tensor}
      BY <1>13, <2>1, <3>3, <3>4, <3>5
    <3>7. i \in 1 .. Len(g.tensorValueMap) /\ n + 1 \in 1 .. Len(g.tensorValueMap) /\ i < n + 1
      BY <3>3
    <3>8. g.block[PositionOf(g, v.op)].name = "torch.tensor.literal"
      <4>2. PICK m \in 1 .. Len(e.block) : e.block[m] = op
        BY DEF Literal
      <4>3. PICK q \in 1 .. Len(g.block) : g.block[q] = op
        BY <1>15, <4>2 DEF Keeps, Grows
      <4>4. PositionOf(g, g.block[q].id) = q
        BY <1>15, PositionIs DEF Means
      <4>5. v.op = g.block[q].id
        BY <4>3 DEF Literal
      <4> QED
        BY <4>3, <4>4, <4>5 DEF Literal
    <3>9. heap.storage[a.tensor] = heap.storage[b.tensor]
      BY <3>6
    <3> QED
      BY <3>5, <3>6, <3>7, <3>8, <3>9 DEF HiddenAlias
  <2>3. DOMAIN N = DOMAIN M \cup {t} /\ N[t] = p
    BY <1>18 DEF IsWith
  <2> HIDE DEF M
  <2>4. \A u \in DOMAIN N : ContentOf(heap, u) = ContentOf(x.heap, N[u])
    BY <1>7, <1>12, <2>1, <2>3
  <2>5. ASSUME NEW u \in DOMAIN N, NEW w \in DOMAIN N
        PROVE  heap.storage[u] = heap.storage[w] <=> x.heap.storage[N[u]] = x.heap.storage[N[w]]
    <3>0. x.heap.storage[p] = Len(s.heap.contents) + 1
      BY <1>7, <1>12
    <3>1. CASE u \in DOMAIN M /\ w \in DOMAIN M
      <4>1. heap.storage[u] = heap.storage[w] <=> s.heap.storage[M[u]] = s.heap.storage[M[w]]
        BY <1>19, <3>1 DEF Alike
      <4> QED
        BY <2>1, <3>1, <4>1
    <3>2. CASE u \in DOMAIN M /\ w = t
      BY <1>14, <2>1, <2>2, <2>3, <3>0, <3>2
    <3>3. CASE u = t /\ w \in DOMAIN M
      BY <1>14, <2>1, <2>2, <2>3, <3>0, <3>3
    <3>4. CASE u = t /\ w = t
      BY <3>4
    <3> QED
      BY <2>3, <3>1, <3>2, <3>3, <3>4
  <2> QED
    BY <2>4, <2>5 DEF Alike
<1>20. Leads(f, s, g, x, in)
  BY <1>15, <1>16, <1>17, <1>19 DEF Leads
<1>21. t \in DOMAIN N /\ N[t] = p
  BY <1>18 DEF IsWith
<1> QED
  BY <1>12, <1>17, <1>20, <1>21

-----------------------------------------------------------------------------
\* Operands stand for the IValues they were made of

\* What a value stands for in each of the loops.
StandsAs(loop, M, e, d) ==
  CASE loop = "elements"  -> ElementStands(M, e, d)
    [] loop = "values"  -> Stands(M, e, d)
    [] loop = "tensors" -> e \in DOMAIN M /\ d = Tensor(M[e])

LEMMA StandsAsIs ==
  ASSUME NEW M, NEW e, NEW d
  PROVE  /\ StandsAs("elements", M, e, d) <=> ElementStands(M, e, d)
         /\ StandsAs("values", M, e, d) <=> Stands(M, e, d)
         /\ StandsAs("tensors", M, e, d) <=> (e \in DOMAIN M /\ d = Tensor(M[e]))
BY DEF StandsAs

LEMMA StandsAsOn ==
  ASSUME NEW loop \in {"elements", "values", "tensors"}, NEW M, NEW N, Adds(M, N), NEW e, NEW d,
         StandsAs(loop, M, e, d)
  PROVE  StandsAs(loop, N, e, d)
<1>1. CASE loop = "elements"
  BY <1>1, StandsAsIs DEF ElementStands, Adds
<1>2. CASE loop = "values"
  BY <1>2, StandsAsIs, StandsOn
<1>3. CASE loop = "tensors"
  BY <1>3, StandsAsIs DEF Adds
<1> QED
  BY <1>1, <1>2, <1>3

\* c has led from b's function to its own, and has one value more unless it refused.
AddsOne(loop, e, b, s, c, x, in) ==
  /\ Leads(b.fn, s, c.fn, x, in)
  /\ c.ok => /\ b.ok /\ \E v : /\ c.values = Append(b.values, v) /\ v \in DOMAIN x.env
                               /\ StandsAs(loop, Places(c.fn, x), e, x.env[v])

LEMMA RefuseAdds ==
  ASSUME NEW b, NEW in, NEW s, Means(b.fn, in, heap, s), NEW loop, NEW e
  PROVE  AddsOne(loop, e, b, s, Refuse(b), s, in)
BY LeadsSame DEF AddsOne, Refuse

LEMMA AddValueIs ==
  ASSUME NEW b, NEW f, NEW v
  PROVE  /\ AddValue(b, f, v).fn = f /\ AddValue(b, f, v).values = Append(b.values, v)
         /\ AddValue(b, f, v).ok = b.ok
BY DEF AddValue

\* A tensor.
LEMMA TensorLeads ==
  ASSUME IsHeap(heap), NEW b, b.ok, NEW in, NEW s, Means(b.fn, in, heap, s), NEW t \in 1 .. Len(heap.storage)
  PROVE  \E x : AddsOne("tensors", t, b, s, TensorValue(b, t), x, in)
<1>1. PICK f : f = b.fn
  OBVIOUS
<1>2. CASE LookupTensor(f, t) # NoValue
  <2>1. PICK v : v = LookupTensor(f, t)
    OBVIOUS
  <2>2. PICK c : c = TensorValue(b, t)
    OBVIOUS
  <2>3. c.fn = f /\ c.values = Append(b.values, v)
    BY <1>1, <1>2, <2>1, <2>2, AddValueIs DEF TensorValue
  <2>4. t \in MappedTensors(f) \ {0}
    BY <1>1, <1>2, HeapLengths, LookupOfMapped DEF Means
  <2>5. v \in DOMAIN s.env /\ t \in DOMAIN Places(f, s) /\ s.env[v] = Tensor(Places(f, s)[t])
    BY <1>1, <2>1, <2>4, PlacesIs DEF Means
  <2>6. StandsAs("tensors", Places(c.fn, s), t, s.env[v])
    BY <2>3, <2>5, StandsAsIs
  <2>7. Leads(b.fn, s, c.fn, s, in)
    BY <1>1, <2>3, LeadsSame
  <2>8. AddsOne("tensors", t, b, s, c, s, in)
    BY <2>3, <2>5, <2>6, <2>7 DEF AddsOne
  <2> QED
    BY <2>2, <2>8
<1>3. CASE LookupTensor(f, t) = NoValue /\ ~ CanConvert(t)
  <2>1. TensorValue(b, t) = Refuse(b)
    BY <1>1, <1>3 DEF TensorValue, ImportTensorByValue
  <2> QED
    BY <2>1, RefuseAdds
<1>4. CASE LookupTensor(f, t) = NoValue /\ CanConvert(t)
  <2>1. PICK e : e = CreateOperationAtEnd(f, "torch.tensor.literal", <<>>, 1, ContentOf(heap, t))
    OBVIOUS
  <2>2. PICK op : op = Operation(NextId(f), "torch.tensor.literal", <<>>, 1, ContentOf(heap, t))
    OBVIOUS
  <2>3. PICK v : v = Value(op.id, 1) /\ v = Value(NextId(f), 1)
    BY <2>2 DEF Operation
  <2>4. PICK x : x = ReplayOperation(s, op)
    OBVIOUS
  <2>5. SetsBlock(f, Append(f.block, op), e)
    BY <1>1, <2>1, <2>2, AtEndAppends DEF Means
  <2>6. t \notin MappedTensors(f)
    BY <1>1, <1>4, LookupOfMapped DEF Means
  <2>7. Literal(f, s, in, t, op, e, x, Value(op.id, 1), NewTensor(s.heap))
    BY <1>1, <2>2, <2>4, <2>5, <2>6, LiteralMade
  <2>8. PICK g : g = MapTensor(e, t, v)
    OBVIOUS
  <2>9. PICK p : p = NewTensor(s.heap)
    OBVIOUS
  <2>10. Literal(f, s, in, t, op, e, x, v, p)
    BY <2>3, <2>7, <2>9
  <2>11. /\ Leads(f, s, g, x, in) /\ v \in DOMAIN x.env
         /\ t \in DOMAIN Places(g, x) /\ x.env[v] = Tensor(Places(g, x)[t])
    BY <2>8, <2>10, LiteralMapped
  <2>12. PICK c : c = TensorValue(b, t)
    OBVIOUS
  <2>13. c = AddValue(b, g, v)
    BY <1>1, <1>4, <2>1, <2>3, <2>8, <2>12 DEF TensorValue, ImportTensorByValue
  <2>14. c.fn = g /\ c.values = Append(b.values, v)
    BY <2>13, AddValueIs
  <2>15. StandsAs("tensors", Places(c.fn, x), t, x.env[v])
    BY <2>11, <2>14, StandsAsIs
  <2>16. AddsOne("tensors", t, b, s, c, x, in)
    BY <1>1, <2>11, <2>14, <2>15 DEF AddsOne
  <2> QED
    BY <2>12, <2>16
<1> QED
  BY <1>2, <1>3, <1>4

\* An IValue that is not a list.
LEMMA LeafLeads ==
  ASSUME IsHeap(heap), NEW b, b.ok, NEW in, NEW s, Means(b.fn, in, heap, s),
         NEW ival, IsElement(heap, ival), Mappable(ival)
  PROVE  \E x : AddsOne("elements", ival, b, s, MapLeaf(b, ival), x, in)
<1>1. CASE ival.kind = "scalar" \/ ival.kind \in {"none", "undefined"}
  <2>1. PICK f : f = b.fn
    OBVIOUS
  <2>2. PICK name, attr :
             /\ name = IF ival.kind = "scalar" THEN "torch.constant" ELSE "torch.constant.none"
             /\ attr = IF ival.kind = "scalar" THEN ival.datum ELSE NoAttr
    OBVIOUS
  <2>3. PICK g : g = InsertConstantOp(f, name, attr)
    OBVIOUS
  <2>4. PICK v : v = Value(NextId(f), 1)
    OBVIOUS
  <2>5. MapLeaf(b, ival) = AddValue(b, g, v)
    <3>1. CASE ival.kind = "scalar"
      BY <2>1, <2>2, <2>3, <2>4, <3>1 DEF MapLeaf, ConstantValue
    <3>2. CASE ival.kind \in {"none", "undefined"}
      <4>1. MapLeaf(b, ival) = ConstantValue(b, "torch.constant.none", NoAttr)
        BY <3>2 DEF MapLeaf
      <4> QED
        BY <2>1, <2>2, <2>3, <2>4, <3>2, <4>1 DEF ConstantValue
    <3> QED
      BY <1>1, <3>1, <3>2
  <2>6. PICK c : c = MapLeaf(b, ival)
    OBVIOUS
  <2>7. c.fn = g /\ c.values = Append(b.values, v)
    BY <2>5, <2>6, AddValueIs
  <2>8. name \in {"torch.constant", "torch.constant.none"}
    BY <2>2
  <2>9. PICK x : /\ Leads(f, s, g, x, in) /\ v \in DOMAIN x.env
                 /\ x.env[v] = IF name = "torch.constant" THEN Scalar(attr[1]) ELSE None
    BY <2>1, <2>3, <2>4, <2>8, ConstantLeads
  <2>10. ElementStands(Places(g, x), ival, x.env[v])
    <3>1. CASE ival.kind = "scalar"
      BY <2>2, <2>9, <3>1 DEF ElementStands
    <3>2. CASE ival.kind \in {"none", "undefined"}
      BY <2>2, <2>9, <3>2 DEF ElementStands
    <3> QED
      BY <1>1, <3>1, <3>2
  <2>11. AddsOne("elements", ival, b, s, c, x, in)
    BY <2>1, <2>7, <2>9, <2>10, StandsAsIs DEF AddsOne
  <2> QED
    BY <2>6, <2>11
<1>2. CASE ival.kind = "tensor"
  <2>1. PICK t : t = ival.tensor /\ t \in 1 .. Len(heap.storage)
    BY <1>2 DEF IsElement
  <2>2. PICK c : c = TensorValue(b, t)
    OBVIOUS
  <2>3. PICK x : AddsOne("tensors", t, b, s, c, x, in)
    BY <2>1, <2>2, TensorLeads
  <2>4. MapLeaf(b, ival) = c
    BY <1>2, <2>1, <2>2 DEF MapLeaf
  <2>5. \A M, d : StandsAs("tensors", M, t, d) => StandsAs("elements", M, ival, d)
    BY <1>2, <2>1, StandsAsIs DEF ElementStands
  <2>6. AddsOne("elements", ival, b, s, c, x, in)
    BY <2>3, <2>5 DEF AddsOne
  <2> QED
    BY <2>4, <2>6
<1> QED
  BY <1>1, <1>2 DEF Mappable

-----------------------------------------------------------------------------
\* The loops that add operands

\* After k rounds of a loop over seq that started with function f in state s: unless one was
\* refused, every value made so far stands for what it was made of.
Built(loop, seq, k, f, s, b, x, in) ==
  /\ Further(f, b) /\ Leads(f, s, b.fn, x, in)
  /\ b.ok => /\ Len(b.values) = k
             /\ \A i \in 1 .. k : /\ b.values[i] \in DOMAIN x.env
                                  /\ StandsAs(loop, Places(b.fn, x), seq[i], x.env[b.values[i]])

RoundLeads(loop, e, in) ==
  \A b, s : IsBuilder(b) /\ b.ok /\ Means(b.fn, in, heap, s) =>
    Further(b.fn, Round(loop, 0, b, e)) /\ \E x : AddsOne(loop, e, b, s, Round(loop, 0, b, e), x, in)

LEMMA BuiltFirst ==
  ASSUME NEW f, NEW in, NEW s, Means(f, in, heap, s), NEW loop, NEW seq
  PROVE  Built(loop, seq, 0, f, s, Builder(f), s, in)
<1>1. Further(f, Builder(f)) /\ Builder(f).fn = f /\ Len(Builder(f).values) = 0
  BY NewBuilder, EmptyList DEF Means, Builder
<1>2. \A i \in 1 .. 0 : FALSE
  OBVIOUS
<1> QED
  BY <1>1, <1>2, LeadsSame DEF Built

LEMMA BuiltMore ==
  ASSUME IsHeap(heap), NEW loop \in {"elements", "values", "tensors"}, NEW f, NEW in, NEW s,
         Means(f, in, heap, s), NEW seq, NEW k \in Nat, NEW b, NEW x,
         Built(loop, seq, k, f, s, b, x, in), NEW c, NEW y,
         Further(b.fn, c), AddsOne(loop, seq[k + 1], b, x, c, y, in)
  PROVE  Built(loop, seq, k + 1, f, s, c, y, in)
<1>1. Further(f, c)
  BY FurtherOn DEF Built, Further
<1>2. Leads(f, s, c.fn, y, in)
  BY LeadsOn DEF Built, AddsOne
<1>3. ASSUME c.ok
      PROVE  /\ Len(c.values) = k + 1
             /\ \A i \in 1 .. k + 1 : /\ c.values[i] \in DOMAIN y.env
                                      /\ StandsAs(loop, Places(c.fn, y), seq[i], y.env[c.values[i]])
  <2>1. PICK v : /\ c.values = Append(b.values, v) /\ v \in DOMAIN y.env
                 /\ StandsAs(loop, Places(c.fn, y), seq[k + 1], y.env[v])
    BY <1>3 DEF AddsOne
  <2>2. /\ IsList(b.values) /\ Len(b.values) = k
        /\ \A i \in 1 .. k : /\ b.values[i] \in DOMAIN x.env
                             /\ StandsAs(loop, Places(b.fn, x), seq[i], x.env[b.values[i]])
    BY <1>3 DEF Built, AddsOne, Further, IsBuilder
  <2>3. Len(c.values) = k + 1 /\ c.values[k + 1] = v /\ \A i \in 1 .. k : c.values[i] = b.values[i]
    BY <2>1, <2>2, ListAppend
  <2>4. EnvKept(x, y) /\ Adds(Places(b.fn, x), Places(c.fn, y))
    BY DEF AddsOne, Leads, Keeps
  <2>5. ASSUME NEW i \in 1 .. k
        PROVE  c.values[i] \in DOMAIN y.env /\ StandsAs(loop, Places(c.fn, y), seq[i], y.env[c.values[i]])
    <3>1. PICK w : w = b.values[i] /\ w = c.values[i]
      BY <2>3
    <3>2. w \in DOMAIN x.env /\ StandsAs(loop, Places(b.fn, x), seq[i], x.env[w])
      BY <2>2, <3>1
    <3>3. w \in DOMAIN y.env /\ y.env[w] = x.env[w]
      BY <2>4, <3>2 DEF EnvKept
    <3>4. PICK M, N, e, d : M = Places(b.fn, x) /\ N = Places(c.fn, y) /\ e = seq[i] /\ d = x.env[w]
      OBVIOUS
    <3>5. StandsAs(loop, N, e, d)
      BY <2>4, <3>2, <3>4, StandsAsOn
    <3> QED
      BY <3>1, <3>3, <3>4, <3>5
  <2>6. \A i \in 1 .. k + 1 : i = k + 1 \/ i \in 1 .. k
    OBVIOUS
  <2> QED
    BY <2>1, <2>3, <2>5, <2>6
<1> QED
  BY <1>1, <1>2, <1>3 DEF Built

LEMMA LoopLeads ==
  ASSUME IsHeap(heap), NEW loop \in {"elements", "values", "tensors"}, NEW f, NEW in, NEW s,
         Means(f, in, heap, s), NEW seq, Len(seq) \in Nat, NEW up,
         Rounds(loop, 0, Builder(f), seq, up), \A i \in 1 .. Len(seq) : RoundLeads(loop, seq[i], in)
  PROVE  \E x : Built(loop, seq, Len(seq), f, s, up[Len(seq)], x, in)
<1> DEFINE S == {k \in Nat : k <= Len(seq) => \E x : Built(loop, seq, k, f, s, up[k], x, in)}
<1>1. 0 \in S
  BY BuiltFirst DEF Rounds
<1>2. ASSUME NEW k \in Nat, k \in S
      PROVE  k + 1 \in S
  <2> SUFFICES ASSUME k + 1 <= Len(seq) PROVE \E x : Built(loop, seq, k + 1, f, s, up[k + 1], x, in)
    OBVIOUS
  <2>1. PICK x : Built(loop, seq, k, f, s, up[k], x, in)
    BY <1>2
  <2>2. k + 1 \in 1 .. Len(seq) /\ (k + 1) - 1 = k
    OBVIOUS
  <2>3. PICK b, c, e : b = up[k] /\ c = up[k + 1] /\ e = seq[k + 1]
    OBVIOUS
  <2>4. c = Round(loop, 0, b, e)
    BY <2>2, <2>3 DEF Rounds
  <2>5. Built(loop, seq, k, f, s, b, x, in) /\ IsBuilder(b) /\ Means(b.fn, in, heap, x)
    BY <2>1, <2>3 DEF Built, Further, Leads
  <2>6. CASE b.ok
    <3>1. RoundLeads(loop, e, in)
      BY <2>2, <2>3
    <3>2. Further(b.fn, c) /\ \E y : AddsOne(loop, e, b, x, c, y, in)
      BY <2>4, <2>5, <2>6, <3>1 DEF RoundLeads
    <3>3. PICK y : AddsOne(loop, e, b, x, c, y, in)
      BY <3>2
    <3>4. AddsOne(loop, seq[k + 1], b, x, c, y, in)
      BY <2>3, <3>3
    <3>5. Built(loop, seq, k + 1, f, s, c, y, in)
      BY <2>5, <3>2, <3>4, BuiltMore
    <3> QED
      BY <2>3, <3>5
  <2>7. CASE ~ b.ok
    <3>1. c = b
      BY <2>4, <2>7 DEF Round, IfOk
    <3>2. Built(loop, seq, k + 1, f, s, c, x, in)
      BY <2>5, <2>7, <3>1 DEF Built
    <3> QED
      BY <2>3, <3>2
  <2> QED
    BY <2>6, <2>7
<1>3. Len(seq) \in S
  <2> HIDE DEF S
  <2> QED
    BY <1>1, <1>2, SetInduction
<1> QED
  BY <1>3

\* The three loops.
LEMMA ElementRound ==
  ASSUME IsHeap(heap), NEW ival, IsElement(heap, ival), Mappable(ival), NEW in
  PROVE  RoundLeads("elements", ival, in)
<1> SUFFICES ASSUME NEW b, NEW s, IsBuilder(b), b.ok, Means(b.fn, in, heap, s)
             PROVE  /\ Further(b.fn, Round("elements", 0, b, ival))
                    /\ \E x : AddsOne("elements", ival, b, s, Round("elements", 0, b, ival), x, in)
  BY DEF RoundLeads
<1>1. Round("elements", 0, b, ival) = MapLeaf(b, ival)
  BY DEF Round, IfOk, MapElement, Mappable
<1>2. Further(b.fn, MapLeaf(b, ival))
  BY LeafAdded, ButNothing
<1> QED
  BY <1>1, <1>2, LeafLeads

LEMMA TensorRound ==
  ASSUME IsHeap(heap), NEW t \in 1 .. Len(heap.storage), NEW in
  PROVE  RoundLeads("tensors", t, in)
<1> SUFFICES ASSUME NEW b, NEW s, IsBuilder(b), b.ok, Means(b.fn, in, heap, s)
             PROVE  /\ Further(b.fn, Round("tensors", 0, b, t))
                    /\ \E x : AddsOne("tensors", t, b, s, Round("tensors", 0, b, t), x, in)
  BY DEF RoundLeads
<1>1. Round("tensors", 0, b, t) = TensorValue(b, t)
  BY DEF Round, IfOk
<1> QED
  BY <1>1, TensorAdded, ButNothing, TensorLeads

LEMMA ElementsLead ==
  ASSUME IsHeap(heap), NEW f, NEW in, NEW s, Means(f, in, heap, s),
         NEW seq, Len(seq) \in Nat, \A i \in 1 .. Len(seq) : IsElement(heap, seq[i]) /\ Mappable(seq[i]),
         NEW e, e = InOrder(MapElement, Builder(f), seq)
  PROVE  \E x : Built("elements", seq, Len(seq), f, s, e, x, in)
<1>1. PICK b : b = Builder(f)
  OBVIOUS
<1>2. PICK up : Rounds("elements", 0, b, seq, up) /\ InOrder(MapElement, b, seq) = up[Len(seq)]
  BY ElementsLoop
<1>3. \A i \in 1 .. Len(seq) : RoundLeads("elements", seq[i], in)
  BY ElementRound
<1>4. PICK loop : loop = "elements" /\ loop \in {"elements", "values", "tensors"}
  OBVIOUS
<1>5. \E x : Built(loop, seq, Len(seq), f, s, up[Len(seq)], x, in)
  BY <1>1, <1>2, <1>3, <1>4, LoopLeads
<1> QED
  BY <1>1, <1>2, <1>4, <1>5

LEMMA TensorsLead ==
  ASSUME IsHeap(heap), NEW f, NEW in, NEW s, Means(f, in, heap, s),
         NEW seq, Len(seq) \in Nat, \A i \in 1 .. Len(seq) : seq[i] \in 1 .. Len(heap.storage),
         NEW e, e = InOrder(TensorValue, Builder(f), seq)
  PROVE  \E x : Built("tensors", seq, Len(seq), f, s, e, x, in)
<1>1. PICK b : b = Builder(f)
  OBVIOUS
<1>2. PICK up : Rounds("tensors", 0, b, seq, up) /\ InOrder(TensorValue, b, seq) = up[Len(seq)]
  BY TensorsLoop
<1>3. \A i \in 1 .. Len(seq) : RoundLeads("tensors", seq[i], in)
  <2> SUFFICES ASSUME NEW i \in 1 .. Len(seq) PROVE RoundLeads("tensors", seq[i], in)
    OBVIOUS
  <2>1. PICK t : t = seq[i] /\ t \in 1 .. Len(heap.storage)
    OBVIOUS
  <2> QED
    BY <2>1, TensorRound
<1>4. PICK loop : loop = "tensors" /\ loop \in {"elements", "values", "tensors"}
  OBVIOUS
<1>5. \E x : Built(loop, seq, Len(seq), f, s, up[Len(seq)], x, in)
  BY <1>1, <1>2, <1>3, <1>4, LoopLeads
<1> QED
  BY <1>1, <1>2, <1>4, <1>5

\* An IValue, a list of them included.
LEMMA IValueLeads ==
  ASSUME IsHeap(heap), NEW b, IsBuilder(b), b.ok, NEW in, NEW s, Means(b.fn, in, heap, s),
         NEW ival, IsIValue(heap, ival), Mappable(ival) \/ ival.kind = "list"
  PROVE  \E x : AddsOne("values", ival, b, s, MapIValueToMlirValue(b, ival), x, in)
<1>1. CASE ival.kind # "list"
  <2>1. PICK c : c = MapLeaf(b, ival)
    OBVIOUS
  <2>2. MapIValueToMlirValue(b, ival) = c
    BY <1>1, <2>1 DEF MapIValueToMlirValue
  <2>3. PICK x : AddsOne("elements", ival, b, s, c, x, in)
    BY <1>1, <2>1, LeafLeads DEF IsIValue
  <2>4. \A M, d : StandsAs("elements", M, ival, d) => StandsAs("values", M, ival, d)
    BY <1>1, StandsAsIs DEF Stands
  <2>5. AddsOne("values", ival, b, s, c, x, in)
    BY <2>3, <2>4 DEF AddsOne
  <2> QED
    BY <2>2, <2>5
<1>2. CASE ival.kind = "list"
  <2>1. PICK f, seq : f = b.fn /\ seq = ival.elements
    OBVIOUS
  <2>2. PICK e : e = InOrder(MapElement, Builder(f), seq)
    OBVIOUS
  <2>3. Len(seq) \in Nat /\ \A i \in 1 .. Len(seq) : IsElement(heap, seq[i]) /\ Mappable(seq[i])
    BY <1>2, <2>1 DEF IsIValue
  <2>4. PICK x : Built("elements", seq, Len(seq), f, s, e, x, in)
    BY <2>1, <2>2, <2>3, ElementsLead
  <2>5. CASE ~ e.ok
    <3>1. PICK c : c = MapIValueToMlirValue(b, ival)
      OBVIOUS
    <3>2. c = [fn |-> e.fn, values |-> b.values, ok |-> FALSE]
      BY <1>2, <2>1, <2>2, <2>5, <3>1 DEF MapIValueToMlirValue, MapList
    <3>3. c.fn = e.fn /\ ~ c.ok
      BY <3>2
    <3>4. AddsOne("values", ival, b, s, c, x, in)
      BY <2>1, <2>4, <3>3 DEF AddsOne, Built
    <3> QED
      BY <3>1, <3>4
  <2>6. CASE e.ok
    <3>1. PICK k, id : k = e.fn /\ id = NextId(k)
      OBVIOUS
    <3>2. PICK op : op = Operation(id, "torch.prim.ListConstruct", e.values, 1, NoAttr)
      OBVIOUS
    <3>3. /\ op.id = id /\ op.name = "torch.prim.ListConstruct" /\ op.operands = e.values /\ op.results = 1
          /\ ~ IsTerminator(op)
      BY <3>2 DEF Operation, IsTerminator
    <3>4. PICK g : g = InsertBeforeTerminator(k, "torch.prim.ListConstruct", e.values, 1)
      OBVIOUS
    <3>5. SetsBlock(k, Append(k.block, op), g)
      BY <3>1, <3>2, <3>4 DEF InsertBeforeTerminator, SetsBlock
    <3>6. PICK n \in Nat : /\ n = Len(seq) /\ Len(e.values) = n
                           /\ \A i \in 1 .. n :
                                /\ e.values[i] \in DOMAIN x.env /\ Defined(k, e.values[i])
                                /\ ElementStands(Places(k, x), seq[i], x.env[e.values[i]])
      BY <2>3, <2>4, <2>6, <3>1, StandsAsIs DEF Built, Further, IsBuilder
    <3>7. PICK ran : ran = Ran(x, op)
      OBVIOUS
    <3>8. PICK es : es = Operands(x, op)
      OBVIOUS
    <3>9. Len(es) = n /\ \A i \in 1 .. n : es[i] = x.env[e.values[i]]
      <4>1. es = [i \in 1 .. n |-> x.env[e.values[i]]]
        BY <3>3, <3>6, <3>8 DEF Operands
      <4> QED
        BY <4>1
    <3>10. ran = [heap |-> x.heap, results |-> <<ListOf(es)>>]
      BY <3>3, <3>7, <3>8 DEF Ran, Effect
    <3>11. ran.heap = x.heap /\ 1 \in 1 .. Len(ran.results) /\ ran.results[1] = ListOf(es)
      BY <3>10
    <3>12. Means(k, in, heap, x) /\ Leads(f, s, k, x, in)
      BY <2>4, <3>1 DEF Built, Leads
    <3>13. HeapGrows(x.heap, ran.heap) /\ HeapGrows(heap, heap)
      BY <3>11, <3>12, HeapGrowsSame DEF Means
    <3>14. PICK y : y = ReplayOperation(x, op)
      OBVIOUS
    <3>15. /\ op.id = NextId(k) /\ op.results \in Nat /\ Len(op.operands) \in Nat /\ 1 \in 1 .. op.results
           /\ \A j \in 1 .. Len(op.operands) :
                Defined(k, op.operands[j]) /\ op.operands[j] \in DOMAIN x.env
      BY <3>1, <3>3, <3>6
    <3>16. Appended(k, in, x, op, g, ran, heap, y)
      BY <3>3, <3>5, <3>7, <3>12, <3>13, <3>14, <3>15, OperationAppended
    <3>17. PICK v : v = Value(op.id, 1) /\ v = Value(NextId(e.fn), 1)
      BY <3>1, <3>3
    <3>18. /\ Means(g, in, heap, y) /\ Keeps(k, x, g, y) /\ Places(g, y) = Places(k, x)
           /\ y.heap = x.heap /\ v \in DOMAIN y.env /\ y.env[v] = ListOf(es)
      BY <3>11, <3>15, <3>16, <3>17 DEF Appended
    <3>19. Leads(f, s, g, y, in)
      <4>1. ~ HiddenAlias(heap, g) => ~ HiddenAlias(heap, k)
        BY <3>12, <3>13, <3>18, AliasStays
      <4>2. Leads(k, x, g, y, in)
        BY <3>18 DEF Leads
      <4>3. Means(f, in, heap, s)
        BY <2>1
      <4> QED
        BY <3>12, <4>2, <4>3, LeadsOn
    <3>20. Stands(Places(g, y), ival, y.env[v])
      <4>1. \A i \in 1 .. Len(es) : ElementStands(Places(g, y), ival.elements[i], es[i])
        BY <2>1, <3>6, <3>9, <3>18
      <4>2. Len(es) = Len(ival.elements)
        BY <2>1, <3>6, <3>9
      <4> QED
        BY <1>2, <3>18, <4>1, <4>2 DEF Stands
    <3>21. PICK c : c = MapIValueToMlirValue(b, ival)
      OBVIOUS
    <3>22. c = AddValue(b, g, v)
      BY <1>2, <2>1, <2>2, <2>6, <3>1, <3>4, <3>17, <3>21 DEF MapIValueToMlirValue, MapList
    <3>23. c.fn = g /\ c.values = Append(b.values, v)
      BY <3>22, AddValueIs
    <3>24. AddsOne("values", ival, b, s, c, y, in)
      BY <2>1, <3>18, <3>19, <3>20, <3>23, StandsAsIs DEF AddsOne
    <3> QED
      BY <3>21, <3>24
  <2> QED
    BY <2>5, <2>6
<1> QED
  BY <1>1, <1>2

LEMMA ValueRound ==
  ASSUME IsHeap(heap), NEW ival, IsIValue(heap, ival), NEW in
  PROVE  RoundLeads("values", ival, in)
<1> SUFFICES ASSUME NEW b, NEW s, IsBuilder(b), b.ok, Means(b.fn, in, heap, s)
             PROVE  /\ Further(b.fn, Round("values", 0, b, ival))
                    /\ \E x : AddsOne("values", ival, b, s, Round("values", 0, b, ival), x, in)
  BY DEF RoundLeads
<1>1. PICK c : c = AddOperand(b, ival)
  OBVIOUS
<1>2. Round("values", 0, b, ival) = c
  BY <1>1 DEF Round, IfOk
<1>3. HasLength(ival)
  BY DEF IsIValue, HasLength, Mappable
<1>4. Further(b.fn, c)
  BY <1>1, <1>3, OperandAdded
<1>5. CASE c = Refuse(b)
  <2>1. AddsOne("values", ival, b, s, c, s, in)
    BY <1>5, RefuseAdds
  <2> QED
    BY <1>2, <1>4, <2>1
<1>6. CASE c # Refuse(b)
  <2>1. Mappable(ival) \/ ival.kind = "list"
    BY <1>1, <1>6, NullRefused
  <2>2. c = MapIValueToMlirValue(b, ival)
    BY <1>1, <1>6, OperandIs
  <2>3. \E x : AddsOne("values", ival, b, s, c, x, in)
    BY <2>1, <2>2, IValueLeads
  <2> QED
    BY <1>2, <1>4, <2>3
<1> QED
  BY <1>5, <1>6

LEMMA OperandsLead ==
  ASSUME IsHeap(heap), NEW f, NEW in, NEW s, Means(f, in, heap, s),
         NEW seq, Len(seq) \in Nat, \A i \in 1 .. Len(seq) : IsIValue(heap, seq[i]),
         NEW e, e = AddOperands(f, seq)
  PROVE  \E x : Built("values", seq, Len(seq), f, s, e, x, in)
<1>1. PICK b : b = Builder(f)
  OBVIOUS
<1>2. PICK up : Rounds("values", 0, b, seq, up) /\ InOrder(AddOperand, b, seq) = up[Len(seq)]
  BY ValuesLoop
<1>3. \A i \in 1 .. Len(seq) : RoundLeads("values", seq[i], in)
  BY ValueRound
<1>4. PICK loop : loop = "values" /\ loop \in {"elements", "values", "tensors"}
  OBVIOUS
<1>5. \E x : Built(loop, seq, Len(seq), f, s, up[Len(seq)], x, in)
  BY <1>1, <1>2, <1>3, <1>4, LoopLeads
<1> QED
  BY <1>1, <1>2, <1>4, <1>5 DEF AddOperands

-----------------------------------------------------------------------------
\* A kernel is recorded

LEMMA ResultsCount ==
  ASSUME NEW h, NEW name, NEW args
  PROVE  Len(Run(h, name, args).results) = IF IsBackward(name) THEN 3 ELSE 1
<1>1. CASE IsBackward(name)
  <2>1. \A x1, x2, x3, x4, x5 : Len(Backward(h, x1, x2, x3, x4, x5).results) = 3
    BY DEF Backward
  <2>2. Run(h, name, args) = BackwardOf(h, name, args)
    BY <1>1, RunsBackward
  <2> QED
    BY <1>1, <2>1, <2>2, BackwardIs DEF IsBackward
<1>2. CASE ~ IsBackward(name)
  <2>1. CASE Writes(name)
    BY <1>2, <2>1 DEF Run
  <2>2. CASE name = "view"
    BY <2>2 DEF Run, IsBackward, Writes
  <2>3. CASE name = "nonzero"
    BY <2>3 DEF Run, IsBackward, Writes
  <2>4. CASE name = "add_named"
    BY <2>4 DEF Run, IsBackward, Writes
  <2>5. CASE ~ Writes(name) /\ name \notin {"view", "nonzero", "add_named"}
    BY <1>2, <2>5 DEF Run
  <2> QED
    BY <2>1, <2>2, <2>3, <2>4, <2>5
<1> QED
  BY <1>1, <1>2

\* Like a stays like b on fewer tensors.
LEMMA AlikeOnFewer ==
  ASSUME NEW h, NEW hs, NEW M, NEW N, Adds(M, N), Alike(h, hs, N)
  PROVE  Alike(h, hs, M)
BY DEF Adds, Alike

\* What the loop over the results has to go by: the operation in e, which gets to x, has
\* them all, and N says where their tensors are.
Recorded(e, in, x, op, results, h, N) ==
  /\ Means(e, in, h, x) /\ Adds(Places(e, x), N) /\ Within(h, x.heap, N)
  /\ ResultsFit(h, results)
  /\ \A i \in 1 .. Len(results) : Value(op.id, i) \in DOMAIN x.env /\ Defined(e, Value(op.id, i))
  /\ \A i \in 1 .. Len(results) : results[i].kind = "tensor" =>
       results[i].tensor \in DOMAIN N /\ x.env[Value(op.id, i)] = Tensor(N[results[i].tensor])

MapsResults(e, in, x, results, h, N, k, b) ==
  /\ Means(b.fn, in, h, x) /\ Keeps(e, x, b.fn, x) /\ Adds(Places(b.fn, x), N)
  /\ (\A j \in 1 .. k : IsTensorResult(results[j])) => b.resultCount = k

LEMMA ResultMapped ==
  ASSUME NEW e, NEW in, NEW x, NEW op, NEW results, NEW h, IsHeap(h), NEW N,
         Recorded(e, in, x, op, results, h, N), NEW k \in Nat, k + 1 \in 1 .. Len(results),
         NEW b, MapsResults(e, in, x, results, h, N, k, b),
         NEW c, c = MapResult(b, op.id, results[k + 1])
  PROVE  MapsResults(e, in, x, results, h, N, k + 1, c)
<1>1. PICK r : r = results[k + 1]
  OBVIOUS
<1>2. CASE IsTensorResult(r)
  <2>1. \A j \in 1 .. k : IsTensorResult(results[j])
    <3>1. \A j \in 1 .. k : j \in 1 .. k + 1
      OBVIOUS
    <3> QED
      BY <1>1, <1>2, <3>1 DEF Recorded, ResultsFit
  <2>2. b.resultCount + 1 = k + 1
    BY <2>1 DEF MapsResults
  <2>3. PICK v, t, p : v = Value(op.id, k + 1) /\ t = r.tensor /\ p = N[t]
    OBVIOUS
  <2>4. PICK f, g : f = b.fn /\ g = MapTensor(f, t, v)
    OBVIOUS
  <2>5. c = [fn |-> g, resultCount |-> k + 1]
    BY <1>1, <1>2, <2>2, <2>3, <2>4 DEF MapResult
  <2>6. c.fn = g /\ c.resultCount = k + 1
    BY <2>5
  <2>7. Means(f, in, h, x) /\ Keeps(e, x, f, x) /\ Adds(Places(f, x), N) /\ WellFormed(e)
    BY <2>4 DEF MapsResults, Recorded, Means
  <2>8. v \in DOMAIN x.env /\ Defined(f, v)
    BY <2>3, <2>7 DEF Recorded, Keeps, Grows
  <2>9. t # 0 => /\ t \in 1 .. Len(h.storage) /\ p \in 1 .. Len(x.heap.storage) /\ t \in DOMAIN N
                 /\ x.env[v] = Tensor(p)
                 /\ t \in DOMAIN Places(f, x) => Places(f, x)[t] = p
    <3>1. CASE r.kind = "tensor"
      <4>1. t \in DOMAIN N /\ x.env[v] = Tensor(p)
        BY <1>1, <2>3, <3>1 DEF Recorded
      <4>2. t \in 1 .. Len(h.storage) /\ p \in 1 .. Len(x.heap.storage)
        BY <2>3, <4>1 DEF Recorded, Within
      <4>3. t \in DOMAIN Places(f, x) => Places(f, x)[t] = p
        BY <2>3, <2>7 DEF Adds
      <4> QED
        BY <4>1, <4>2, <4>3
    <3>2. CASE r.kind = "undefined"
      BY <1>1, <2>3, <3>2 DEF Recorded, ResultsFit
    <3> QED
      BY <1>2, <3>1, <3>2 DEF IsTensorResult
  <2>10. /\ Means(g, in, h, x) /\ Keeps(f, x, g, x)
         /\ Places(g, x) = IF t = 0 THEN Places(f, x) ELSE With(Places(f, x), t, p)
    BY <2>4, <2>7, <2>8, <2>9, MeansMapped
  <2>11. Keeps(e, x, g, x)
    BY <2>7, <2>10, KeepsOn
  <2>12. Adds(Places(g, x), N)
    <3>1. CASE t = 0
      BY <2>7, <2>10, <3>1
    <3>2. CASE t # 0
      <4>1. PICK M, L : M = Places(f, x) /\ L = Places(g, x)
        OBVIOUS
      <4>2. L = With(M, t, p)
        BY <2>10, <3>2, <4>1
      <4>3. IsWith(M, t, p, L)
        BY <4>2, WithIs
      <4>4. Adds(M, N) /\ t \in DOMAIN N /\ N[t] = p
        BY <2>3, <2>7, <2>9, <3>2, <4>1
      <4>5. Adds(L, N)
        BY <4>3, <4>4 DEF IsWith, Adds
      <4> QED
        BY <4>1, <4>5
    <3> QED
      BY <3>1, <3>2
  <2> QED
    BY <2>6, <2>10, <2>11, <2>12 DEF MapsResults
<1>3. CASE ~ IsTensorResult(r)
  <2>1. c = b
    BY <1>1, <1>3 DEF MapResult
  <2>2. ~ \A j \in 1 .. k + 1 : IsTensorResult(results[j])
    <3>1. k + 1 \in 1 .. k + 1
      OBVIOUS
    <3> QED
      BY <1>1, <1>3, <3>1
  <2> QED
    BY <2>1, <2>2 DEF MapsResults
<1> QED
  BY <1>2, <1>3

LEMMA ResultsMean ==
  ASSUME NEW e, NEW in, NEW x, NEW op, NEW results, NEW h, IsHeap(h), NEW N,
         Recorded(e, in, x, op, results, h, N), NEW g, g = MapResults(e, op.id, results)
  PROVE  Means(g, in, h, x) /\ Keeps(e, x, g, x) /\ Adds(Places(g, x), N)
<1>0. Len(results) \in Nat /\ Means(e, in, h, x)
  BY DEF Recorded, ResultsFit
<1>1. PICK up : /\ Rounds("results", op.id, [fn |-> e, resultCount |-> 0], results, up)
                /\ MapResults(e, op.id, results) = up[Len(results)].fn
  BY <1>0, ResultsLoop
<1> DEFINE S == {k \in Nat : k <= Len(results) => MapsResults(e, in, x, results, h, N, k, up[k])}
<1>2. 0 \in S
  <2>1. PICK b : b = up[0]
    OBVIOUS
  <2>2. b.fn = e /\ b.resultCount = 0
    BY <1>1, <2>1 DEF Rounds
  <2>3. MapsResults(e, in, x, results, h, N, 0, b)
    BY <1>0, <2>2, KeepsSame DEF MapsResults, Recorded, Means
  <2> QED
    BY <2>1, <2>3
<1>3. ASSUME NEW k \in Nat, k \in S
      PROVE  k + 1 \in S
  <2> SUFFICES ASSUME k + 1 <= Len(results)
               PROVE  MapsResults(e, in, x, results, h, N, k + 1, up[k + 1])
    OBVIOUS
  <2>1. k + 1 \in 1 .. Len(results) /\ (k + 1) - 1 = k
    BY <1>0
  <2>2. PICK b, c : b = up[k] /\ c = up[k + 1]
    OBVIOUS
  <2>3. c = MapResult(b, op.id, results[k + 1])
    BY <1>1, <2>1, <2>2 DEF Rounds, Round
  <2>4. MapsResults(e, in, x, results, h, N, k, b)
    BY <1>0, <1>3, <2>2
  <2>5. MapsResults(e, in, x, results, h, N, k + 1, c)
    BY <2>1, <2>3, <2>4, ResultMapped
  <2> QED
    BY <2>2, <2>5
<1>4. Len(results) \in S
  <2> HIDE DEF S
  <2> QED
    BY <1>0, <1>2, <1>3, SetInduction
<1>5. PICK b : b = up[Len(results)]
  OBVIOUS
<1>6. b.fn = g /\ MapsResults(e, in, x, results, h, N, Len(results), b)
  BY <1>0, <1>1, <1>4, <1>5
<1> QED
  BY <1>6 DEF MapsResults

\* The operands of a kernel that runs stand for the arguments it records.
OperandsStand(operands, call, f, s) ==
  /\ Len(operands) = Len(RecordedArgs(call))
  /\ \A k \in 1 .. Len(operands) :
       /\ operands[k] \in DOMAIN s.env /\ Defined(f, operands[k])
       /\ Stands(Places(f, s), RecordedArgs(call)[k], s.env[operands[k]])

LEMMA NamesKept ==
  ASSUME NEW h, NEW call, IsTypedCall(h, call)
  PROVE  /\ RecordedName(call) \notin OwnNames /\ RecordedName(call) # "std.return"
         /\ IsBackward(RecordedName(call)) <=> IsBackward(call.op)
         /\ Len(RecordedArgs(call)) \in Nat
<1>1. Len(RecordedArgs(call)) \in Nat /\ RecordedName(call) # "std.return"
  BY ArgumentsToRecord DEF IsTypedCall
<1> QED
  BY <1>1 DEF RecordedName, IsTypedCall, OwnNames, IsBackward

LEMMA RecordMeans ==
  ASSUME NEW h, IsHeap(h), NEW f, NEW in, NEW s, Means(f, in, h, s),
         NEW call, IsTypedCall(h, call), NEW operands, OperandsStand(operands, call, f, s),
         NEW ran, ran = Run(h, call.op, call.args),
         NEW g, g = Record(f, RecordedName(call), operands, ran.results)
  PROVE  \E x : /\ Means(g, in, ran.heap, x) /\ Keeps(f, s, g, x)
                /\ Alike(h, s.heap, Places(f, s)) => Alike(ran.heap, x.heap, Places(g, x))
<1>1. PICK name, M, results : name = RecordedName(call) /\ M = Places(f, s) /\ results = ran.results
  OBVIOUS
<1>2. PICK op : op = Operation(NextId(f), name, operands, Len(results), NoAttr)
  OBVIOUS
<1>3. /\ op.id = NextId(f) /\ op.name = name /\ op.operands = operands /\ op.results = Len(results)
      /\ ~ IsTerminator(op) /\ name \notin OwnNames
  <2>1. name # "std.return" /\ name \notin OwnNames
    BY <1>1, NamesKept
  <2> QED
    BY <1>2, <2>1 DEF Operation, IsTerminator
<1>4. PICK e : e = CreateOperationFromSchema(f, name, operands, results)
  OBVIOUS
<1>5. SetsBlock(f, Append(f.block, op), e)
  BY <1>2, <1>4, AtEndAppends DEF CreateOperationFromSchema, Means
<1>6. PICK ds : ds = Operands(s, op)
  OBVIOUS
<1>7. PICK n \in Nat : n = Len(operands)
  BY NamesKept DEF OperandsStand
<1>8. Len(ds) = n /\ \A k \in 1 .. n : ds[k] = s.env[operands[k]]
  <2>1. ds = [k \in 1 .. n |-> s.env[operands[k]]]
    BY <1>3, <1>6, <1>7 DEF Operands
  <2> QED
    BY <2>1
<1>9. PICK own : own = Run(s.heap, name, ds)
  OBVIOUS
<1>10. own = Ran(s, op)
  BY <1>3, <1>6, <1>9 DEF Ran, Effect, OwnNames
<1>11. PICK N : RunAlike(h, s.heap, M, ran, own, N)
  <2>1. Len(ds) = Len(RecordedArgs(call)) /\ \A k \in 1 .. Len(ds) : Stands(M, RecordedArgs(call)[k], ds[k])
    BY <1>1, <1>7, <1>8 DEF OperandsStand
  <2>2. IsHeap(s.heap) /\ Within(h, s.heap, M)
    BY <1>1 DEF Means
  <2>3. PICK hs : hs = s.heap
    OBVIOUS
  <2>4. own = Run(hs, RecordedName(call), ds) /\ IsHeap(hs) /\ Within(h, hs, M)
    BY <1>1, <1>9, <2>2, <2>3
  <2>5. \E N : RunAlike(h, hs, M, ran, own, N)
    BY <2>1, <2>4, RunBoth
  <2> QED
    BY <2>3, <2>5
<1>12. PICK m \in {1, 3} : m = Len(results) /\ m = Len(own.results)
  BY <1>1, <1>9, NamesKept, ResultsCount
<1>13. PICK x : x = ReplayOperation(s, op)
  OBVIOUS
<1>14. Appended(f, in, s, op, e, own, ran.heap, x)
  <2>1. HeapGrows(s.heap, own.heap) /\ HeapGrows(h, ran.heap)
    BY <1>11 DEF RunAlike
  <2>2. op.results \in Nat /\ Len(op.operands) \in Nat
    BY <1>3, <1>7, <1>12
  <2>3. \A k \in 1 .. Len(op.operands) : Defined(f, op.operands[k]) /\ op.operands[k] \in DOMAIN s.env
    BY <1>3 DEF OperandsStand
  <2>4. PICK k : k = ran.heap
    OBVIOUS
  <2>5. Appended(f, in, s, op, e, own, k, x)
    BY <1>3, <1>5, <1>10, <1>13, <2>1, <2>2, <2>3, <2>4, OperationAppended
  <2> QED
    BY <2>4, <2>5
<1>15. PICK k : k = ran.heap /\ IsHeap(k)
  BY <1>11 DEF RunAlike, HeapGrows
<1>16. Recorded(e, in, x, op, results, k, N)
  <2>1. Means(e, in, k, x) /\ Places(e, x) = M /\ x.heap = own.heap
    BY <1>1, <1>14, <1>15 DEF Appended
  <2>2. Adds(Places(e, x), N) /\ Within(k, x.heap, N) /\ ResultsFit(k, results)
    BY <1>1, <1>11, <1>15, <2>1 DEF RunAlike
  <2>3. ASSUME NEW i \in 1 .. Len(results)
        PROVE  /\ Value(op.id, i) \in DOMAIN x.env /\ Defined(e, Value(op.id, i))
               /\ x.env[Value(op.id, i)] = own.results[i]
    BY <1>3, <1>12, <1>14 DEF Appended
  <2>4. ASSUME NEW i \in 1 .. Len(results), results[i].kind = "tensor"
        PROVE  results[i].tensor \in DOMAIN N /\ own.results[i] = Tensor(N[results[i].tensor])
    BY <1>1, <1>11, <2>4 DEF RunAlike, TensorsOf
  <2> QED
    BY <2>1, <2>2, <2>3, <2>4 DEF Recorded
<1>17. g = MapResults(e, op.id, results)
  BY <1>1, <1>3, <1>4 DEF Record
<1>18. Means(g, in, k, x) /\ Keeps(e, x, g, x) /\ Adds(Places(g, x), N)
  BY <1>15, <1>16, <1>17, ResultsMean
<1>19. Keeps(f, s, g, x)
  BY <1>14, <1>18, KeepsOn DEF Appended, Means
<1>20. ASSUME Alike(h, s.heap, M)
       PROVE  Alike(k, x.heap, Places(g, x))
  <2>1. Alike(k, x.heap, N)
    BY <1>11, <1>14, <1>15, <1>20 DEF RunAlike, Appended
  <2> QED
    BY <1>18, <2>1, AlikeOnFewer
<1> QED
  BY <1>1, <1>15, <1>18, <1>19, <1>20

-----------------------------------------------------------------------------
\* A capture ends, and starts

LEMMA MappedInRange ==
  ASSUME NEW f, NEW in, NEW h, NEW s, Means(f, in, h, s)
  PROVE  MappedTensors(f) \ {0} \subseteq 1 .. Len(h.storage)
BY PlacesIs DEF Means, Within

\* What tensors hold now.
ContentsAre(out, tensors) == out = [i \in 1 .. Len(tensors) |-> ContentOf(heap, tensors[i])]

\* The values of a function in state s hold the tensors of seq.
ValuesHold(values, seq, f, s) ==
  \A i \in 1 .. Len(seq) : /\ values[i] \in DOMAIN s.env /\ seq[i] \in DOMAIN Places(f, s)
                           /\ s.env[values[i]] = Tensor(Places(f, s)[seq[i]])

\* The return gives what its operands stand for.
LEMMA ReturnMeans ==
  ASSUME IsHeap(heap), NEW f, NEW in, NEW s, Means(f, in, heap, s),
         NEW n \in Nat, NEW values, IsList(values), Len(values) = n,
         NEW seq, Len(seq) = n, ValuesHold(values, seq, f, s),
         NEW wanted, ContentsAre(wanted, seq),
         NEW g, Closes(f, values, n, g)
  PROVE  /\ g.tensorValueMap = f.tensorValueMap /\ OperationsKept(f, g)
         /\ Alike(heap, s.heap, Places(f, s)) => ReplayBlock(g.block, in).returns = wanted
<1> DEFINE op == Operation(NextId(f), "std.return", values, 0, NoAttr)
           t == Append(f.block, op)
           h == InsertBeforeTerminator(f, "std.return", values, 0)
<1>1. PICK m \in Nat : m = Len(f.block) /\ IsList(f.block) /\ IsFunction(f)
  BY ListLength DEF Means, WellFormed, IsFunction
<1>2. op.id = NextId(f) /\ op.operands = values /\ op.name = "std.return"
  BY DEF Operation
<1>3. SetsBlock(f, t, h)
  BY DEF InsertBeforeTerminator, SetsBlock
<1> HIDE DEF op, h
<1>4. Inserted(f.block, t, m + 1, op)
  BY <1>1, AppendInserts
<1>5. IsList(t) /\ Len(t) = m + 1 /\ \A i \in 1 .. m : t[i] = f.block[i]
  BY <1>1, <1>4 DEF Inserted
<1> HIDE DEF t
<1>6. IsFunction(h) /\ h.block = t /\ h.tensorValueMap = f.tensorValueMap
  BY <1>1, <1>3, <1>5, WithBlock
<1>7. SetsResults(h, n, g)
  BY DEF Closes, RewriteFuncReturnTypes, SetsResults, h
<1>8. g.block = t /\ g.tensorValueMap = f.tensorValueMap
  BY <1>6, <1>7, WithResults
<1>9. OperationsKept(f, g)
  <2>1. \A i \in 1 .. m : i \in 1 .. m + 1
    OBVIOUS
  <2> QED
    BY <1>1, <1>5, <1>8, <2>1 DEF OperationsKept
<1>10. PICK x : x = ReplayOperation(s, op)
  OBVIOUS
<1>11. ReplayBlock(t, in) = x
  <2>1. After(t, in, x)
    <3>1. After(f.block, in, s)
      BY DEF Means
    <3>2. op.id = Len(f.block) + 1 /\ Inserted(f.block, t, Len(f.block) + 1, op)
      BY <1>1, <1>2, <1>4 DEF NextId
    <3>3. \A i \in 1 .. Len(op.operands) : op.operands[i] \in DOMAIN s.env
      BY <1>2 DEF ValuesHold
    <3> QED
      BY <1>1, <1>10, <3>1, <3>2, <3>3, AfterAppended
  <2> QED
    BY <1>5, <2>1, AfterIs
<1>12. ASSUME Alike(heap, s.heap, Places(f, s))
       PROVE  x.returns = wanted
  <2>1. PICK es : es = Operands(s, op)
    OBVIOUS
  <2>2. es = [i \in 1 .. n |-> s.env[values[i]]]
    BY <1>2, <2>1 DEF Operands
  <2>3. Len(es) = n /\ \A i \in 1 .. n : es[i] = s.env[values[i]]
    BY <2>2
  <2>4. x.returns = [k \in 1 .. Len(es) |-> ContentOf(s.heap, es[k].tensor)]
    <3>1. x.returns = ReturnsOf(s, op)
      BY <1>10, ReplayShape
    <3> QED
      BY <1>2, <2>1, <3>1 DEF ReturnsOf
  <2>5. ASSUME NEW i \in 1 .. n
        PROVE  ContentOf(s.heap, es[i].tensor) = ContentOf(heap, seq[i])
    <3>1. es[i].tensor = Places(f, s)[seq[i]] /\ seq[i] \in DOMAIN Places(f, s)
      BY <2>3, KindsOf DEF ValuesHold
    <3>2. PICK M, u : M = Places(f, s) /\ u = seq[i]
      OBVIOUS
    <3>3. ContentOf(heap, u) = ContentOf(s.heap, M[u])
      BY <1>12, <3>1, <3>2 DEF Alike
    <3> QED
      BY <3>1, <3>2, <3>3
  <2>6. x.returns = [k \in 1 .. n |-> ContentOf(s.heap, es[k].tensor)]
    BY <2>3, <2>4
  <2> QED
    BY <2>5, <2>6 DEF ContentsAre
<1> QED
  BY <1>8, <1>9, <1>11, <1>12

\* Running g, which is f with a return, gives what is wanted.
ReturnGives(f, s, in, g, wanted) ==
  /\ MappedTensors(g) \ {0} \subseteq 1 .. Len(heap.storage)
  /\ ~ HiddenAlias(heap, g) => ~ HiddenAlias(heap, f)
  /\ Alike(heap, s.heap, Places(f, s)) /\ ~ HiddenAlias(heap, g) =>
       ReplayBlock(g.block, in).returns = wanted


\* What returns() makes of a function.
LEMMA ReturnsMean ==
  ASSUME IsHeap(heap), NEW f, NEW in, NEW s, Means(f, in, heap, s),
         NEW seq, Len(seq) \in Nat, \A i \in 1 .. Len(seq) : seq[i] \in 1 .. Len(heap.storage),
         NEW b, b = InOrder(TensorValue, Builder(f), seq)
  PROVE  /\ \E x : Leads(f, s, b.fn, x, in)
         /\ \A g, wanted : b.ok /\ Closes(b.fn, b.values, Len(seq), g) /\ ContentsAre(wanted, seq) =>
                            ReturnGives(f, s, in, g, wanted)
<1>1. PICK x : Built("tensors", seq, Len(seq), f, s, b, x, in)
  BY TensorsLead
<1>2. Leads(f, s, b.fn, x, in)
  BY <1>1 DEF Built
<1>3. ASSUME NEW g, NEW wanted, b.ok, Closes(b.fn, b.values, Len(seq), g),
             ContentsAre(wanted, seq)
      PROVE  /\ MappedTensors(g) \ {0} \subseteq 1 .. Len(heap.storage)
             /\ ~ HiddenAlias(heap, g) => ~ HiddenAlias(heap, f)
             /\ Alike(heap, s.heap, Places(f, s)) /\ ~ HiddenAlias(heap, g) =>
                  ReplayBlock(g.block, in).returns = wanted
  <2>1. PICK k, n, values : k = b.fn /\ n = Len(seq) /\ values = b.values
    OBVIOUS
  <2>2. /\ n \in Nat /\ IsList(values) /\ Len(values) = n /\ Len(seq) = n
        /\ \A i \in 1 .. n : Defined(k, values[i])
    BY <1>1, <1>3, <2>1 DEF Built, Further, IsBuilder
  <2>12. ValuesHold(values, seq, k, x)
    BY <1>1, <1>3, <2>1, StandsAsIs DEF Built, ValuesHold
  <2>3. Closes(k, values, n, g) /\ Means(k, in, heap, x)
    BY <1>2, <1>3, <2>1 DEF Leads
  <2>4. /\ g.tensorValueMap = k.tensorValueMap /\ OperationsKept(k, g)
        /\ Alike(heap, x.heap, Places(k, x)) => ReplayBlock(g.block, in).returns = wanted
    BY <1>3, <2>2, <2>3, <2>12, ReturnMeans
  <2>5. WellFormed(g)
    BY <2>2, <2>3, ReturnCloses DEF Means
  <2>6. TensorsKept(k, g)
    BY <2>3, <2>4, ListLength DEF TensorsKept, Means, WellFormed, IsFunction
  <2>7. MappedTensors(k) \ {0} \subseteq 1 .. Len(heap.storage)
    BY <2>3, MappedInRange
  <2>8. MappedTensors(g) = MappedTensors(k)
    BY <2>4, LookupSame
  <2>9. HiddenAlias(heap, k) => HiddenAlias(heap, g)
    BY <2>3, <2>4, <2>5, <2>6, <2>7, AliasPersists, HeapGrowsSame DEF Means
  <2>10. HiddenAlias(heap, f) => HiddenAlias(heap, k)
    BY <1>2, <2>1, AliasStays, HeapGrowsSame DEF Leads
  <2>11. Alike(heap, s.heap, Places(f, s)) /\ ~ HiddenAlias(heap, k) => Alike(heap, x.heap, Places(k, x))
    BY <1>2, <2>1 DEF Leads
  <2> QED
    BY <2>4, <2>7, <2>8, <2>9, <2>10, <2>11
<1> QED
  BY <1>2, <1>3 DEF ReturnGives

\* A capture that has just started.
IsStart(s, in, n) ==
  /\ s.heap.storage = [i \in 1 .. n |-> i] /\ s.heap.contents = in
  /\ s.heap = [storage |-> s.heap.storage, contents |-> s.heap.contents]
  /\ s.env = [v \in {Argument(k) : k \in 1 .. n} |-> Tensor(v.result)]

LEMMA StartIs ==
  ASSUME NEW in, NEW n, n = Len(in), NEW s, s = StartReplay(in)
  PROVE  IsStart(s, in, n)
BY DEF StartReplay, IsStart

LEMMA StartMeans ==
  ASSUME IsHeap(heap), Len(InitialHeap.storage) <= Len(heap.storage), NEW args \in ArgumentLists,
         NEW f, f = CreateFunction(args),
         NEW in, ContentsAre(in, args),
         NEW s, s = StartReplay(in)
  PROVE  /\ Means(f, in, heap, s)
         /\ ~ HiddenAlias(heap, f) => Alike(heap, s.heap, Places(f, s))
<1>1. PICK n \in Nat : n = Len(args) /\ \A i \in 1 .. n : args[i] \in 1 .. Len(heap.storage)
  <2>1. args \in Seq(1 .. Len(InitialHeap.storage)) /\ Len(InitialHeap.storage) \in Nat
    BY ArgumentsAssumption, HeapAssumption
  <2>2. Len(heap.storage) \in Nat
    BY HeapLengths
  <2>3. PICK k \in Nat, m \in Nat : k = Len(InitialHeap.storage) /\ m = Len(heap.storage) /\ k <= m
    BY <2>1, <2>2
  <2>4. PICK n \in Nat : n = Len(args)
    BY <2>1
  <2>5. \A i \in 1 .. n : args[i] \in 1 .. k
    BY <2>1, <2>3, <2>4
  <2>6. \A i \in 1 .. k : i \in 1 .. m
    BY <2>3
  <2> QED
    BY <2>3, <2>4, <2>5, <2>6
<1>2. WellFormed(f) /\ HasNoReturn(f)
  BY CreatedFunction
<1>3. /\ f.block = <<>>
      /\ f.tensorValueMap = [i \in 1 .. n |-> [tensor |-> args[i], value |-> Argument(i)]]
  BY <1>1 DEF CreateFunction
<1>4. Len(in) = n /\ IsList(in) /\ \A i \in 1 .. n : in[i] = ContentOf(heap, args[i])
  <2>1. PICK content : content = [i \in 1 .. n |-> ContentOf(heap, args[i])]
    OBVIOUS
  <2>2. PICK S : S = {content[i] : i \in 1 .. n}
    OBVIOUS
  <2>3. content \in Seq(S) /\ Len(content) = n /\ \A i \in 1 .. n : content[i] = ContentOf(heap, args[i])
    BY <2>1, <2>2
  <2>4. in = content
    BY <1>1, <2>1 DEF ContentsAre
  <2> QED
    BY <2>3, <2>4 DEF IsList
<1>5. \A i : Argument(i).op = 0 /\ Argument(i).result = i
  BY ValueIs DEF Argument
<1>6. /\ s.heap.storage = [i \in 1 .. n |-> i] /\ s.heap.contents = in
      /\ s.heap = [storage |-> s.heap.storage, contents |-> s.heap.contents]
      /\ s.env = [v \in {Argument(k) : k \in 1 .. n} |-> Tensor(v.result)]
  <2>1. IsStart(s, in, n)
    BY <1>4, StartIs
  <2> QED
    BY <2>1 DEF IsStart
<1>7. \A i \in 1 .. n : Argument(i) \in DOMAIN s.env /\ s.env[Argument(i)] = Tensor(i)
  BY <1>5, <1>6
<1>8. IsHeap(s.heap) /\ Len(s.heap.storage) = n /\ \A i \in 1 .. n : s.heap.storage[i] = i
  <2>1. [i \in 1 .. n |-> i] \in Seq(1 .. n) /\ Len([i \in 1 .. n |-> i]) = n
    OBVIOUS
  <2>2. PICK hs, content : hs = s.heap /\ content = in
    OBVIOUS
  <2>3. /\ hs = [storage |-> hs.storage, contents |-> hs.contents] /\ hs.contents = content
        /\ hs.storage = [i \in 1 .. n |-> i] /\ IsList(content) /\ Len(content) = n
    BY <1>4, <1>6, <2>2
  <2>4. IsHeap(hs)
    BY <2>1, <2>3 DEF IsHeap
  <2> QED
    BY <2>1, <2>2, <2>3, <2>4
<1>9. After(f.block, in, s)
  <2>1. PICK up : up = [k \in 0 .. 0 |-> s]
    OBVIOUS
  <2>2. Len(f.block) = 0 /\ up[0] = s /\ \A i \in 1 .. Len(f.block) : FALSE
    BY <1>3, <2>1, EmptyList
  <2>3. Trace(f.block, in, up)
    BY <2>2 DEF Trace
  <2>4. \A k \in 0 .. Len(f.block) : \A v \in DOMAIN up[k].env : v.op \in 0 .. Len(f.block)
    <3>1. \A v \in DOMAIN s.env : v.op = 0
      BY <1>5, <1>6
    <3>2. \A k \in 0 .. 0 : k = 0
      OBVIOUS
    <3> QED
      BY <2>2, <3>1, <3>2
  <2>5. Runs(f.block, in, up)
    BY <2>2, <2>3, <2>4 DEF Runs
  <2> QED
    BY <2>2, <2>5 DEF After
<1>10. Len(f.tensorValueMap) = n /\ IsList(f.tensorValueMap)
       /\ \A i \in 1 .. n : f.tensorValueMap[i].tensor = args[i] /\ f.tensorValueMap[i].value = Argument(i)
  <2>1. PICK m : m = [i \in 1 .. n |-> [tensor |-> args[i], value |-> Argument(i)]]
    OBVIOUS
  <2>2. Len(m) = n /\ \A i \in 1 .. n : m[i].tensor = args[i] /\ m[i].value = Argument(i)
    BY <2>1
  <2> QED
    BY <1>2, <1>3, <2>1, <2>2 DEF WellFormed, IsFunction
<1>11. MappedTensors(f) = {args[i] : i \in 1 .. n}
  BY <1>10 DEF MappedTensors
<1>12. PICK M : M = Places(f, s)
  OBVIOUS
<1>13. /\ IsMapping(M) /\ DOMAIN M = MappedTensors(f) \ {0}
       /\ \A t \in MappedTensors(f) \ {0} : M[t] = s.env[LookupTensor(f, t)].tensor
  BY <1>12, PlacesIs
<1>14. ASSUME NEW t \in MappedTensors(f)
       PROVE  /\ t \in 1 .. Len(heap.storage) /\ t # 0 /\ M[t] \in 1 .. n /\ args[M[t]] = t
              /\ LookupTensor(f, t) \in DOMAIN s.env /\ s.env[LookupTensor(f, t)] = Tensor(M[t])
  <2>1. PICK i \in 1 .. n : args[i] = t /\ LookupTensor(f, t) = Argument(i)
    BY <1>10, LookupLatest
  <2>2. t \in 1 .. Len(heap.storage)
    BY <1>1, <2>1
  <2>3. t # 0
    BY <2>2, HeapLengths
  <2>4. M[t] = s.env[LookupTensor(f, t)].tensor /\ s.env[LookupTensor(f, t)] = Tensor(i)
    BY <1>7, <1>13, <2>1, <2>3
  <2>5. M[t] = i
    BY <2>4, KindsOf
  <2> QED
    BY <1>7, <2>1, <2>2, <2>3, <2>4, <2>5
<1>15. Within(heap, s.heap, M)
  BY <1>8, <1>13, <1>14 DEF Within
<1>16. Means(f, in, heap, s)
  BY <1>2, <1>8, <1>9, <1>12, <1>14, <1>15 DEF Means
<1>17. ASSUME ~ HiddenAlias(heap, f)
       PROVE  Alike(heap, s.heap, M)
  <2>1. \A t \in DOMAIN M : ContentOf(heap, t) = ContentOf(s.heap, M[t])
    <3> SUFFICES ASSUME NEW t \in DOMAIN M PROVE ContentOf(heap, t) = ContentOf(s.heap, M[t])
      OBVIOUS
    <3>1. M[t] \in 1 .. n /\ args[M[t]] = t
      BY <1>13, <1>14
    <3>2. PICK i, content : i = M[t] /\ content = in
      OBVIOUS
    <3>3. s.heap.storage[i] = i /\ s.heap.contents = content /\ content[i] = ContentOf(heap, t)
      BY <1>4, <1>6, <1>8, <3>1, <3>2
    <3> QED
      BY <3>2, <3>3 DEF ContentOf
  <2>2. ASSUME NEW t \in DOMAIN M, NEW u \in DOMAIN M
        PROVE  heap.storage[t] = heap.storage[u] <=> s.heap.storage[M[t]] = s.heap.storage[M[u]]
    <3>1. PICK i \in 1 .. n, j \in 1 .. n : i = M[t] /\ j = M[u] /\ args[i] = t /\ args[j] = u /\ t # 0 /\ u # 0
      BY <1>13, <1>14
    <3>2. s.heap.storage[i] = i /\ s.heap.storage[j] = j
      BY <1>8
    <3>3. t = u => i = j
      BY <3>1
    <3>4. heap.storage[t] = heap.storage[u] => t = u
      <4> SUFFICES ASSUME heap.storage[t] = heap.storage[u], t # u PROVE HiddenAlias(heap, f)
        BY <1>17
      <4>1. ASSUME NEW p \in 1 .. n, NEW q \in 1 .. n, p < q, args[p] # args[q], args[p] # 0, args[q] # 0,
                   heap.storage[args[p]] = heap.storage[args[q]]
            PROVE  HiddenAlias(heap, f)
        <5>1. PICK a, b : a = f.tensorValueMap[p] /\ b = f.tensorValueMap[q]
          OBVIOUS
        <5>2. a.tensor = args[p] /\ b.tensor = args[q] /\ b.value.op = 0
          BY <1>5, <1>10, <5>1
        <5>3. p \in 1 .. Len(f.tensorValueMap) /\ q \in 1 .. Len(f.tensorValueMap)
          BY <1>10
        <5> QED
          BY <4>1, <5>1, <5>2, <5>3 DEF HiddenAlias
      <4>2. i # j
        BY <3>1
      <4>3. CASE i < j
        BY <3>1, <4>1, <4>3
      <4>4. CASE j < i
        BY <3>1, <4>1, <4>4
      <4> QED
        BY <4>2, <4>3, <4>4
    <3> QED
      BY <3>1, <3>2, <3>3, <3>4
  <2> QED
    BY <2>1, <2>2 DEF Alike
<1> QED
  BY <1>12, <1>16, <1>17

-----------------------------------------------------------------------------
\* A capture computes what the program computed

\* What a program calls is a kernel of ATen, on tensors that exist.
ProgramsUseTensors ==
  \A h : IsHeap(h) /\ Len(InitialHeap.storage) <= Len(h.storage) =>
           \A call \in Calls(h) : IsTypedCall(h, call)

\* Running f so far leads to s: the operands of every kernel that is to be
\* recorded by c stand there for its arguments, and if the capture is whole and
\* no alias is hidden the tensors have the contents and aliases they have in h.
OpenAs(f, in, h, whole, fs, c, s) ==
  /\ Means(f, in, h, s)
  /\ \A th \in Thread : \A i \in 1 .. Len(fs[th]) :
       fs[th][i].controller = c => OperandsStand(fs[th][i].operands, fs[th][i].call, f, s)
  /\ whole /\ ~ HiddenAlias(h, f) => Alike(h, s.heap, Places(f, s))
Open(f, in, h, whole, fs, c) == \E s : OpenAs(f, in, h, whole, fs, c, s)

\* The function has returned: running it gives what the program returned.
Closed(f, in, h, whole, out) ==
  /\ MappedTensors(f) \ {0} \subseteq 1 .. Len(h.storage)
  /\ whole /\ ~ HiddenAlias(h, f) => ReplayBlock(f.block, in).returns = out

FaithOf(c) ==
  /\ ~ hasReturned[c] => Open(fn[c], inputs[c], heap, intact[c], frames, c)
  /\ hasReturned[c] /\ ~ late[c] => Closed(fn[c], inputs[c], heap, intact[c], returned[c])

HeapInv ==
  /\ IsHeap(heap) /\ Len(InitialHeap.storage) <= Len(heap.storage)
  /\ \A th \in Thread : \A i \in 1 .. Len(frames[th]) : IsTypedCall(heap, frames[th][i].call)

FaithInv ==
  /\ HeapInv
  /\ DOMAIN inputs = Controller /\ DOMAIN returned = Controller
  /\ \A c \in Started : FaithOf(c)

LEMMA StandKept ==
  ASSUME NEW operands, NEW call, NEW f, NEW s, OperandsStand(operands, call, f, s),
         NEW g, NEW x, Keeps(f, s, g, x)
  PROVE  OperandsStand(operands, call, g, x)
<1>1. ASSUME NEW k \in 1 .. Len(operands)
      PROVE  /\ operands[k] \in DOMAIN x.env /\ Defined(g, operands[k])
             /\ Stands(Places(g, x), RecordedArgs(call)[k], x.env[operands[k]])
  <2>1. /\ operands[k] \in DOMAIN s.env /\ Defined(f, operands[k])
        /\ Stands(Places(f, s), RecordedArgs(call)[k], s.env[operands[k]])
    BY DEF OperandsStand
  <2>2. operands[k] \in DOMAIN x.env /\ x.env[operands[k]] = s.env[operands[k]]
    BY <2>1 DEF Keeps, EnvKept
  <2>3. Defined(g, operands[k])
    BY <2>1 DEF Keeps, Grows
  <2>4. PICK d : d = s.env[operands[k]]
    OBVIOUS
  <2>5. Stands(Places(g, x), RecordedArgs(call)[k], d)
    <3>1. PICK ival : ival = RecordedArgs(call)[k]
      OBVIOUS
    <3>2. PICK M, N : M = Places(f, s) /\ N = Places(g, x)
      OBVIOUS
    <3>3. Adds(M, N) /\ Stands(M, ival, d)
      BY <2>1, <2>4, <3>1, <3>2 DEF Keeps
    <3> QED
      BY <3>1, <3>2, <3>3, StandsOn
  <2> QED
    BY <2>2, <2>3, <2>4, <2>5
<1> QED
  BY <1>1 DEF OperandsStand

\* Call stacks that hold, of the kernels of c, ones that were there or ones
\* whose operands stand for their arguments.
StacksLead(fs, gs, c, g, x) ==
  \A th \in Thread : \A i \in 1 .. Len(gs[th]) : gs[th][i].controller = c =>
    \/ \E j \in 1 .. Len(fs[th]) : gs[th][i] = fs[th][j]
    \/ OperandsStand(gs[th][i].operands, gs[th][i].call, g, x)

LEMMA OpenMoves ==
  ASSUME NEW f, NEW in, NEW h, IsHeap(h), NEW whole, NEW fs, NEW c, NEW s,
         OpenAs(f, in, h, whole, fs, c, s),
         NEW g, NEW k, HeapGrows(h, k), NEW x, Means(g, in, k, x), Keeps(f, s, g, x),
         NEW whole2, whole2 => whole, NEW gs, StacksLead(fs, gs, c, g, x),
         whole2 /\ ~ HiddenAlias(k, g) /\ Alike(h, s.heap, Places(f, s)) =>
           Alike(k, x.heap, Places(g, x))
  PROVE  Open(g, in, k, whole2, gs, c)
<1>1. ASSUME NEW th \in Thread, NEW i \in 1 .. Len(gs[th]), gs[th][i].controller = c
      PROVE  OperandsStand(gs[th][i].operands, gs[th][i].call, g, x)
  <2>1. CASE \E j \in 1 .. Len(fs[th]) : gs[th][i] = fs[th][j]
    <3>1. PICK fr : fr = gs[th][i]
      OBVIOUS
    <3>2. OperandsStand(fr.operands, fr.call, f, s)
      BY <1>1, <2>1, <3>1 DEF OpenAs
    <3>3. PICK operands, call : operands = fr.operands /\ call = fr.call
      OBVIOUS
    <3>4. OperandsStand(operands, call, g, x)
      BY <3>2, <3>3, StandKept
    <3> QED
      BY <3>1, <3>3, <3>4
  <2> QED
    BY <1>1, <2>1 DEF StacksLead
<1>2. ASSUME whole2, ~ HiddenAlias(k, g)
      PROVE  Alike(k, x.heap, Places(g, x))
  <2>1. ~ HiddenAlias(h, f)
    BY <1>2, AliasStays DEF OpenAs
  <2> QED
    BY <1>2, <2>1 DEF OpenAs
<1>3. OpenAs(g, in, k, whole2, gs, c, x)
  BY <1>1, <1>2 DEF OpenAs
<1> QED
  BY <1>3 DEF Open

\* Tensors the function knows keep their contents.
Untouched(f, h, k) == \A t \in MappedTensors(f) \ {0} : ContentOf(k, t) = ContentOf(h, t)

LEMMA OpenStays ==
  ASSUME NEW f, NEW in, NEW h, IsHeap(h), NEW whole, NEW fs, NEW c,
         Open(f, in, h, whole, fs, c), NEW k, HeapGrows(h, k),
         NEW whole2, whole2 => whole /\ Untouched(f, h, k),
         NEW gs, \A th \in Thread : \A i \in 1 .. Len(gs[th]) : gs[th][i].controller = c =>
                   \E j \in 1 .. Len(fs[th]) : gs[th][i] = fs[th][j]
  PROVE  Open(f, in, k, whole2, gs, c)
<1>1. PICK s : OpenAs(f, in, h, whole, fs, c, s)
  BY DEF Open
<1>2. Means(f, in, h, s) /\ WellFormed(f) /\ IsHeap(s.heap) /\ After(f.block, in, s)
  BY <1>1 DEF OpenAs, Means
<1>3. Means(f, in, k, s) /\ Keeps(f, s, f, s)
  <2>1. Grows(f, f) /\ EnvKept(s, s)
    BY <1>2, GrowsSame DEF EnvKept
  <2>2. HeapGrows(s.heap, s.heap)
    <3>1. PICK hs : hs = s.heap
      OBVIOUS
    <3> QED
      BY <1>2, <3>1, HeapGrowsSame
  <2> QED
    BY <1>2, <2>1, <2>2, MeansKept
<1>4. StacksLead(fs, gs, c, f, s)
  BY DEF StacksLead
<1>5. ASSUME whole2, Alike(h, s.heap, Places(f, s))
      PROVE  Alike(k, s.heap, Places(f, s))
  <2>1. PICK M, hs : M = Places(f, s) /\ hs = s.heap
    OBVIOUS
  <2>2. DOMAIN M = MappedTensors(f) \ {0}
    BY <2>1, PlacesIs
  <2>3. \A t \in DOMAIN M : t \in 1 .. Len(h.storage)
    BY <1>2, <2>2, MappedInRange
  <2>4. \A t \in DOMAIN M : ContentOf(k, t) = ContentOf(h, t) /\ k.storage[t] = h.storage[t]
    BY <1>5, <2>2, <2>3 DEF Untouched, HeapGrows
  <2> QED
    BY <1>5, <2>1, <2>4 DEF Alike
<1>6. whole2 /\ ~ HiddenAlias(k, f) /\ Alike(h, s.heap, Places(f, s)) =>
        Alike(k, s.heap, Places(f, s))
  BY <1>5
<1> QED
  BY <1>1, <1>3, <1>4, <1>6, OpenMoves

LEMMA ClosedStays ==
  ASSUME NEW f, WellFormed(f), NEW in, NEW h, IsHeap(h), NEW whole, NEW out,
         Closed(f, in, h, whole, out), NEW k, HeapGrows(h, k), NEW whole2, whole2 => whole
  PROVE  Closed(f, in, k, whole2, out)
<1>1. OperationsKept(f, f) /\ TensorsKept(f, f)
  <2>1. Len(f.tensorValueMap) \in Nat
    BY ListLength DEF WellFormed, IsFunction
  <2> QED
    BY <2>1 DEF OperationsKept, TensorsKept
<1>2. MappedTensors(f) \ {0} \subseteq 1 .. Len(h.storage)
  BY DEF Closed
<1>3. HiddenAlias(h, f) => HiddenAlias(k, f)
  BY <1>1, <1>2, AliasPersists
<1>4. MappedTensors(f) \ {0} \subseteq 1 .. Len(k.storage)
  <2>1. Len(h.storage) \in Nat /\ Len(k.storage) \in Nat /\ Len(h.storage) <= Len(k.storage)
    BY HeapLengths DEF HeapGrows
  <2> QED
    BY <1>2, <2>1
<1> QED
  BY <1>3, <1>4 DEF Closed

\* The step leaves the capture d alone, and if it writes a tensor the function
\* knows, notes so.
Stays(d) ==
  /\ fn'[d] = fn[d] /\ inputs'[d] = inputs[d] /\ returned'[d] = returned[d]
  /\ hasReturned'[d] = hasReturned[d] /\ late'[d] = late[d]
  /\ intact'[d] => intact[d] /\ (hasReturned[d] \/ Untouched(fn[d], heap, heap'))
  /\ \A th \in Thread : \A i \in 1 .. Len(frames'[th]) : frames'[th][i].controller = d =>
       \E j \in 1 .. Len(frames[th]) : frames'[th][i] = frames[th][j]

LEMMA FaithStays ==
  ASSUME CaptureInv, FaithInv, HeapGrows(heap, heap'), NEW d \in Started, Stays(d)
  PROVE  FaithOf(d)'
<1>1. /\ IsHeap(heap) /\ FaithOf(d)
      /\ WellFormed(fn[d])
  BY DEF FaithInv, HeapInv, CaptureInv, FunctionsInv, FunctionOK
<1>2. PICK f, in, h, whole, fs, out :
        /\ f = fn[d] /\ in = inputs[d] /\ h = heap /\ whole = intact[d] /\ fs = frames /\ out = returned[d]
  OBVIOUS
<1>3. PICK k, whole2, gs : k = heap' /\ whole2 = intact'[d] /\ gs = frames'
  OBVIOUS
<1>4. /\ fn'[d] = f /\ inputs'[d] = in /\ returned'[d] = out
      /\ hasReturned'[d] = hasReturned[d] /\ late'[d] = late[d]
  BY <1>2 DEF Stays
<1>5. /\ whole2 => whole /\ (hasReturned[d] \/ Untouched(f, h, k))
      /\ \A th \in Thread : \A i \in 1 .. Len(gs[th]) : gs[th][i].controller = d =>
           \E j \in 1 .. Len(fs[th]) : gs[th][i] = fs[th][j]
      /\ HeapGrows(h, k) /\ IsHeap(h) /\ WellFormed(f)
  BY <1>1, <1>2, <1>3 DEF Stays
<1>6. /\ ~ hasReturned[d] => Open(f, in, h, whole, fs, d)
      /\ hasReturned[d] /\ ~ late[d] => Closed(f, in, h, whole, out)
  BY <1>1, <1>2 DEF FaithOf
<1>7. ~ hasReturned[d] => Open(f, in, k, whole2, gs, d)
  BY <1>5, <1>6, OpenStays
<1>8. hasReturned[d] /\ ~ late[d] => Closed(f, in, k, whole2, out)
  BY <1>5, <1>6, ClosedStays
<1> QED
  BY <1>3, <1>4, <1>7, <1>8 DEF FaithOf

\* What NoteWrites notes.
LEMMA WritesNoted ==
  ASSUME IsHeap(heap), NEW k, HeapGrows(heap, k), NEW recorder, NoteWrites(k, recorder),
         NEW d \in Started, d \in Controller, intact'[d], FaithOf(d)
  PROVE  /\ intact[d]
         /\ d \in recorder \/ hasReturned[d] \/ Untouched(fn[d], heap, k)
<1>1. /\ intact[d]
      /\ d \in recorder \/ hasReturned[d] \/ \A s \in WrittenStorages(k) : ~ StorageKnown(fn[d], s)
  BY DEF NoteWrites
<1>2. ASSUME ~ hasReturned[d], \A s \in WrittenStorages(k) : ~ StorageKnown(fn[d], s)
      PROVE  Untouched(fn[d], heap, k)
  <2> SUFFICES ASSUME NEW t \in MappedTensors(fn[d]) \ {0}
               PROVE  ContentOf(k, t) = ContentOf(heap, t)
    BY DEF Untouched
  <2>1. t \in 1 .. Len(heap.storage)
    <3>1. PICK s : Means(fn[d], inputs[d], heap, s)
      BY <1>2 DEF FaithOf, Open, OpenAs
    <3>2. PICK f : f = fn[d]
      OBVIOUS
    <3>3. MappedTensors(f) \ {0} \subseteq 1 .. Len(heap.storage)
      BY <3>1, <3>2, MappedInRange
    <3> QED
      BY <3>2, <3>3
  <2>2. heap.storage[t] \in 1 .. Len(heap.contents) /\ k.storage[t] = heap.storage[t]
    BY <2>1, HeapLengths DEF HeapGrows
  <2>3. StorageKnown(fn[d], heap.storage[t])
    BY DEF StorageKnown
  <2>4. heap.storage[t] \notin WrittenStorages(k)
    BY <1>2, <2>3
  <2>5. k.contents[heap.storage[t]] = heap.contents[heap.storage[t]]
    BY <2>2, <2>4 DEF WrittenStorages
  <2> QED
    BY <2>2, <2>5 DEF ContentOf
<1> QED
  BY <1>1, <1>2

\* Kernels on the call stacks are typed in a heap that has grown.
LEMMA TypedOn ==
  ASSUME NEW h, IsHeap(h), NEW k, HeapGrows(h, k), NEW call, IsTypedCall(h, call)
  PROVE  IsTypedCall(k, call)
<1>1. PICK n \in Nat, m \in Nat : n = Len(h.storage) /\ m = Len(k.storage) /\ n <= m
  BY HeapLengths DEF HeapGrows
<1>2. ASSUME NEW ival, IsElement(h, ival)
      PROVE  IsElement(k, ival)
  BY <1>1, <1>2 DEF IsElement
<1>3. ASSUME NEW ival, IsIValue(h, ival)
      PROVE  IsIValue(k, ival)
  BY <1>2, <1>3 DEF IsIValue
<1> QED
  BY <1>3 DEF IsTypedCall

LEMMA HeapStep ==
  ASSUME HeapInv, HeapGrows(heap, heap'),
         \A th \in Thread : \A i \in 1 .. Len(frames'[th]) :
           \/ \E j \in 1 .. Len(frames[th]) : frames'[th][i] = frames[th][j]
           \/ IsTypedCall(heap, frames'[th][i].call)
  PROVE  HeapInv'
<1>1. IsHeap(heap) /\ IsHeap(heap')
  BY DEF HeapInv, HeapGrows
<1>2. Len(InitialHeap.storage) <= Len(heap'.storage)
  <2>1. PICK l, m, n : l = Len(InitialHeap.storage) /\ m = Len(heap.storage) /\ n = Len(heap'.storage)
    OBVIOUS
  <2>2. m \in Nat /\ n \in Nat
    BY <1>1, <2>1, HeapLengths
  <2>3. l \in Nat
    BY <2>1, HeapAssumption
  <2>4. l <= m /\ m <= n
    BY <2>1 DEF HeapInv, HeapGrows
  <2> QED
    BY <2>1, <2>2, <2>3, <2>4
<1>3. ASSUME NEW th \in Thread, NEW i \in 1 .. Len(frames'[th])
      PROVE  IsTypedCall(heap', frames'[th][i].call)
  <2>1. IsTypedCall(heap, frames'[th][i].call)
    BY DEF HeapInv
  <2>2. PICK call, h, k : call = frames'[th][i].call /\ h = heap /\ k = heap'
    OBVIOUS
  <2>3. IsTypedCall(k, call)
    BY <1>1, <2>1, <2>2, TypedOn
  <2> QED
    BY <2>2, <2>3
<1> QED
  BY <1>1, <1>2, <1>3 DEF HeapInv

LEMMA FaithStep ==
  ASSUME CaptureInv, FaithInv, HeapGrows(heap, heap'), HeapInv', Started' = Started,
         DOMAIN inputs' = Controller, DOMAIN returned' = Controller,
         \A d \in Started : Stays(d) \/ FaithOf(d)'
  PROVE  FaithInv'
BY FaithStays DEF FaithInv

\* A step that changes no heap, no function and no call stack but by forgetting.
LEMMA NothingRecorded ==
  ASSUME CaptureInv, FaithInv, UNCHANGED <<heap, fn, hasReturned, inputs, returned, intact, late>>,
         \A th \in Thread : \A i \in 1 .. Len(frames'[th]) :
           \E j \in 1 .. Len(frames[th]) : frames'[th][i] = frames[th][j]
  PROVE  FaithInv'
<1>1. IsHeap(heap) /\ heap' = heap
  BY DEF FaithInv, HeapInv
<1>2. HeapGrows(heap, heap')
  <2>1. PICK h : h = heap
    OBVIOUS
  <2> QED
    BY <1>1, <2>1, HeapGrowsSame
<1>3. HeapInv'
  BY <1>2, HeapStep DEF FaithInv
<1>4. \A d \in Started : Stays(d)
  BY <1>1 DEF Stays, Untouched
<1> QED
  BY <1>2, <1>3, <1>4, FaithStep DEF FaithInv, Started

LEMMA FaithInit == Init => FaithInv
<1> SUFFICES ASSUME Init PROVE FaithInv
  OBVIOUS
<1>1. heap = InitialHeap /\ Started = {}
  BY DEF Init, Started
<1>2. IsHeap(heap)
  <2>1. PICK h : h = InitialHeap
    OBVIOUS
  <2>2. h \in [storage : Seq(1 .. Len(h.contents)), contents : Seq(Seq(STRING))]
    BY <2>1, HeapAssumption
  <2>3. h = [storage |-> h.storage, contents |-> h.contents]
    BY <2>2
  <2>4. IsList(h.contents) /\ h.storage \in Seq(1 .. Len(h.contents))
    BY <2>2 DEF IsList
  <2> QED
    BY <1>1, <2>1, <2>3, <2>4 DEF IsHeap
<1>3. Len(InitialHeap.storage) <= Len(heap.storage)
  <2>1. PICK n \in Nat : n = Len(heap.storage)
    BY <1>2, HeapLengths
  <2> QED
    BY <1>1, <2>1
<1>4. \A th \in Thread : Len(frames[th]) = 0
  BY EmptyList DEF Init
<1>5. \A th \in Thread : \A i \in 1 .. Len(frames[th]) : IsTypedCall(heap, frames[th][i].call)
  BY <1>4
<1> QED
  BY <1>1, <1>2, <1>3, <1>5 DEF Init, FaithInv, HeapInv

\* A capture starts.
LEMMA StartIsFaithful ==
  ASSUME CaptureInv, FaithInv,
         NEW c \in Controller, NEW args \in ArgumentLists, StartCaptureFunction(c, args)
  PROVE  FaithInv'
<1>1. /\ c \notin Started
      /\ fn' = [d \in Started \union {c} |-> IF d = c THEN CreateFunction(args) ELSE fn[d]]
      /\ inputs' = [inputs EXCEPT ![c] = [i \in 1..Len(args) |-> ContentOf(heap, args[i])]]
      /\ UNCHANGED <<heap, hasReturned, frames, returned, intact, late>>
  BY DEF StartCaptureFunction
<1>2. Started' = Started \union {c} /\ fn'[c] = CreateFunction(args) /\ \A d \in Started : fn'[d] = fn[d]
  BY <1>1 DEF Started
<1>3. /\ DOMAIN inputs' = Controller /\ ContentsAre(inputs'[c], args)
      /\ \A d \in Controller \ {c} : inputs'[d] = inputs[d]
  BY <1>1 DEF FaithInv, ContentsAre
<1>4. IsHeap(heap) /\ heap' = heap /\ Len(InitialHeap.storage) <= Len(heap.storage)
  BY <1>1 DEF FaithInv, HeapInv
<1>5. HeapGrows(heap, heap')
  <2>1. PICK h : h = heap
    OBVIOUS
  <2> QED
    BY <1>4, <2>1, HeapGrowsSame
<1>6. HeapInv'
  BY <1>1, <1>5, HeapStep DEF FaithInv
<1>7. ASSUME NEW d \in Started
      PROVE  FaithOf(d)'
  <2>1. d \in Controller /\ d # c
    BY <1>1 DEF CaptureInv, StartedInv
  <2>2. Stays(d)
    BY <1>1, <1>2, <1>3, <2>1 DEF Stays, Untouched
  <2> QED
    BY <1>5, <2>2, FaithStays
<1>8. FaithOf(c)'
  <2>1. ~ hasReturned'[c]
    BY <1>1 DEF CaptureInv, StartedInv
  <2>2. PICK f, in, s : f = CreateFunction(args) /\ in = inputs'[c] /\ s = StartReplay(in)
    OBVIOUS
  <2>3. Means(f, in, heap, s) /\ (~ HiddenAlias(heap, f) => Alike(heap, s.heap, Places(f, s)))
    BY <1>3, <1>4, <2>2, StartMeans
  <2>4. ASSUME NEW th \in Thread, NEW i \in 1 .. Len(frames[th])
        PROVE  frames[th][i].controller # c
    BY <1>1, <2>4 DEF CaptureInv, FramesInv, FrameOK, Started
  <2>5. OpenAs(f, in, heap, intact[c], frames, c, s)
    BY <2>3, <2>4 DEF OpenAs
  <2>6. Open(fn'[c], inputs'[c], heap', intact'[c], frames', c)
    BY <1>1, <1>2, <2>2, <2>5 DEF Open
  <2> QED
    BY <2>1, <2>6 DEF FaithOf
<1> QED
  BY <1>1, <1>2, <1>3, <1>6, <1>7, <1>8 DEF FaithInv

\* A kernel that nothing records.
LEMMA PassIsFaithful ==
  ASSUME ProgramsUseTensors, CaptureInv, FaithInv,
         NEW th \in Thread, NEW call \in Calls(heap), PassThrough(th, call)
  PROVE  FaithInv'
<1>1. /\ heap' = Run(heap, call.op, call.args).heap /\ NoteWrites(heap', {})
      /\ UNCHANGED <<fn, hasReturned, frames, inputs, returned, late>>
  BY DEF PassThrough
<1>2. IsHeap(heap) /\ IsTypedCall(heap, call)
  BY DEF FaithInv, HeapInv, ProgramsUseTensors
<1>3. HeapGrows(heap, heap')
  BY <1>1, <1>2, RunGrows
<1>4. HeapInv'
  BY <1>1, <1>3, HeapStep DEF FaithInv
<1>5. ASSUME NEW d \in Started
      PROVE  Stays(d)
  <2>1. d \in Controller /\ FaithOf(d)
    BY DEF CaptureInv, StartedInv, FaithInv
  <2>2. intact'[d] => intact[d] /\ (hasReturned[d] \/ Untouched(fn[d], heap, heap'))
    BY <1>1, <1>2, <1>3, <2>1, WritesNoted
  <2> QED
    BY <1>1, <2>2 DEF Stays
<1> QED
  BY <1>1, <1>3, <1>4, <1>5, FaithStep DEF FaithInv, Started


\* A capture returns, or cannot.
LEMMA ReturnsAreFaithful ==
  ASSUME CaptureInv, FaithInv, NEW c \in Started, ~ hasReturned[c],
         NEW tensors, Len(tensors) \in Nat, \A i \in 1 .. Len(tensors) : tensors[i] \in 1 .. Len(heap.storage),
         DoReturns(c, tensors), UNCHANGED <<heap, frames, inputs, intact, late>>
  PROVE  FaithInv'
<1>1. PICK b : b = InOrder(TensorValue, Builder(fn[c]), tensors)
  OBVIOUS
<1>2. PICK closed, wanted :
        /\ Closes(b.fn, b.values, Len(tensors), closed)
        /\ ContentsAre(wanted, tensors)
  BY DEF Closes, ContentsAre
<1>3. /\ fn' = [fn EXCEPT ![c] = IF b.ok THEN closed ELSE b.fn]
      /\ hasReturned' = [hasReturned EXCEPT ![c] = b.ok]
      /\ returned' = [returned EXCEPT ![c] = IF b.ok THEN wanted ELSE returned[c]]
  BY <1>1, <1>2 DEF DoReturns, Closes, ContentsAre
<1>4. c \in Controller /\ IsHeap(heap) /\ FaithOf(c) /\ heap' = heap
  BY DEF CaptureInv, StartedInv, FaithInv, HeapInv
<1>5. b.ok \in BOOLEAN
  <2>1. WellFormed(fn[c])
    BY DEF CaptureInv, FunctionsInv, FunctionOK
  <2> QED
    BY <1>1, <2>1, TensorsAdded DEF Further, IsBuilder
<1>6. /\ Started' = Started /\ fn'[c] = IF b.ok THEN closed ELSE b.fn
      /\ \A d \in Started \ {c} : fn'[d] = fn[d]
  BY <1>3 DEF Started
<1>7. /\ hasReturned'[c] = b.ok /\ \A d \in Controller \ {c} : hasReturned'[d] = hasReturned[d]
      /\ DOMAIN returned' = Controller /\ DOMAIN inputs' = Controller
      /\ returned'[c] = IF b.ok THEN wanted ELSE returned[c]
      /\ \A d \in Controller \ {c} : returned'[d] = returned[d]
  BY <1>3, <1>4 DEF CaptureInv, FlagsInv, FaithInv
<1>8. HeapGrows(heap, heap')
  <2>1. PICK h : h = heap
    OBVIOUS
  <2> QED
    BY <1>4, <2>1, HeapGrowsSame
<1>9. HeapInv'
  BY <1>8, HeapStep DEF FaithInv
<1>10. PICK f, in, s : f = fn[c] /\ in = inputs[c] /\ OpenAs(f, in, heap, intact[c], frames, c, s)
  BY <1>4 DEF FaithOf, Open
<1>11. Means(f, in, heap, s) /\ b = InOrder(TensorValue, Builder(f), tensors)
  BY <1>1, <1>10 DEF OpenAs
<1>12. FaithOf(c)'
  <2>1. CASE b.ok
    <3>1. ReturnGives(f, s, in, closed, wanted)
      BY <1>2, <1>4, <1>11, <2>1, ReturnsMean
    <3>2. Closed(closed, in, heap, intact[c], wanted)
      BY <1>10, <3>1 DEF Closed, OpenAs, ReturnGives
    <3> QED
      BY <1>6, <1>7, <1>10, <2>1, <3>2 DEF FaithOf
  <2>2. CASE ~ b.ok
    <3>1. PICK x : Leads(f, s, b.fn, x, in)
      BY <1>4, <1>11, ReturnsMean
    <3>2. PICK g, fs, whole : g = b.fn /\ fs = frames /\ whole = intact[c]
      OBVIOUS
    <3>3. Leads(f, s, g, x, in) /\ OpenAs(f, in, heap, whole, fs, c, s)
      BY <1>10, <3>1, <3>2
    <3>4. StacksLead(fs, fs, c, g, x)
      BY DEF StacksLead
    <3>5. PICK h : h = heap
      OBVIOUS
    <3>6. HeapGrows(h, h) /\ IsHeap(h)
      BY <1>4, <3>5, HeapGrowsSame
    <3>7. /\ Means(g, in, h, x) /\ Keeps(f, s, g, x)
          /\ Alike(h, s.heap, Places(f, s)) /\ ~ HiddenAlias(h, g) => Alike(h, x.heap, Places(g, x))
      BY <3>3, <3>5 DEF Leads
    <3>8. OpenAs(f, in, h, whole, fs, c, s)
      BY <3>3, <3>5
    <3>9. Open(g, in, h, whole, fs, c)
      BY <3>4, <3>6, <3>7, <3>8, OpenMoves
    <3> QED
      BY <1>6, <1>7, <1>10, <2>2, <3>2, <3>5, <3>9 DEF FaithOf
  <2> QED
    BY <2>1, <2>2
<1>13. ASSUME NEW d \in Started, d # c
       PROVE  Stays(d)
  <2>1. d \in Controller
    BY DEF CaptureInv, StartedInv
  <2> QED
    BY <1>4, <1>6, <1>7, <1>13, <2>1 DEF Stays, Untouched
<1> QED
  BY <1>6, <1>7, <1>8, <1>9, <1>12, <1>13, FaithStep

LEMMA RecordedAreIValues ==
  ASSUME NEW h, NEW call, IsTypedCall(h, call), NEW seq, seq = RecordedArgs(call)
  PROVE  Len(seq) \in Nat /\ \A i \in 1 .. Len(seq) : IsIValue(h, seq[i])
<1>1. Len(seq) \in Nat
  BY NamesKept
<1>2. CASE call.op # "mkldnn_convolution_backward"
  BY <1>1, <1>2 DEF RecordedArgs, IsTypedCall
<1>3. CASE call.op = "mkldnn_convolution_backward"
  <2>1. PICK a : a = call.args /\ Len(a) = 5
    BY <1>3 DEF IsTypedCall, IsBackward
  <2>2. \A i \in 1 .. 5 : IsIValue(h, a[i])
    BY <2>1 DEF IsTypedCall
  <2>3. seq = <<a[2], a[1], a[3], a[5], a[4]>>
    BY <1>3, <2>1 DEF RecordedArgs
  <2>4. /\ Len(seq) = 5
        /\ seq[1] = a[2] /\ seq[2] = a[1] /\ seq[3] = a[3] /\ seq[4] = a[5] /\ seq[5] = a[4]
    BY <2>3
  <2> HIDE <2>3
  <2>5. ASSUME NEW i \in 1 .. 5
        PROVE  IsIValue(h, seq[i])
    <3>1. 1 \in 1 .. 5 /\ 2 \in 1 .. 5 /\ 3 \in 1 .. 5 /\ 4 \in 1 .. 5 /\ 5 \in 1 .. 5
      OBVIOUS
    <3>2. i = 1 \/ i = 2 \/ i = 3 \/ i = 4 \/ i = 5
      OBVIOUS
    <3>3. IsIValue(h, seq[1]) /\ IsIValue(h, seq[2]) /\ IsIValue(h, seq[3])
          /\ IsIValue(h, seq[4]) /\ IsIValue(h, seq[5])
      BY <2>2, <2>4, <3>1
    <3> QED
      BY <3>2, <3>3
  <2> QED
    BY <1>1, <2>4, <2>5
<1> QED
  BY <1>2, <1>3

\* An intercepted kernel up to its redispatch.
LEMMA BeginIsFaithful ==
  ASSUME ProgramsUseTensors, CaptureInv, FaithInv, NEW th \in Thread, NEW call, Begins(th, call)
  PROVE  FaithInv'
<1>1. PICK c : c = Current(th)
  OBVIOUS
<1>2. c \in Started /\ c \in Controller
  <2>1. IsList(activeStack[th]) /\ activeStack[th] # <<>>
    BY DEF Begins, CaptureInv, ControllersInv
  <2>2. 1 \in 1 .. Len(activeStack[th]) /\ Head(activeStack[th]) = activeStack[th][1]
    BY <2>1, ListTail
  <2> QED
    BY <1>1, <2>2 DEF Current, CaptureInv, StartedInv
<1>3. PICK f, b : f = fn[c] /\ b = AddOperands(f, RecordedArgs(call))
  OBVIOUS
<1>4. PICK excluded :
        /\ fn' = [fn EXCEPT ![c] = b.fn]
        /\ late' = [late EXCEPT ![c] = @ \/ (hasReturned[c] /\ b.fn # fn[c])]
        /\ frames' = IF b.ok THEN [frames EXCEPT ![th] = <<Frame(call, c, b.values, excluded)>> \o @]
                             ELSE [frames EXCEPT ![th] = <<>>]
        /\ UNCHANGED <<heap, hasReturned, inputs, returned, intact>>
  BY <1>1, <1>3 DEF Begins, BeginKernel, NoteLate
<1>5. IsHeap(heap) /\ heap' = heap /\ IsTypedCall(heap, call) /\ FaithOf(c)
  BY <1>2, <1>4 DEF FaithInv, HeapInv, ProgramsUseTensors, Begins
<1>6. HeapGrows(heap, heap')
  <2>1. PICK h : h = heap
    OBVIOUS
  <2> QED
    BY <1>5, <2>1, HeapGrowsSame
<1>7. /\ Started' = Started /\ fn'[c] = b.fn /\ \A d \in Started \ {c} : fn'[d] = fn[d]
  BY <1>2, <1>4 DEF Started
<1>8. /\ late[c] \in BOOLEAN /\ late'[c] = (late[c] \/ (hasReturned[c] /\ b.fn # fn[c]))
      /\ \A d \in Controller \ {c} : late'[d] = late[d]
  BY <1>2, <1>4 DEF CaptureInv, FunctionsInv
<1>9. PICK fr : fr = Frame(call, c, b.values, excluded)
  OBVIOUS
<1>10. fr.call = call /\ fr.controller = c /\ fr.operands = b.values
  BY <1>9 DEF Frame
\* What is on the call stacks.
<1>11. \A u \in Thread : \A i \in 1 .. Len(frames'[u]) :
         \/ \E j \in 1 .. Len(frames[u]) : frames'[u][i] = frames[u][j]
         \/ b.ok /\ frames'[u][i] = fr
  <2>1. PICK n \in Nat : n = Len(frames[th]) /\ IsList(frames[th])
    BY ListLength DEF CaptureInv, ControllersInv
  <2>2. /\ Len(<<fr>> \o frames[th]) = n + 1
        /\ \A i \in 1 .. n + 1 : (<<fr>> \o frames[th])[i] = IF i = 1 THEN fr ELSE frames[th][i - 1]
    BY <2>1, ListCons
  <2>3. \A i \in 1 .. n + 1 : i # 1 => i - 1 \in 1 .. n
    OBVIOUS
  <2>4. \A u \in Thread : \/ u # th /\ frames'[u] = frames[u]
                          \/ u = th /\ frames'[u] = <<>>
                          \/ b.ok /\ u = th /\ frames'[u] = <<fr>> \o frames[th]
    BY <1>4, <1>9 DEF CaptureInv, ControllersInv
  <2> SUFFICES ASSUME NEW u \in Thread, NEW i \in 1 .. Len(frames'[u])
               PROVE  \/ \E j \in 1 .. Len(frames[u]) : frames'[u][i] = frames[u][j]
                      \/ b.ok /\ frames'[u][i] = fr
    OBVIOUS
  <2>5. CASE u # th
    BY <2>4, <2>5
  <2>6. CASE u = th /\ frames'[u] = <<>>
    BY <2>6, EmptyList
  <2>7. CASE b.ok /\ u = th /\ frames'[u] = <<fr>> \o frames[th]
    <3>1. i \in 1 .. n + 1 /\ frames'[u][i] = IF i = 1 THEN fr ELSE frames[th][i - 1]
      BY <2>2, <2>7
    <3>2. CASE i = 1
      BY <2>7, <3>1, <3>2
    <3>3. CASE i # 1
      BY <2>1, <2>3, <2>7, <3>1, <3>3
    <3> QED
      BY <3>2, <3>3
  <2> QED
    BY <2>4, <2>5, <2>6, <2>7
<1>12. HeapInv'
  BY <1>5, <1>6, <1>10, <1>11, HeapStep DEF FaithInv
<1>13. ASSUME NEW d \in Started, d # c
       PROVE  Stays(d)
  <2>1. d \in Controller
    BY DEF CaptureInv, StartedInv
  <2> QED
    BY <1>4, <1>5, <1>7, <1>8, <1>10, <1>11, <1>13, <2>1 DEF Stays, Untouched
<1>14. ASSUME ~ hasReturned[c]
       PROVE  FaithOf(c)'
  <2>1. PICK in, s : in = inputs[c] /\ OpenAs(f, in, heap, intact[c], frames, c, s)
    BY <1>3, <1>5, <1>14 DEF FaithOf, Open
  <2>2. Means(f, in, heap, s)
    BY <2>1 DEF OpenAs
  <2>3. PICK seq : seq = RecordedArgs(call)
    OBVIOUS
  <2>4. Len(seq) \in Nat /\ \A i \in 1 .. Len(seq) : IsIValue(heap, seq[i])
    BY <1>5, <2>3, RecordedAreIValues
  <2>5. PICK x : Built("values", seq, Len(seq), f, s, b, x, in)
    BY <1>3, <1>5, <2>2, <2>3, <2>4, OperandsLead
  <2>6. PICK g, h, fs, gs, whole : g = b.fn /\ h = heap /\ fs = frames /\ gs = frames' /\ whole = intact[c]
    OBVIOUS
  <2>7. /\ Means(g, in, h, x) /\ Keeps(f, s, g, x)
        /\ Alike(h, s.heap, Places(f, s)) /\ ~ HiddenAlias(h, g) => Alike(h, x.heap, Places(g, x))
    BY <2>5, <2>6 DEF Built, Leads
  <2>8. b.ok => OperandsStand(b.values, call, g, x)
    BY <2>3, <2>5, <2>6, StandsAsIs DEF Built, OperandsStand, Further, IsBuilder
  <2>9. StacksLead(fs, gs, c, g, x)
    BY <1>10, <1>11, <2>6, <2>8 DEF StacksLead
  <2>10. HeapGrows(h, h) /\ IsHeap(h) /\ OpenAs(f, in, h, whole, fs, c, s)
    BY <1>5, <1>6, <2>1, <2>6
  <2>11. Open(g, in, h, whole, gs, c)
    BY <2>7, <2>9, <2>10, OpenMoves
  <2> QED
    BY <1>4, <1>5, <1>7, <1>14, <2>1, <2>6, <2>11 DEF FaithOf
<1>15. ASSUME hasReturned[c]
       PROVE  FaithOf(c)'
  <2>1. CASE b.fn = fn[c] /\ ~ late[c]
    <3>1. Closed(fn[c], inputs[c], heap, intact[c], returned[c])
      BY <1>5, <1>15, <2>1 DEF FaithOf
    <3> QED
      BY <1>4, <1>7, <1>15, <2>1, <3>1 DEF FaithOf
  <2>2. CASE ~ (b.fn = fn[c] /\ ~ late[c])
    BY <1>4, <1>8, <1>15, <2>2 DEF FaithOf
  <2> QED
    BY <2>1, <2>2
<1> QED
  BY <1>4, <1>6, <1>7, <1>12, <1>13, <1>14, <1>15, FaithStep DEF FaithInv


\* The real kernel is back.
LEMMA BackIsFaithful ==
  ASSUME CaptureInv, FaithInv, NEW th \in Thread, KernelReturns(th)
  PROVE  FaithInv'
<1>1. PICK frame, c, call, ran, recorded :
        /\ frame = Head(frames[th]) /\ c = frame.controller /\ call = frame.call
        /\ ran = Run(heap, call.op, call.args)
        /\ recorded = Record(fn[c], RecordedName(call), frame.operands, ran.results)
  OBVIOUS
<1>2. PICK ok \in BOOLEAN : ok = ResultsSupported(ran.results)
  BY DEF ResultsSupported
<1>3. /\ frames[th] # <<>> /\ UNCHANGED <<hasReturned, inputs, returned>>
      /\ heap' = ran.heap
      /\ fn' = [fn EXCEPT ![c] = IF ok THEN recorded ELSE fn[c]]
      /\ frames' = [frames EXCEPT ![th] = IF ok THEN Tail(frames[th]) ELSE <<>>]
      /\ NoteWrites(ran.heap, IF ok THEN {c} ELSE {})
      /\ late' = [late EXCEPT ![c] = @ \/ (hasReturned[c] /\ fn'[c] # fn[c])]
  BY <1>1, <1>2 DEF KernelReturns, Idle, NoteLate
<1>4. 1 \in 1 .. Len(frames[th]) /\ frame = frames[th][1]
  <2>1. IsList(frames[th]) /\ frames[th] # <<>>
    BY <1>3 DEF CaptureInv, ControllersInv
  <2>2. 1 \in 1 .. Len(frames[th]) /\ Head(frames[th]) = frames[th][1]
    BY <2>1, ListTail
  <2> QED
    BY <1>1, <2>2
<1>5. c \in Started /\ c \in Controller
  <2>1. FrameOK(fn, frame)
    BY <1>4 DEF CaptureInv, FramesInv
  <2>2. c \in Started
    BY <1>1, <2>1 DEF FrameOK, Started
  <2> QED
    BY <2>2 DEF CaptureInv, StartedInv
<1>6. IsHeap(heap) /\ IsTypedCall(heap, call)
  BY <1>1, <1>4 DEF FaithInv, HeapInv
<1>7. HeapGrows(heap, heap')
  <2>1. HeapGrows(heap, Run(heap, call.op, call.args).heap)
    BY <1>6, RunGrows
  <2> QED
    BY <1>1, <1>3, <2>1
<1>8. \A u \in Thread : \A i \in 1 .. Len(frames'[u]) :
        \E j \in 1 .. Len(frames[u]) : frames'[u][i] = frames[u][j]
  BY <1>3, StackForgets
<1>9. HeapInv'
  BY <1>7, <1>8, HeapStep DEF FaithInv
<1>10. /\ Started' = Started /\ fn'[c] = IF ok THEN recorded ELSE fn[c]
       /\ \A d \in Started \ {c} : fn'[d] = fn[d]
  BY <1>3, <1>5 DEF Started
<1>11. /\ late[c] \in BOOLEAN /\ late'[c] = (late[c] \/ (hasReturned[c] /\ fn'[c] # fn[c]))
       /\ \A d \in Controller \ {c} : late'[d] = late[d]
  BY <1>3, <1>5 DEF CaptureInv, FunctionsInv
<1>12. ASSUME NEW d \in Started, intact'[d]
       PROVE  intact[d] /\ ((ok /\ d = c) \/ hasReturned[d] \/ Untouched(fn[d], heap, heap'))
  <2>1. d \in Controller /\ FaithOf(d)
    BY DEF CaptureInv, StartedInv, FaithInv
  <2>2. PICK k, recorder : k = ran.heap /\ recorder = IF ok THEN {c} ELSE {}
    OBVIOUS
  <2>3. HeapGrows(heap, k) /\ NoteWrites(k, recorder) /\ k = heap'
    BY <1>3, <1>7, <2>2
  <2>4. intact[d] /\ (d \in recorder \/ hasReturned[d] \/ Untouched(fn[d], heap, k))
    BY <1>6, <1>12, <2>1, <2>3, WritesNoted
  <2> QED
    BY <2>2, <2>3, <2>4
<1>13. ASSUME NEW d \in Started, d # c \/ ~ ok \/ (hasReturned[c] /\ fn'[c] = fn[c])
       PROVE  Stays(d)
  <2>1. d \in Controller
    BY DEF CaptureInv, StartedInv
  <2>2. fn'[d] = fn[d] /\ late'[d] = late[d]
    BY <1>10, <1>11, <1>13, <2>1
  <2>3. intact'[d] => intact[d] /\ (hasReturned[d] \/ Untouched(fn[d], heap, heap'))
    BY <1>12, <1>13
  <2> QED
    BY <1>3, <1>8, <2>2, <2>3 DEF Stays
<1>14. ASSUME ok, ~ hasReturned[c]
       PROVE  FaithOf(c)'
  <2>1. PICK f, in, s : f = fn[c] /\ in = inputs[c] /\ OpenAs(f, in, heap, intact[c], frames, c, s)
    BY <1>5, <1>14 DEF FaithInv, FaithOf, Open
  <2>2. PICK operands, name, g, k :
          operands = frame.operands /\ name = RecordedName(call) /\ g = recorded /\ k = ran.heap
    OBVIOUS
  <2>3. OperandsStand(operands, call, f, s) /\ Means(f, in, heap, s)
    BY <1>1, <1>4, <2>1, <2>2 DEF OpenAs
  <2>4. /\ g = Record(f, RecordedName(call), operands, ran.results)
        /\ ran = Run(heap, call.op, call.args) /\ IsHeap(heap) /\ IsTypedCall(heap, call)
    BY <1>1, <1>6, <2>1, <2>2
  <2>5. PICK x : /\ Means(g, in, ran.heap, x) /\ Keeps(f, s, g, x)
                 /\ Alike(heap, s.heap, Places(f, s)) => Alike(ran.heap, x.heap, Places(g, x))
    BY <2>3, <2>4, RecordMeans
  <2>6. PICK h, fs, gs, whole, whole2 :
          h = heap /\ fs = frames /\ gs = frames' /\ whole = intact[c] /\ whole2 = intact'[c]
    OBVIOUS
  <2>7. IsHeap(h) /\ HeapGrows(h, k) /\ OpenAs(f, in, h, whole, fs, c, s)
    BY <1>3, <1>6, <1>7, <2>1, <2>2, <2>6
  <2>8. /\ Means(g, in, k, x) /\ Keeps(f, s, g, x)
        /\ Alike(h, s.heap, Places(f, s)) => Alike(k, x.heap, Places(g, x))
    BY <2>2, <2>5, <2>6
  <2>9. whole2 => whole
    BY <1>5, <1>12, <2>6
  <2>10. StacksLead(fs, gs, c, g, x)
    BY <1>8, <2>6 DEF StacksLead
  <2>11. Open(g, in, k, whole2, gs, c)
    BY <2>7, <2>8, <2>9, <2>10, OpenMoves
  <2>12. Open(fn'[c], inputs'[c], heap', intact'[c], frames', c)
    BY <1>3, <1>10, <1>14, <2>1, <2>2, <2>6, <2>11
  <2> QED
    BY <1>3, <1>14, <2>12 DEF FaithOf
<1>15. ASSUME hasReturned[c], fn'[c] # fn[c]
       PROVE  FaithOf(c)'
  BY <1>3, <1>11, <1>15 DEF FaithOf
<1>16. \A d \in Started : Stays(d) \/ FaithOf(d)'
  BY <1>13, <1>14, <1>15
<1> QED
  BY <1>3, <1>7, <1>9, <1>10, <1>16, FaithStep DEF FaithInv

LEMMA FaithNext ==
  ASSUME ProgramsUseTensors, CaptureInv, FaithInv, [Next]_vars
  PROVE  FaithInv'
<1>1. ASSUME UNCHANGED <<heap, fn, hasReturned, frames, inputs, returned, intact, late>>
      PROVE  FaithInv'
  BY <1>1, NothingRecorded
<1>2. CASE \E c \in Controller, args \in ArgumentLists : StartCaptureFunction(c, args)
  BY <1>2, StartIsFaithful
<1>3. CASE \E th \in Thread, c \in Controller : ContextEnter(th, c)
  BY <1>1, <1>3 DEF ContextEnter, history
<1>4. ASSUME NEW th \in Thread, ContextExit(th)
      PROVE  FaithInv'
  <2>1. /\ activeStack[th] # <<>> /\ UNCHANGED <<heap, frames, inputs, intact, late>>
        /\ \/ UNCHANGED <<fn, hasReturned, returned>>
           \/ ~ hasReturned[Current(th)] /\ DoReturns(Current(th), <<>>)
    BY <1>4 DEF ContextExit
  <2>2. PICK c : c = Current(th)
    OBVIOUS
  <2>3. c \in Started
    <3>1. IsList(activeStack[th])
      BY DEF CaptureInv, ControllersInv
    <3>2. 1 \in 1 .. Len(activeStack[th]) /\ Head(activeStack[th]) = activeStack[th][1]
      BY <2>1, <3>1, ListTail
    <3> QED
      BY <2>2, <3>2 DEF Current, CaptureInv, StartedInv
  <2>4. CASE ~ hasReturned[c] /\ DoReturns(c, <<>>)
    <3>1. PICK tensors : tensors = <<>>
      OBVIOUS
    <3>2. Len(tensors) = 0
      BY <3>1, EmptyList
    <3>3. Len(tensors) \in Nat /\ \A i \in 1 .. Len(tensors) : tensors[i] \in 1 .. Len(heap.storage)
      BY <3>2
    <3> QED
      BY <2>1, <2>3, <2>4, <3>1, <3>3, ReturnsAreFaithful
  <2> QED
    BY <1>1, <2>1, <2>2, <2>4
<1>5. ASSUME NEW th \in Thread, NEW c \in Controller, NEW t \in 1..Len(heap.storage), Returns(th, c, <<t>>)
      PROVE  FaithInv'
  <2>1. PICK tensors : tensors = <<t>>
    OBVIOUS
  <2>2. /\ c \in Started /\ ~ hasReturned[c] /\ DoReturns(c, tensors)
        /\ UNCHANGED <<heap, frames, inputs, intact, late>>
    BY <1>5, <2>1 DEF Returns
  <2>3. Len(tensors) \in Nat /\ \A i \in 1 .. Len(tensors) : tensors[i] \in 1 .. Len(heap.storage)
    BY <2>1
  <2> QED
    BY <2>2, <2>3, ReturnsAreFaithful
<1>6. CASE \E th \in Thread, call \in Calls(heap) : PassThrough(th, call)
  BY <1>6, PassIsFaithful
<1>7. CASE \E th \in Thread, call \in Calls(heap) : RefusedKernel(th, call)
  BY <1>1, <1>7 DEF RefusedKernel, history
<1>8. ASSUME NEW th \in Thread, NEW call \in Calls(heap),
             FallbackKernel(th, call) \/ UnboxedKernel(th, call) \/ NestedKernel(th, call)
      PROVE  FaithInv'
  BY <1>8, KernelBegins, BeginIsFaithful
<1>9. CASE \E th \in Thread : KernelReturns(th)
  BY <1>9, BackIsFaithful
<1>10. ASSUME NEW th \in Thread, KernelThrows(th)
       PROVE  FaithInv'
  <2>1. /\ frames[th] # <<>> /\ frames' = [frames EXCEPT ![th] = <<>>]
        /\ UNCHANGED <<heap, fn, hasReturned, inputs, returned, intact, late>>
    BY <1>10 DEF KernelThrows, Idle, history
  <2> QED
    BY <2>1, StackForgets, NothingRecorded
<1>11. CASE UNCHANGED vars
  BY <1>1, <1>11 DEF vars
<1> QED
  BY <1>2, <1>3, <1>4, <1>5, <1>6, <1>7, <1>8, <1>9, <1>10, <1>11 DEF Next

LEMMA FaithSafe == FaithInv => CaptureFaithful
<1> SUFFICES ASSUME FaithInv, NEW c \in Started, hasReturned[c], intact[c], ~ late[c], ~ HiddenAlias(heap, fn[c])
             PROVE  Replay(fn[c], inputs[c]) = returned[c]
  BY DEF CaptureFaithful
<1>1. Closed(fn[c], inputs[c], heap, intact[c], returned[c])
  BY DEF FaithInv, FaithOf
<1> QED
  BY <1>1 DEF Closed, Replay

(* For any threads, controllers, argument lists and programs that call     *)
(* kernels on tensors: a function captured while every write to the        *)
(* tensors it knows was recorded, and from which no alias is hidden,       *)
(* computes from the contents of its arguments what the program returned,  *)
(* whatever kernels other threads and captures ran meanwhile               *)
(* (acap_dispatch.cpp).                                                    *)
THEOREM CaptureIsFaithful == ProgramsUseTensors => (Spec => []CaptureFaithful)
<1> SUFFICES ASSUME ProgramsUseTensors
             PROVE  Spec => []CaptureFaithful
  OBVIOUS
<1>1. FaithInv => \A call \in Calls(heap) : IsKernelCall(call)
  BY DEF FaithInv, HeapInv, ProgramsUseTensors, IsTypedCall
<1>2. CaptureInv /\ FaithInv /\ [Next]_vars => (CaptureInv /\ FaithInv)'
  BY <1>1, CaptureNext, FaithNext
<1> QED
  BY <1>2, CaptureInit, FaithInit, FaithSafe, PTL DEF Spec

=============================================================================
