------------------------------ MODULE RefCount ------------------------------
(***************************************************************************)
(* Ref<T> and RtValue: handles to reference-counted objects, used by       *)
(* several threads.  A handle (a Ref, or an RtValue that holds a Tensor)   *)
(* belongs to one thread at a time; the objects are shared.  The count is  *)
(* an atomic, so a thread can be preempted between any two accesses to     *)
(* shared memory: each is a step.                                          *)
(***************************************************************************)
EXTENDS Integers, FiniteSets

CONSTANTS
  Threads,   \* the threads
  Handles,   \* the handle variables
  Objects,   \* the objects that may be allocated, each once
  Null       \* the null pointer

ASSUME RefCountAssumption ==
  /\ IsFiniteSet(Threads) /\ IsFiniteSet(Handles)
  /\ Null \notin Objects /\ Null \notin Handles
  /\ Handles \cap Threads = {}

VARIABLES
  ptr,       \* handle -> the object it points to, or Null
  owner,     \* handle -> the thread it belongs to
  refCount,  \* object -> its count
  alloc,     \* object -> "new" (not allocated yet), "live" or "freed"
  thread     \* thread -> the operation it is executing (see Busy)

vars == <<ptr, owner, refCount, alloc, thread>>

\* What a thread is doing: the step it executes next, the handles of the
\* operation, the object a step is about and the step after decref.
Idle == [pc |-> "idle", dst |-> Null, src |-> Null, obj |-> Null, next |-> "idle"]
Busy(pc, dst, src, obj, next) == [pc |-> pc, dst |-> dst, src |-> src, obj |-> obj, next |-> next]

Init ==
  /\ ptr = [h \in Handles |-> Null]
  /\ owner \in [Handles -> Threads]
  /\ refCount = [o \in Objects |-> 0]
  /\ alloc = [o \in Objects |-> "new"]
  /\ thread = [t \in Threads |-> Idle]

\* Thread t is between two operations and owns the handles hs.
MayUse(t, hs) == thread[t] = Idle /\ \A h \in hs : owner[h] = t

Become(t, state) == thread' = [thread EXCEPT ![t] = state]

-----------------------------------------------------------------------------
\* The operations begin ...

\* Tensor::create: createRaw allocates, the constructor Ref(T *) counts.
Create(t, d) ==
  /\ MayUse(t, {d}) /\ ptr[d] = Null
  /\ \E o \in Objects :
       /\ alloc[o] = "new"
       /\ alloc' = [alloc EXCEPT ![o] = "live"]
       /\ ptr' = [ptr EXCEPT ![d] = o]
       /\ Become(t, Busy("incref", d, Null, o, "idle"))
  /\ UNCHANGED <<owner, refCount>>

\* Ref(const Ref &), and toTensor: a pointer that is counted next.
CopyConstruct(t, d, s) ==
  /\ MayUse(t, {d, s}) /\ d # s /\ ptr[d] = Null
  /\ ptr' = [ptr EXCEPT ![d] = ptr[s]]
  /\ Become(t, Busy("incref", d, s, ptr[s], "idle"))
  /\ UNCHANGED <<owner, refCount, alloc>>

\* Ref(Ref &&), and RtValue(Ref<Tensor>): the pointer is taken.
MoveConstruct(t, d, s) ==
  /\ MayUse(t, {d, s}) /\ d # s /\ ptr[d] = Null
  /\ ptr' = [ptr EXCEPT ![d] = ptr[s], ![s] = Null]
  /\ UNCHANGED <<owner, refCount, alloc, thread>>

\* Faulty: no check for self-assignment.
CopyAssignNoSelfCheck(t, d, s) ==
  /\ MayUse(t, {d, s})
  /\ Become(t, Busy("decref", d, s, ptr[d], "copy"))
  /\ UNCHANGED <<ptr, owner, refCount, alloc>>

\* Ref::operator=: decref the old object, then copy or take the pointer.
CopyAssign(t, d, s) ==
  /\ MayUse(t, {d, s}) /\ d # s
  /\ Become(t, Busy("decref", d, s, ptr[d], "copy"))
  /\ UNCHANGED <<ptr, owner, refCount, alloc>>

MoveAssign(t, d, s) ==
  /\ MayUse(t, {d, s}) /\ d # s
  /\ Become(t, Busy("decref", d, s, ptr[d], "move"))
  /\ UNCHANGED <<ptr, owner, refCount, alloc>>

\* ~Ref and ~RtValue.
Destroy(t, d) ==
  /\ MayUse(t, {d})
  /\ Become(t, Busy("decref", d, Null, ptr[d], "clear"))
  /\ UNCHANGED <<ptr, owner, refCount, alloc>>

\* RtValue::operator=: a temporary is made from the source, swapped with the
\* destination and destroyed.  Source and destination may be the same.
RtCopyAssign(t, d, s) ==
  /\ MayUse(t, {d, s})
  /\ Become(t, Busy("rtIncref", d, s, ptr[s], "idle"))
  /\ UNCHANGED <<ptr, owner, refCount, alloc>>

RtMoveAssign(t, d, s) ==
  /\ MayUse(t, {d, s})
  /\ ptr' = IF d = s THEN ptr ELSE [ptr EXCEPT ![d] = ptr[s], ![s] = Null]
  /\ Become(t, IF d = s THEN Idle ELSE Busy("decref", d, s, ptr[d], "idle"))
  /\ UNCHANGED <<owner, refCount, alloc>>

\* A handle goes to another thread through some synchronized channel.
Give(t, u, h) ==
  /\ MayUse(t, {h})
  /\ owner' = [owner EXCEPT ![h] = u]
  /\ UNCHANGED <<ptr, refCount, alloc, thread>>

-----------------------------------------------------------------------------
\* ... and go on step by step.

Goto(t, pc) == Become(t, IF pc = "idle" THEN Idle ELSE [thread[t] EXCEPT !.pc = pc])

Counted(count, o, n) == IF o = Null THEN count ELSE [count EXCEPT ![o] = @ + n]

\* Faulty: the count is loaded (into `src`) and stored in two steps.
IncrefNotAtomic(t) ==
  LET th == thread[t]
  IN \/ /\ th.pc = "incref" /\ th.obj # Null
        /\ Become(t, Busy("store", th.dst, refCount[th.obj] + 1, th.obj, "idle"))
        /\ UNCHANGED <<ptr, owner, refCount, alloc>>
     \/ /\ th.pc = "incref" /\ th.obj = Null
        /\ Goto(t, "idle")
        /\ UNCHANGED <<ptr, owner, refCount, alloc>>
     \/ /\ th.pc = "store"
        /\ refCount' = [refCount EXCEPT ![th.obj] = th.src]
        /\ Goto(t, "idle")
        /\ UNCHANGED <<ptr, owner, alloc>>

\* incref: ptr->refCount += 1, unless ptr is null.
Incref(t) ==
  /\ thread[t].pc = "incref"
  /\ refCount' = Counted(refCount, thread[t].obj, 1)
  /\ Goto(t, "idle")
  /\ UNCHANGED <<ptr, owner, alloc>>

\* Counting the temporary; swap and its destruction follow.
RtIncref(t) ==
  LET th == thread[t]
  IN /\ th.pc = "rtIncref"
     /\ refCount' = Counted(refCount, th.obj, 1)
     /\ ptr' = [ptr EXCEPT ![th.dst] = th.obj]
     /\ Become(t, Busy("decref", th.dst, th.src, ptr[th.dst], "idle"))
     /\ UNCHANGED <<owner, alloc>>

\* Faulty: the value fetch_sub returns is taken for the new count.
DecrefNewCount(t) ==
  LET th == thread[t]
  IN /\ th.pc = "decref"
     /\ refCount' = Counted(refCount, th.obj, -1)
     /\ Goto(t, IF th.obj # Null /\ refCount[th.obj] = 0 THEN "free" ELSE th.next)
     /\ UNCHANGED <<ptr, owner, alloc>>

\* decref: fetch_sub(1) == 1 means this was the last reference.
Decref(t) ==
  LET th == thread[t]
  IN /\ th.pc = "decref"
     /\ refCount' = Counted(refCount, th.obj, -1)
     /\ Goto(t, IF th.obj # Null /\ refCount[th.obj] = 1 THEN "free" ELSE th.next)
     /\ UNCHANGED <<ptr, owner, alloc>>

\* ptr->~T() and std::free.
FreeObject(t) ==
  /\ thread[t].pc = "free"
  /\ alloc' = [alloc EXCEPT ![thread[t].obj] = "freed"]
  /\ Goto(t, thread[t].next)
  /\ UNCHANGED <<ptr, owner, refCount>>

Copy(t) ==
  LET th == thread[t]
  IN /\ th.pc = "copy"
     /\ ptr' = [ptr EXCEPT ![th.dst] = ptr[th.src]]
     /\ Become(t, Busy("incref", th.dst, th.src, ptr[th.src], "idle"))
     /\ UNCHANGED <<owner, refCount, alloc>>

Move(t) ==
  LET th == thread[t]
  IN /\ th.pc = "move"
     /\ ptr' = [ptr EXCEPT ![th.dst] = ptr[th.src], ![th.src] = Null]
     /\ Goto(t, "idle")
     /\ UNCHANGED <<owner, refCount, alloc>>

\* The handle is gone; its variable may be constructed again.
Clear(t) ==
  /\ thread[t].pc = "clear"
  /\ ptr' = [ptr EXCEPT ![thread[t].dst] = Null]
  /\ Goto(t, "idle")
  /\ UNCHANGED <<owner, refCount, alloc>>

Begin(t) ==
  \/ \E d \in Handles : Create(t, d) \/ Destroy(t, d)
  \/ \E d, s \in Handles : \/ CopyConstruct(t, d, s) \/ MoveConstruct(t, d, s)
                           \/ CopyAssign(t, d, s) \/ MoveAssign(t, d, s)
                           \/ RtCopyAssign(t, d, s) \/ RtMoveAssign(t, d, s)
  \/ \E u \in Threads, h \in Handles : Give(t, u, h)

Continue(t) ==
  Incref(t) \/ RtIncref(t) \/ Decref(t) \/ FreeObject(t) \/ Copy(t) \/ Move(t) \/ Clear(t)

Next == \E t \in Threads : Begin(t) \/ Continue(t)

\* An operation that has begun runs to its end.
Spec == Init /\ [][Next]_vars /\ \A t \in Threads : WF_vars(Continue(t))

-----------------------------------------------------------------------------
\* Properties

Steps == {"idle", "incref", "rtIncref", "decref", "free", "copy", "move", "clear"}

ThreadStates ==
  [pc : Steps, dst : Handles \cup {Null}, src : Handles \cup {Null},
   obj : Objects \cup {Null}, next : {"idle", "copy", "move", "clear"}]

TypeOK ==
  /\ ptr \in [Handles -> Objects \cup {Null}]
  /\ owner \in [Handles -> Threads]
  /\ refCount \in [Objects -> Nat]
  /\ alloc \in [Objects -> {"new", "live", "freed"}]
  /\ thread \in [Threads -> ThreadStates]

\* A handle that thread t holds a reference with: not one whose pointer has
\* not been counted yet, or has been uncounted already.
IsUncounted(h) ==
  \E t \in Threads : thread[t].dst = h /\
    \/ thread[t].pc \in {"incref", "copy", "move", "clear"}
    \/ thread[t].pc = "free" /\ thread[t].next # "idle"

\* The references to o: counted handles, and the temporaries of RtValue's
\* assignments that are about to be destroyed.
HandlesOf(o) == {h \in Handles : ptr[h] = o /\ ~ IsUncounted(h)}
TemporariesOf(o) ==
  {t \in Threads : thread[t].pc = "decref" /\ thread[t].next = "idle" /\ thread[t].obj = o}

\* The count of an object is the number of references to it, in whatever order
\* the threads' increments, decrements and pointer updates interleave.
RefCountExact ==
  \A o \in Objects : refCount[o] = Cardinality(HandlesOf(o)) + Cardinality(TemporariesOf(o))

\* No handle dangles, and no count is changed and no object freed after the
\* object was freed.
NoUseAfterFree ==
  /\ \A h \in Handles : ptr[h] # Null /\ ~ IsUncounted(h) => alloc[ptr[h]] = "live"
  /\ \A t \in Threads : thread[t].obj # Null /\ thread[t].pc \in {"incref", "rtIncref", "decref", "free"} =>
       alloc[thread[t].obj] = "live"

\* Only one thread sees the count drop to zero.
FreedOnce ==
  \A t, u \in Threads :
    thread[t].pc = "free" /\ thread[u].pc = "free" /\ thread[t].obj = thread[u].obj => t = u

-----------------------------------------------------------------------------
\* The counts implement shared references

\* What a reference keeps alive: a handle its object while it is counted, and
\* a thread the object of RtValue's temporary that is about to be destroyed.
RefMapping ==
  [r \in Handles \cup Threads |->
     IF r \in Handles
     THEN IF IsUncounted(r) THEN Null ELSE ptr[r]
     ELSE IF thread[r].pc = "decref" /\ thread[r].next = "idle" THEN thread[r].obj ELSE Null]

\* An object is there for others when its first reference has been counted.
StateMapping ==
  [o \in Objects |->
     IF \E t \in Threads : thread[t].pc = "incref" /\ thread[t].src = Null /\ thread[t].obj = o
     THEN "new" ELSE alloc[o]]

Shared == INSTANCE SharedReferences
          WITH References <- Handles \cup Threads, ref <- RefMapping, state <- StateMapping

\* However the steps of the threads' operations interleave, their users see
\* shared references: a copy always has a live object to refer to, and an
\* object is freed once, when the last reference to it is gone.
ImplementsSharedReferences == Shared!Spec

\* An object that no handle refers to any more is freed, unless a handle comes
\* to refer to it again: no operation loses a reference it should hand on.
NoLeak ==
  \A o \in Objects :
    LET Referred == \E h \in Handles : ptr[h] = o
    IN (alloc[o] = "live" /\ ~ Referred) ~> (alloc[o] = "freed" \/ Referred)

=============================================================================
