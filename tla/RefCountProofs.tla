--------------------------- MODULE RefCountProofs ---------------------------
(***************************************************************************)
(* Theorems about Ref<T> and RtValue, for any number of threads, handles   *)
(* and objects.                                                            *)
(***************************************************************************)
EXTENDS RefCount, FiniteSetTheorems, TLAPS

\* What the state s of a thread says of handle h and object o: that h is not
\* counted, that the thread itself holds a reference to o, that the thread is
\* the only one to know of o (it has just made it or is about to free it).
Uncounts(s, h) ==
  /\ s.dst = h
  /\ s.pc \in {"incref", "copy", "move", "clear"} \/ (s.pc = "free" /\ s.next # "idle")

Holds(s, o) == s.pc = "decref" /\ s.next = "idle" /\ s.obj = o

IsSole(s, o) == s.obj = o /\ (s.pc = "free" \/ (s.pc = "incref" /\ s.src = Null))

\* What is true of a thread at each step of an operation.
StateOK(t, s) ==
  /\ s.pc = "idle" => s = Idle
  /\ s.pc # "idle" => s.dst \in Handles /\ owner[s.dst] = t
  /\ s.src # Null => s.src \in Handles /\ owner[s.src] = t
  /\ s.next \in {"copy", "move"} => s.src # Null /\ s.src # s.dst
  /\ s.pc \in {"copy", "move", "clear"} => s.next = s.pc
  /\ s.pc \in {"incref", "rtIncref"} => s.next = "idle"
  /\ s.pc = "incref" => /\ ptr[s.dst] = s.obj /\ s.src # s.dst
                        /\ IF s.src = Null THEN s.obj # Null ELSE ptr[s.src] = s.obj
  /\ s.pc = "rtIncref" => s.src # Null /\ ptr[s.src] = s.obj
  /\ s.pc = "decref" /\ s.next # "idle" => ptr[s.dst] = s.obj
  /\ s.pc = "free" => s.obj # Null

ThreadsOK == \A t \in Threads : StateOK(t, thread[t])

\* A counted object is live.
CountedLive == \A o \in Objects : refCount[o] > 0 => alloc[o] = "live"

\* An object that one thread only knows of is live and not counted.
SoleInv ==
  /\ \A t \in Threads, o \in Objects :
       IsSole(thread[t], o) => alloc[o] = "live" /\ refCount[o] = 0
  /\ \A t, u \in Threads, o \in Objects :
       IsSole(thread[t], o) /\ IsSole(thread[u], o) => t = u

IInv == TypeOK /\ ThreadsOK /\ RefCountExact /\ CountedLive /\ SoleInv

-----------------------------------------------------------------------------
\* States of threads

LEMMA StateFields ==
  ASSUME NEW s \in ThreadStates
  PROVE  /\ s.pc \in Steps
         /\ s.dst \in Handles \cup {Null} /\ s.src \in Handles \cup {Null}
         /\ s.obj \in Objects \cup {Null}
         /\ s.next \in {"idle", "copy", "move", "clear"}
BY DEF ThreadStates

LEMMA BusyState ==
  ASSUME NEW pc \in Steps, NEW d \in Handles \cup {Null}, NEW s \in Handles \cup {Null},
         NEW o \in Objects \cup {Null}, NEW next \in {"idle", "copy", "move", "clear"}
  PROVE  /\ Busy(pc, d, s, o, next) \in ThreadStates
         /\ Busy(pc, d, s, o, next).pc = pc
         /\ Busy(pc, d, s, o, next).dst = d
         /\ Busy(pc, d, s, o, next).src = s
         /\ Busy(pc, d, s, o, next).obj = o
         /\ Busy(pc, d, s, o, next).next = next
BY DEF Busy, ThreadStates

LEMMA IdleState ==
  /\ Idle \in ThreadStates
  /\ Idle.pc = "idle" /\ Idle.dst = Null /\ Idle.src = Null /\ Idle.obj = Null /\ Idle.next = "idle"
BY DEF Idle, ThreadStates, Steps

LEMMA MovedState ==
  ASSUME NEW s \in ThreadStates, NEW pc \in Steps
  PROVE  /\ [s EXCEPT !.pc = pc] \in ThreadStates
         /\ [s EXCEPT !.pc = pc].pc = pc
         /\ [s EXCEPT !.pc = pc].dst = s.dst
         /\ [s EXCEPT !.pc = pc].src = s.src
         /\ [s EXCEPT !.pc = pc].obj = s.obj
         /\ [s EXCEPT !.pc = pc].next = s.next
BY DEF ThreadStates

LEMMA BecomeState ==
  ASSUME TypeOK, NEW t \in Threads, NEW s \in ThreadStates, Become(t, s)
  PROVE  /\ thread' \in [Threads -> ThreadStates]
         /\ thread'[t] = s
         /\ \A u \in Threads \ {t} : thread'[u] = thread[u]
BY DEF Become, TypeOK

-----------------------------------------------------------------------------
\* One thread takes a step

\* Other threads' operations are not disturbed by what a thread does to the
\* handles that it owns; the handles that are counted are told by the state of
\* their owner.
LEMMA ThreadStep ==
  ASSUME TypeOK, ThreadsOK, NEW t \in Threads,
         thread' \in [Threads -> ThreadStates],
         \A u \in Threads \ {t} : thread'[u] = thread[u],
         owner' = owner,
         \A h \in Handles : owner[h] # t => ptr'[h] = ptr[h],
         StateOK(t, thread[t])'
  PROVE  /\ ThreadsOK'
         /\ \A h \in Handles :
              IF owner[h] = t
              THEN (IsUncounted(h) <=> Uncounts(thread[t], h)) /\ (IsUncounted(h)' <=> Uncounts(thread'[t], h))
              ELSE IsUncounted(h)' <=> IsUncounted(h)
         /\ \A o \in Objects :
              /\ t \in TemporariesOf(o) <=> Holds(thread[t], o)
              /\ t \in TemporariesOf(o)' <=> Holds(thread'[t], o)
              /\ \A u \in Threads \ {t} : u \in TemporariesOf(o)' <=> u \in TemporariesOf(o)
<1>1. ASSUME NEW u \in Threads \ {t} PROVE StateOK(u, thread[u])'
  <2>1. StateOK(u, thread[u]) /\ thread[u] \in ThreadStates
    BY DEF ThreadsOK, TypeOK
  <2>2. thread[u].pc # "idle" => ptr'[thread[u].dst] = ptr[thread[u].dst]
    BY <2>1 DEF StateOK
  <2>3. thread[u].src # Null => ptr'[thread[u].src] = ptr[thread[u].src]
    BY <2>1 DEF StateOK
  <2> QED
    BY <2>1, <2>2, <2>3 DEF StateOK
<1>2. ThreadsOK'
  BY <1>1 DEF ThreadsOK
<1>3. ASSUME NEW h \in Handles, NEW u \in Threads
      PROVE  /\ Uncounts(thread[u], h) => owner[h] = u
             /\ Uncounts(thread'[u], h) => owner[h] = u
  <2>1. StateOK(u, thread[u]) /\ StateOK(u, thread[u])'
    BY <1>2 DEF ThreadsOK
  <2> QED
    BY <2>1 DEF Uncounts, StateOK
<1>4. ASSUME NEW h \in Handles
      PROVE  IF owner[h] = t
             THEN (IsUncounted(h) <=> Uncounts(thread[t], h)) /\ (IsUncounted(h)' <=> Uncounts(thread'[t], h))
             ELSE IsUncounted(h)' <=> IsUncounted(h)
  <2>1. /\ IsUncounted(h) <=> \E u \in Threads : Uncounts(thread[u], h)
        /\ IsUncounted(h)' <=> \E u \in Threads : Uncounts(thread'[u], h)
    BY DEF IsUncounted, Uncounts
  <2> QED
    BY <1>3, <2>1
<1>5. ASSUME NEW o \in Objects
      PROVE  /\ t \in TemporariesOf(o) <=> Holds(thread[t], o)
             /\ t \in TemporariesOf(o)' <=> Holds(thread'[t], o)
             /\ \A u \in Threads \ {t} : u \in TemporariesOf(o)' <=> u \in TemporariesOf(o)
  BY DEF TemporariesOf, Holds
<1> QED
  BY <1>2, <1>4, <1>5

-----------------------------------------------------------------------------
\* References and counts

LEMMA Finite ==
  ASSUME NEW o \in Objects
  PROVE  IsFiniteSet(HandlesOf(o)) /\ IsFiniteSet(TemporariesOf(o))
BY RefCountAssumption, FS_Subset DEF HandlesOf, TemporariesOf

LEMMA FinitePrime ==
  ASSUME NEW o \in Objects
  PROVE  IsFiniteSet(HandlesOf(o)') /\ IsFiniteSet(TemporariesOf(o)')
BY RefCountAssumption, FS_Subset DEF HandlesOf, TemporariesOf

\* Whoever holds a reference to an object keeps its count above 0.
LEMMA Referenced ==
  ASSUME RefCountExact, NEW o \in Objects, HandlesOf(o) # {} \/ TemporariesOf(o) # {}
  PROVE  refCount[o] > 0
<1>1. /\ Cardinality(HandlesOf(o)) \in Nat /\ (Cardinality(HandlesOf(o)) = 0 <=> HandlesOf(o) = {})
      /\ Cardinality(TemporariesOf(o)) \in Nat /\ (Cardinality(TemporariesOf(o)) = 0 <=> TemporariesOf(o) = {})
  BY Finite, FS_CardinalityType, FS_EmptySet
<1>2. refCount[o] = Cardinality(HandlesOf(o)) + Cardinality(TemporariesOf(o))
  BY DEF RefCountExact
<1> QED
  BY <1>1, <1>2

\* A source of a copy is counted.
LEMMA SourceCounted ==
  ASSUME IInv, NEW t \in Threads, NEW h \in Handles, owner[h] = t, ptr[h] # Null,
         ~ Uncounts(thread[t], h)
  PROVE  /\ h \in HandlesOf(ptr[h])
         /\ ptr[h] \in Objects
         /\ refCount[ptr[h]] > 0
<1>1. ptr[h] \in Objects
  BY DEF IInv, TypeOK
<1>2. ASSUME NEW u \in Threads, Uncounts(thread[u], h) PROVE u = t
  BY <1>2 DEF IInv, ThreadsOK, StateOK, Uncounts
<1>3. ~ IsUncounted(h)
  BY <1>2 DEF IsUncounted, Uncounts
<1>4. h \in HandlesOf(ptr[h])
  BY <1>3 DEF HandlesOf
<1> QED
  BY <1>1, <1>4, Referenced DEF IInv

\* The other threads that are the only one to know of an object remain so.
LEMMA SoleStep ==
  ASSUME SoleInv, NEW t \in Threads,
         \A u \in Threads \ {t} : thread'[u] = thread[u],
         \A o \in Objects : IsSole(thread'[t], o) =>
           /\ alloc'[o] = "live" /\ refCount'[o] = 0
           /\ \A u \in Threads \ {t} : ~ IsSole(thread[u], o),
         \A o \in Objects : \A u \in Threads \ {t} : IsSole(thread[u], o) =>
           alloc'[o] = "live" /\ refCount'[o] = 0
  PROVE  SoleInv'
BY DEF SoleInv, IsSole

\* A step that changes no reference and no count.
LEMMA QuietStep ==
  ASSUME IInv, NEW t \in Threads,
         thread' \in [Threads -> ThreadStates],
         \A u \in Threads \ {t} : thread'[u] = thread[u],
         UNCHANGED <<owner, refCount, alloc>>,
         ptr' \in [Handles -> Objects \cup {Null}],
         \A h \in Handles : owner[h] # t => ptr'[h] = ptr[h],
         StateOK(t, thread[t])',
         \A h \in Handles, o \in Objects : owner[h] = t =>
           (ptr'[h] = o /\ ~ Uncounts(thread'[t], h) <=> ptr[h] = o /\ ~ Uncounts(thread[t], h)),
         \A o \in Objects : Holds(thread'[t], o) <=> Holds(thread[t], o),
         \A o \in Objects : ~ IsSole(thread'[t], o)
  PROVE  IInv'
<1>1. TypeOK /\ ThreadsOK /\ RefCountExact /\ CountedLive /\ SoleInv
  BY DEF IInv
<1>2. /\ ThreadsOK'
      /\ \A h \in Handles :
           IF owner[h] = t
           THEN (IsUncounted(h) <=> Uncounts(thread[t], h)) /\ (IsUncounted(h)' <=> Uncounts(thread'[t], h))
           ELSE IsUncounted(h)' <=> IsUncounted(h)
      /\ \A o \in Objects :
           /\ t \in TemporariesOf(o) <=> Holds(thread[t], o)
           /\ t \in TemporariesOf(o)' <=> Holds(thread'[t], o)
           /\ \A u \in Threads \ {t} : u \in TemporariesOf(o)' <=> u \in TemporariesOf(o)
  BY <1>1, ThreadStep
<1>3. ASSUME NEW o \in Objects PROVE HandlesOf(o)' = HandlesOf(o)
  BY <1>2 DEF HandlesOf
<1>4. ASSUME NEW o \in Objects PROVE TemporariesOf(o)' = TemporariesOf(o)
  BY <1>2 DEF TemporariesOf
<1>5. RefCountExact'
  BY <1>1, <1>3, <1>4 DEF RefCountExact
<1>6. CountedLive'
  BY <1>1 DEF CountedLive
<1>7. SoleInv'
  <2>1. \A o \in Objects : \A u \in Threads \ {t} : IsSole(thread[u], o) => alloc'[o] = "live" /\ refCount'[o] = 0
    BY <1>1 DEF SoleInv
  <2> QED
    BY <1>1, <2>1, SoleStep
<1>8. TypeOK'
  BY <1>1 DEF TypeOK
<1> QED
  BY <1>2, <1>5, <1>6, <1>7, <1>8 DEF IInv

-----------------------------------------------------------------------------
\* The steps that change no count

LEMMA CopyConstructStep ==
  ASSUME IInv, NEW t \in Threads, NEW d \in Handles, NEW s \in Handles, CopyConstruct(t, d, s)
  PROVE  IInv'
<1>1. /\ owner[d] = t /\ owner[s] = t /\ thread[t] = Idle /\ d # s /\ ptr[d] = Null
      /\ ptr' = [ptr EXCEPT ![d] = ptr[s]]
      /\ Become(t, Busy("incref", d, s, ptr[s], "idle"))
      /\ UNCHANGED <<owner, refCount, alloc>>
  BY DEF CopyConstruct, MayUse
<1>2. TypeOK /\ ptr[s] \in Objects \cup {Null}
  BY DEF IInv, TypeOK
<1>3. /\ Busy("incref", d, s, ptr[s], "idle") \in ThreadStates
      /\ Busy("incref", d, s, ptr[s], "idle").pc = "incref"
      /\ Busy("incref", d, s, ptr[s], "idle").dst = d
      /\ Busy("incref", d, s, ptr[s], "idle").src = s
      /\ Busy("incref", d, s, ptr[s], "idle").obj = ptr[s]
      /\ Busy("incref", d, s, ptr[s], "idle").next = "idle"
  BY <1>2, BusyState DEF Steps
<1>4. /\ thread' \in [Threads -> ThreadStates]
      /\ thread'[t] = Busy("incref", d, s, ptr[s], "idle")
      /\ \A u \in Threads \ {t} : thread'[u] = thread[u]
  BY <1>1, <1>2, <1>3, BecomeState
<1>5. /\ ptr' \in [Handles -> Objects \cup {Null}]
      /\ ptr'[d] = ptr[s]
      /\ \A h \in Handles \ {d} : ptr'[h] = ptr[h]
  BY <1>1, <1>2 DEF TypeOK
<1>6. StateOK(t, thread[t])'
  BY <1>1, <1>3, <1>4, <1>5, RefCountAssumption DEF StateOK
<1>7. \A h \in Handles, o \in Objects : owner[h] = t =>
        (ptr'[h] = o /\ ~ Uncounts(thread'[t], h) <=> ptr[h] = o /\ ~ Uncounts(thread[t], h))
  BY <1>1, <1>3, <1>4, <1>5, IdleState, RefCountAssumption DEF Uncounts
<1>8. \A o \in Objects : ~ Holds(thread'[t], o) /\ ~ Holds(thread[t], o) /\ ~ IsSole(thread'[t], o)
  BY <1>1, <1>3, <1>4, IdleState, RefCountAssumption DEF Holds, IsSole
<1> QED
  BY <1>1, <1>4, <1>5, <1>6, <1>7, <1>8, QuietStep

\* CopyAssign, MoveAssign and Destroy begin like this.
LEMMA BeginDecrefStep ==
  ASSUME IInv, NEW t \in Threads, NEW d \in Handles, NEW s \in Handles \cup {Null},
         NEW next \in {"copy", "move", "clear"},
         thread[t] = Idle, owner[d] = t, s # Null => owner[s] = t, next # "clear" => s # Null /\ s # d,
         Become(t, Busy("decref", d, s, ptr[d], next)),
         UNCHANGED <<ptr, owner, refCount, alloc>>
  PROVE  IInv'
<1>1. TypeOK /\ ptr[d] \in Objects \cup {Null}
  BY DEF IInv, TypeOK
<1>2. /\ Busy("decref", d, s, ptr[d], next) \in ThreadStates
      /\ Busy("decref", d, s, ptr[d], next).pc = "decref"
      /\ Busy("decref", d, s, ptr[d], next).dst = d
      /\ Busy("decref", d, s, ptr[d], next).src = s
      /\ Busy("decref", d, s, ptr[d], next).obj = ptr[d]
      /\ Busy("decref", d, s, ptr[d], next).next = next
  <2>1. "decref" \in Steps /\ next \in {"idle", "copy", "move", "clear"} /\ d \in Handles \cup {Null}
    BY DEF Steps
  <2> QED
    BY <1>1, <2>1, BusyState
<1>3. /\ thread' \in [Threads -> ThreadStates]
      /\ thread'[t] = Busy("decref", d, s, ptr[d], next)
      /\ \A u \in Threads \ {t} : thread'[u] = thread[u]
  BY <1>1, <1>2, BecomeState
<1>4. StateOK(t, thread[t])'
  BY <1>2, <1>3 DEF StateOK
<1>5. \A h \in Handles : ~ Uncounts(thread'[t], h) /\ ~ Uncounts(thread[t], h)
  BY <1>2, <1>3, IdleState DEF Uncounts
<1>6. \A o \in Objects : ~ Holds(thread'[t], o) /\ ~ Holds(thread[t], o) /\ ~ IsSole(thread'[t], o)
  BY <1>2, <1>3, IdleState DEF Holds, IsSole
<1>7. ptr' \in [Handles -> Objects \cup {Null}]
  BY <1>1 DEF TypeOK
<1> QED
  BY <1>3, <1>4, <1>5, <1>6, <1>7, QuietStep

LEMMA RtCopyAssignStep ==
  ASSUME IInv, NEW t \in Threads, NEW d \in Handles, NEW s \in Handles, RtCopyAssign(t, d, s)
  PROVE  IInv'
<1>1. /\ owner[d] = t /\ owner[s] = t /\ thread[t] = Idle
      /\ Become(t, Busy("rtIncref", d, s, ptr[s], "idle"))
      /\ UNCHANGED <<ptr, owner, refCount, alloc>>
  BY DEF RtCopyAssign, MayUse
<1>2. TypeOK /\ ptr[s] \in Objects \cup {Null}
  BY DEF IInv, TypeOK
<1>3. /\ Busy("rtIncref", d, s, ptr[s], "idle") \in ThreadStates
      /\ Busy("rtIncref", d, s, ptr[s], "idle").pc = "rtIncref"
      /\ Busy("rtIncref", d, s, ptr[s], "idle").dst = d
      /\ Busy("rtIncref", d, s, ptr[s], "idle").src = s
      /\ Busy("rtIncref", d, s, ptr[s], "idle").obj = ptr[s]
      /\ Busy("rtIncref", d, s, ptr[s], "idle").next = "idle"
  BY <1>2, BusyState DEF Steps
<1>4. /\ thread' \in [Threads -> ThreadStates]
      /\ thread'[t] = Busy("rtIncref", d, s, ptr[s], "idle")
      /\ \A u \in Threads \ {t} : thread'[u] = thread[u]
  BY <1>1, <1>2, <1>3, BecomeState
<1>5. StateOK(t, thread[t])'
  BY <1>1, <1>3, <1>4, RefCountAssumption DEF StateOK
<1>6. \A h \in Handles : ~ Uncounts(thread'[t], h) /\ ~ Uncounts(thread[t], h)
  BY <1>1, <1>3, <1>4, IdleState DEF Uncounts
<1>7. \A o \in Objects : ~ Holds(thread'[t], o) /\ ~ Holds(thread[t], o) /\ ~ IsSole(thread'[t], o)
  BY <1>1, <1>3, <1>4, IdleState DEF Holds, IsSole
<1>8. ptr' \in [Handles -> Objects \cup {Null}]
  BY <1>1, <1>2 DEF TypeOK
<1> QED
  BY <1>1, <1>4, <1>5, <1>6, <1>7, <1>8, QuietStep

LEMMA GiveStep ==
  ASSUME IInv, NEW t \in Threads, NEW u \in Threads, NEW h \in Handles, Give(t, u, h)
  PROVE  IInv'
<1>1. /\ owner[h] = t /\ thread[t] = Idle
      /\ owner' = [owner EXCEPT ![h] = u]
      /\ UNCHANGED <<ptr, refCount, alloc, thread>>
  BY DEF Give, MayUse
<1>2. TypeOK /\ ThreadsOK /\ RefCountExact /\ CountedLive /\ SoleInv
  BY DEF IInv
<1>3. TypeOK'
  BY <1>1, <1>2 DEF TypeOK
<1>4. ASSUME NEW v \in Threads PROVE StateOK(v, thread[v])'
  <2>1. StateOK(v, thread[v]) /\ thread[v] \in ThreadStates
    BY <1>2 DEF ThreadsOK, TypeOK
  <2>2. v = t => thread'[v] = Idle
    BY <1>1
  <2>3. v # t => /\ thread[v].pc # "idle" => thread[v].dst # h
                 /\ thread[v].src # h
    BY <1>1, <2>1, RefCountAssumption DEF StateOK
  <2>4. \A g \in Handles \ {h} : owner'[g] = owner[g]
    BY <1>1, <1>2 DEF TypeOK
  <2>5. CASE v = t
    BY <2>2, <2>5, IdleState DEF StateOK
  <2>6. CASE v # t
    BY <1>1, <2>1, <2>3, <2>4, <2>6 DEF StateOK
  <2> QED
    BY <2>5, <2>6
<1>5. ThreadsOK'
  BY <1>4 DEF ThreadsOK
<1>6. RefCountExact'
  BY <1>1, <1>2 DEF RefCountExact, HandlesOf, TemporariesOf, IsUncounted
<1>7. CountedLive' /\ SoleInv'
  BY <1>1, <1>2 DEF CountedLive, SoleInv, IsSole
<1> QED
  BY <1>3, <1>5, <1>6, <1>7 DEF IInv

\* ptr[th.dst] is overwritten while it is not counted.
LEMMA CopyStep ==
  ASSUME IInv, NEW t \in Threads, Copy(t)
  PROVE  IInv'
<1> DEFINE th == thread[t]
           new == Busy("incref", th.dst, th.src, ptr[th.src], "idle")
<1>1. /\ th.pc = "copy"
      /\ ptr' = [ptr EXCEPT ![th.dst] = ptr[th.src]]
      /\ Become(t, new)
      /\ UNCHANGED <<owner, refCount, alloc>>
  BY DEF Copy
<1>2. TypeOK /\ StateOK(t, th) /\ th \in ThreadStates
  BY DEF IInv, TypeOK, ThreadsOK
<1>3. /\ th.dst \in Handles /\ owner[th.dst] = t
      /\ th.src \in Handles /\ owner[th.src] = t /\ th.src # th.dst
      /\ ptr[th.src] \in Objects \cup {Null}
      /\ th.next = "copy" /\ th.src # Null
  <2>1. th.dst \in Handles /\ owner[th.dst] = t /\ th.next = "copy"
    BY <1>1, <1>2 DEF StateOK
  <2>2. th.src # Null /\ th.src # th.dst /\ th.src \in Handles /\ owner[th.src] = t
    BY <1>2, <2>1 DEF StateOK
  <2>3. ptr[th.src] \in Objects \cup {Null}
    BY <1>2, <2>2 DEF TypeOK
  <2> QED
    BY <2>1, <2>2, <2>3
<1>4. /\ new \in ThreadStates
      /\ new.pc = "incref" /\ new.dst = th.dst /\ new.src = th.src /\ new.obj = ptr[th.src]
      /\ new.next = "idle"
  BY <1>3, BusyState DEF Steps
<1> HIDE DEF new
<1>5. /\ thread' \in [Threads -> ThreadStates]
      /\ thread'[t] = new
      /\ \A u \in Threads \ {t} : thread'[u] = thread[u]
  BY <1>1, <1>2, <1>4, BecomeState
<1>6. /\ ptr' \in [Handles -> Objects \cup {Null}]
      /\ ptr'[th.dst] = ptr[th.src]
      /\ \A h \in Handles \ {th.dst} : ptr'[h] = ptr[h]
  BY <1>1, <1>2, <1>3 DEF TypeOK
<1>7. StateOK(t, thread[t])'
  BY <1>1, <1>3, <1>4, <1>5, <1>6, RefCountAssumption DEF StateOK
<1>8. /\ \A h \in Handles : Uncounts(thread'[t], h) <=> h = th.dst
      /\ \A h \in Handles : Uncounts(thread[t], h) <=> h = th.dst
  BY <1>1, <1>4, <1>5 DEF Uncounts
<1>9. \A o \in Objects : ~ Holds(thread'[t], o) /\ ~ Holds(thread[t], o) /\ ~ IsSole(thread'[t], o)
  BY <1>1, <1>3, <1>4, <1>5 DEF Holds, IsSole
<1> QED
  BY <1>1, <1>3, <1>5, <1>6, <1>7, <1>8, <1>9, QuietStep

LEMMA ClearStep ==
  ASSUME IInv, NEW t \in Threads, Clear(t)
  PROVE  IInv'
<1> DEFINE th == thread[t]
<1>1. /\ th.pc = "clear"
      /\ ptr' = [ptr EXCEPT ![th.dst] = Null]
      /\ Become(t, Idle)
      /\ UNCHANGED <<owner, refCount, alloc>>
  BY DEF Clear, Goto
<1>2. TypeOK /\ StateOK(t, th) /\ th \in ThreadStates
  BY DEF IInv, TypeOK, ThreadsOK
<1>3. th.dst \in Handles /\ owner[th.dst] = t
  BY <1>1, <1>2 DEF StateOK
<1>4. /\ thread' \in [Threads -> ThreadStates]
      /\ thread'[t] = Idle
      /\ \A u \in Threads \ {t} : thread'[u] = thread[u]
  BY <1>1, <1>2, IdleState, BecomeState
<1>5. /\ ptr' \in [Handles -> Objects \cup {Null}]
      /\ ptr'[th.dst] = Null
      /\ \A h \in Handles \ {th.dst} : ptr'[h] = ptr[h]
  BY <1>1, <1>2, <1>3 DEF TypeOK
<1>6. StateOK(t, thread[t])'
  BY <1>4, IdleState DEF StateOK
<1>7. /\ \A h \in Handles : ~ Uncounts(thread'[t], h)
      /\ \A h \in Handles : Uncounts(thread[t], h) <=> h = th.dst
  BY <1>1, <1>4, IdleState DEF Uncounts
<1>8. \A o \in Objects : ~ Holds(thread'[t], o) /\ ~ Holds(thread[t], o) /\ ~ IsSole(thread'[t], o)
  BY <1>1, <1>4, IdleState DEF Holds, IsSole
<1>9. Null \notin Objects
  BY RefCountAssumption
<1> QED
  BY <1>1, <1>3, <1>4, <1>5, <1>6, <1>7, <1>8, <1>9, QuietStep

-----------------------------------------------------------------------------
\* The steps that change references and counts

LEMMA GotoState ==
  ASSUME TypeOK, NEW t \in Threads, NEW pc \in Steps, Goto(t, pc)
  PROVE  /\ thread' \in [Threads -> ThreadStates]
         /\ \A u \in Threads \ {t} : thread'[u] = thread[u]
         /\ thread'[t].pc = pc
         /\ IF pc = "idle" THEN thread'[t] = Idle
            ELSE /\ thread'[t].dst = thread[t].dst /\ thread'[t].src = thread[t].src
                 /\ thread'[t].obj = thread[t].obj /\ thread'[t].next = thread[t].next
<1>1. thread[t] \in ThreadStates
  BY DEF TypeOK
<1>2. CASE pc = "idle"
  BY <1>2, IdleState, BecomeState DEF Goto
<1>3. CASE pc # "idle"
  <2>1. PICK s \in ThreadStates : s = [thread[t] EXCEPT !.pc = pc]
    BY <1>1, MovedState
  <2>2. Become(t, s)
    BY <1>3, <2>1 DEF Goto
  <2>3. s.pc = pc /\ s.dst = thread[t].dst /\ s.src = thread[t].src /\ s.obj = thread[t].obj
        /\ s.next = thread[t].next
    BY <1>1, <2>1, MovedState
  <2> QED
    BY <1>3, <2>2, <2>3, BecomeState
<1> QED
  BY <1>2, <1>3

LEMMA Cards ==
  ASSUME NEW S, IsFiniteSet(S), NEW x
  PROVE  /\ Cardinality(S) \in Nat
         /\ x \notin S => Cardinality(S \cup {x}) = Cardinality(S) + 1
         /\ x \in S => Cardinality(S \ {x}) = Cardinality(S) - 1
BY FS_CardinalityType, FS_AddElement, FS_RemoveElement

\* One element for another.
LEMMA SwapCards ==
  ASSUME NEW S, IsFiniteSet(S), NEW x \in S, NEW y, y \notin S
  PROVE  Cardinality((S \ {x}) \cup {y}) = Cardinality(S)
<1>1. IsFiniteSet(S \ {x}) /\ Cardinality(S \ {x}) = Cardinality(S) - 1 /\ Cardinality(S) \in Nat
  BY FS_CardinalityType, FS_RemoveElement
<1>2. Cardinality((S \ {x}) \cup {y}) = Cardinality(S \ {x}) + 1
  BY <1>1, FS_AddElement
<1> QED
  BY <1>1, <1>2

\* What a thread's step does to the references to an object.
LEMMA ReferencesStep ==
  ASSUME TypeOK, ThreadsOK, NEW t \in Threads,
         thread' \in [Threads -> ThreadStates],
         \A u \in Threads \ {t} : thread'[u] = thread[u],
         owner' = owner,
         \A h \in Handles : owner[h] # t => ptr'[h] = ptr[h],
         StateOK(t, thread[t])',
         NEW o \in Objects
  PROVE  /\ HandlesOf(o) \subseteq Handles /\ HandlesOf(o)' \subseteq Handles
         /\ TemporariesOf(o) \subseteq Threads /\ TemporariesOf(o)' \subseteq Threads
         /\ \A h \in Handles :
              IF owner[h] = t
              THEN /\ h \in HandlesOf(o) <=> ptr[h] = o /\ ~ Uncounts(thread[t], h)
                   /\ h \in HandlesOf(o)' <=> ptr'[h] = o /\ ~ Uncounts(thread'[t], h)
              ELSE h \in HandlesOf(o)' <=> h \in HandlesOf(o)
         /\ t \in TemporariesOf(o) <=> Holds(thread[t], o)
         /\ t \in TemporariesOf(o)' <=> Holds(thread'[t], o)
         /\ \A u \in Threads \ {t} : u \in TemporariesOf(o)' <=> u \in TemporariesOf(o)
<1>1. /\ \A h \in Handles :
           IF owner[h] = t
           THEN (IsUncounted(h) <=> Uncounts(thread[t], h)) /\ (IsUncounted(h)' <=> Uncounts(thread'[t], h))
           ELSE IsUncounted(h)' <=> IsUncounted(h)
      /\ t \in TemporariesOf(o) <=> Holds(thread[t], o)
      /\ t \in TemporariesOf(o)' <=> Holds(thread'[t], o)
      /\ \A u \in Threads \ {t} : u \in TemporariesOf(o)' <=> u \in TemporariesOf(o)
  BY ThreadStep
<1>2. ASSUME NEW h \in Handles
      PROVE  /\ h \in HandlesOf(o) <=> ptr[h] = o /\ ~ IsUncounted(h)
             /\ h \in HandlesOf(o)' <=> ptr'[h] = o /\ ~ IsUncounted(h)'
  BY DEF HandlesOf
<1>3. HandlesOf(o) \subseteq Handles /\ HandlesOf(o)' \subseteq Handles
      /\ TemporariesOf(o) \subseteq Threads /\ TemporariesOf(o)' \subseteq Threads
  BY DEF HandlesOf, TemporariesOf
<1> QED
  BY <1>1, <1>2, <1>3

\* ... and what that does to their number.
LEMMA CountsStep ==
  ASSUME NEW o \in Objects, NEW d, NEW h, NEW t
  PROVE  /\ Cardinality(HandlesOf(o)) \in Nat /\ Cardinality(TemporariesOf(o)) \in Nat
         /\ d \notin HandlesOf(o) /\ HandlesOf(o)' = HandlesOf(o) \cup {d} =>
              Cardinality(HandlesOf(o)') = Cardinality(HandlesOf(o)) + 1
         /\ h \in HandlesOf(o) /\ HandlesOf(o)' = HandlesOf(o) \ {h} =>
              Cardinality(HandlesOf(o)') = Cardinality(HandlesOf(o)) - 1
         /\ h \in HandlesOf(o) /\ d \notin HandlesOf(o) /\ HandlesOf(o)' = (HandlesOf(o) \ {h}) \cup {d} =>
              Cardinality(HandlesOf(o)') = Cardinality(HandlesOf(o))
         /\ t \notin TemporariesOf(o) /\ TemporariesOf(o)' = TemporariesOf(o) \cup {t} =>
              Cardinality(TemporariesOf(o)') = Cardinality(TemporariesOf(o)) + 1
         /\ t \in TemporariesOf(o) /\ TemporariesOf(o)' = TemporariesOf(o) \ {t} =>
              Cardinality(TemporariesOf(o)') = Cardinality(TemporariesOf(o)) - 1
<1>1. IsFiniteSet(HandlesOf(o)) /\ IsFiniteSet(TemporariesOf(o))
  BY Finite
<1>2. /\ Cardinality(HandlesOf(o)) \in Nat
      /\ d \notin HandlesOf(o) => Cardinality(HandlesOf(o) \cup {d}) = Cardinality(HandlesOf(o)) + 1
      /\ h \in HandlesOf(o) => Cardinality(HandlesOf(o) \ {h}) = Cardinality(HandlesOf(o)) - 1
      /\ h \in HandlesOf(o) /\ d \notin HandlesOf(o) =>
           Cardinality((HandlesOf(o) \ {h}) \cup {d}) = Cardinality(HandlesOf(o))
  <2>1. d \notin HandlesOf(o) => Cardinality(HandlesOf(o) \cup {d}) = Cardinality(HandlesOf(o)) + 1
    BY <1>1, Cards
  <2>2. Cardinality(HandlesOf(o)) \in Nat
    BY <1>1, Cards
  <2>3. h \in HandlesOf(o) => Cardinality(HandlesOf(o) \ {h}) = Cardinality(HandlesOf(o)) - 1
    BY <1>1, Cards
  <2>4. h \in HandlesOf(o) /\ d \notin HandlesOf(o) =>
          Cardinality((HandlesOf(o) \ {h}) \cup {d}) = Cardinality(HandlesOf(o))
    BY <1>1, SwapCards
  <2> QED
    BY <2>1, <2>2, <2>3, <2>4
<1>3. /\ Cardinality(TemporariesOf(o)) \in Nat
      /\ t \notin TemporariesOf(o) => Cardinality(TemporariesOf(o) \cup {t}) = Cardinality(TemporariesOf(o)) + 1
      /\ t \in TemporariesOf(o) => Cardinality(TemporariesOf(o) \ {t}) = Cardinality(TemporariesOf(o)) - 1
  BY <1>1, Cards
<1> QED
  BY <1>2, <1>3

LEMMA IncrefStep ==
  ASSUME IInv, NEW t \in Threads, Incref(t)
  PROVE  IInv'
<1> DEFINE th == thread[t]
<1>1. /\ th.pc = "incref"
      /\ refCount' = Counted(refCount, th.obj, 1)
      /\ Goto(t, "idle")
      /\ UNCHANGED <<ptr, owner, alloc>>
  BY DEF Incref
<1>2. TypeOK /\ ThreadsOK /\ RefCountExact /\ CountedLive /\ SoleInv
  BY DEF IInv
<1>3. StateOK(t, th) /\ th \in ThreadStates
  BY <1>2 DEF TypeOK, ThreadsOK
<1>4. /\ th.dst \in Handles /\ owner[th.dst] = t /\ ptr[th.dst] = th.obj
      /\ th.src # th.dst /\ th.obj \in Objects \cup {Null} /\ th.next = "idle"
      /\ th.src = Null => th.obj # Null
      /\ th.src # Null => th.src \in Handles /\ owner[th.src] = t /\ ptr[th.src] = th.obj
  BY <1>1, <1>3, StateFields DEF StateOK
<1>5. /\ thread' \in [Threads -> ThreadStates]
      /\ thread'[t] = Idle
      /\ \A u \in Threads \ {t} : thread'[u] = thread[u]
  BY <1>1, <1>2, GotoState DEF Steps
<1>6. StateOK(t, thread[t])'
  BY <1>5, IdleState DEF StateOK
<1>7. /\ \A h \in Handles : ~ Uncounts(thread'[t], h)
      /\ \A h \in Handles : Uncounts(thread[t], h) <=> h = th.dst
  BY <1>1, <1>5, IdleState DEF Uncounts
<1>8. \A o \in Objects : ~ Holds(thread'[t], o) /\ ~ Holds(thread[t], o) /\ ~ IsSole(thread'[t], o)
  BY <1>1, <1>5, IdleState DEF Holds, IsSole
<1>9. ptr' \in [Handles -> Objects \cup {Null}]
  BY <1>1, <1>2 DEF TypeOK
<1>10. CASE th.obj = Null
  <2>1. refCount' = refCount
    BY <1>1, <1>10 DEF Counted
  <2>2. Null \notin Objects
    BY RefCountAssumption
  <2> QED
    BY <1>1, <1>4, <1>5, <1>6, <1>7, <1>8, <1>9, <1>10, <2>1, <2>2, QuietStep
<1>11. CASE th.obj # Null
  <2> PICK x \in Objects : x = th.obj
    BY <1>4, <1>11
  <2>1. refCount \in [Objects -> Nat] /\ refCount' = [refCount EXCEPT ![x] = @ + 1]
    BY <1>1, <1>2, <1>11 DEF Counted, TypeOK
  <2>2. refCount'[x] = refCount[x] + 1 /\ \A o \in Objects \ {x} : refCount'[o] = refCount[o]
    BY <2>1
  <2>3. ThreadsOK'
    BY <1>1, <1>2, <1>5, <1>6, ThreadStep
  <2>4. ASSUME NEW o \in Objects
        PROVE  /\ TemporariesOf(o)' = TemporariesOf(o)
               /\ o # x => HandlesOf(o)' = HandlesOf(o)
               /\ o = x => th.dst \notin HandlesOf(o) /\ HandlesOf(o)' = HandlesOf(o) \cup {th.dst}
    <3>1. /\ HandlesOf(o) \subseteq Handles /\ HandlesOf(o)' \subseteq Handles
          /\ TemporariesOf(o) \subseteq Threads /\ TemporariesOf(o)' \subseteq Threads
          /\ \A h \in Handles :
               IF owner[h] = t
               THEN /\ h \in HandlesOf(o) <=> ptr[h] = o /\ ~ Uncounts(thread[t], h)
                    /\ h \in HandlesOf(o)' <=> ptr'[h] = o /\ ~ Uncounts(thread'[t], h)
               ELSE h \in HandlesOf(o)' <=> h \in HandlesOf(o)
          /\ t \in TemporariesOf(o) <=> Holds(thread[t], o)
          /\ t \in TemporariesOf(o)' <=> Holds(thread'[t], o)
          /\ \A u \in Threads \ {t} : u \in TemporariesOf(o)' <=> u \in TemporariesOf(o)
      BY <1>1, <1>2, <1>5, <1>6, ReferencesStep
    <3>2. TemporariesOf(o)' = TemporariesOf(o)
      BY <1>8, <3>1
    <3>3. \A h \in Handles : h # th.dst => (h \in HandlesOf(o)' <=> h \in HandlesOf(o))
      BY <1>1, <1>7, <3>1
    <3>4. th.dst \notin HandlesOf(o) /\ (th.dst \in HandlesOf(o)' <=> o = x)
      BY <1>1, <1>4, <1>7, <3>1
    <3> QED
      BY <1>4, <3>1, <3>2, <3>3, <3>4
  <2>5. RefCountExact'
    <3>1. ASSUME NEW o \in Objects PROVE (refCount[o] = Cardinality(HandlesOf(o)) + Cardinality(TemporariesOf(o)))'
      <4>1. refCount[o] = Cardinality(HandlesOf(o)) + Cardinality(TemporariesOf(o))
        BY <1>2 DEF RefCountExact
      <4>2. /\ Cardinality(HandlesOf(o)) \in Nat /\ Cardinality(TemporariesOf(o)) \in Nat
            /\ o = x => Cardinality(HandlesOf(o)') = Cardinality(HandlesOf(o)) + 1
        BY <2>4, CountsStep
      <4>3. CASE o = x
        BY <2>2, <2>4, <4>1, <4>2, <4>3
      <4>4. CASE o # x
        BY <2>2, <2>4, <4>1, <4>4
      <4> QED
        BY <4>3, <4>4
    <3> QED
      BY <3>1 DEF RefCountExact
  <2>8. alloc[x] = "live" /\ \A u \in Threads \ {t} : ~ IsSole(thread[u], x)
    <3>1. CASE th.src = Null
      <4>1. IsSole(thread[t], x)
        BY <1>1, <3>1 DEF IsSole
      <4> QED
        BY <1>2, <2>1, <4>1 DEF SoleInv
    <3>2. CASE th.src # Null
      <4>1. ~ Uncounts(thread[t], th.src)
        BY <1>4 DEF Uncounts
      <4>2. refCount[x] > 0
        BY <1>4, <1>11, <3>2, <4>1, SourceCounted
      <4>3. alloc[x] = "live"
        BY <1>2, <2>1, <4>2 DEF CountedLive
      <4>4. \A u \in Threads : IsSole(thread[u], x) => refCount[x] = 0
        BY <1>2, <2>1 DEF SoleInv
      <4> QED
        BY <4>2, <4>3, <4>4
    <3> QED
      BY <3>1, <3>2
  <2>9. CountedLive'
    BY <1>1, <1>2, <2>2, <2>8 DEF CountedLive
  <2>10. SoleInv'
    <3>1. \A o \in Objects : \A u \in Threads \ {t} : IsSole(thread[u], o) => alloc'[o] = "live" /\ refCount'[o] = 0
      BY <1>1, <1>2, <2>2, <2>8 DEF SoleInv
    <3> QED
      BY <1>2, <1>5, <1>8, <3>1, SoleStep
  <2>11. TypeOK'
    BY <1>1, <1>2, <1>5, <2>1 DEF TypeOK
  <2> QED
    BY <2>3, <2>5, <2>9, <2>10, <2>11 DEF IInv
<1> QED
  BY <1>10, <1>11

LEMMA DecrefStep ==
  ASSUME IInv, NEW t \in Threads, Decref(t)
  PROVE  IInv'
<1> DEFINE th == thread[t]
<1>1. /\ th.pc = "decref"
      /\ refCount' = Counted(refCount, th.obj, -1)
      /\ Goto(t, IF th.obj # Null /\ refCount[th.obj] = 1 THEN "free" ELSE th.next)
      /\ UNCHANGED <<ptr, owner, alloc>>
  BY DEF Decref
<1>2. TypeOK /\ ThreadsOK /\ RefCountExact /\ CountedLive /\ SoleInv
  BY DEF IInv
<1>3. StateOK(t, th) /\ th \in ThreadStates
  BY <1>2 DEF TypeOK, ThreadsOK
<1>4. /\ th.dst \in Handles /\ owner[th.dst] = t
      /\ th.obj \in Objects \cup {Null} /\ th.next \in {"idle", "copy", "move", "clear"}
      /\ th.src # Null => th.src \in Handles /\ owner[th.src] = t
      /\ th.next \in {"copy", "move"} => th.src # Null /\ th.src # th.dst
      /\ th.next # "idle" => ptr[th.dst] = th.obj
  BY <1>1, <1>3, StateFields DEF StateOK
<1>5. PICK pc \in {"free", "idle", "copy", "move", "clear"} :
        pc = IF th.obj # Null /\ refCount[th.obj] = 1 THEN "free" ELSE th.next
  BY <1>4
<1>6. /\ thread' \in [Threads -> ThreadStates]
      /\ \A u \in Threads \ {t} : thread'[u] = thread[u]
      /\ thread'[t].pc = pc
      /\ IF pc = "idle" THEN thread'[t] = Idle
         ELSE /\ thread'[t].dst = th.dst /\ thread'[t].src = th.src
              /\ thread'[t].obj = th.obj /\ thread'[t].next = th.next
  <2>1. pc \in Steps
    BY DEF Steps
  <2>2. Goto(t, pc)
    BY <1>1, <1>5
  <2> QED
    BY <1>2, <2>1, <2>2, GotoState
<1>7. StateOK(t, thread[t])'
  <2>1. CASE pc = "idle"
    BY <1>6, <2>1, IdleState DEF StateOK
  <2>2. CASE pc = "free"
    BY <1>1, <1>4, <1>5, <1>6, <2>2 DEF StateOK
  <2>3. CASE pc \in {"copy", "move", "clear"}
    BY <1>1, <1>4, <1>5, <1>6, <2>3 DEF StateOK
  <2> QED
    BY <2>1, <2>2, <2>3
<1>8. /\ \A h \in Handles : ~ Uncounts(thread[t], h)
      /\ \A h \in Handles : Uncounts(thread'[t], h) <=> h = th.dst /\ th.next # "idle"
  <2>1. \A h \in Handles : ~ Uncounts(thread[t], h)
    BY <1>1 DEF Uncounts
  <2>2. CASE pc = "idle"
    BY <1>5, <1>6, <2>1, <2>2, IdleState DEF Uncounts
  <2>3. CASE pc # "idle"
    BY <1>5, <1>6, <2>1, <2>3 DEF Uncounts
  <2> QED
    BY <2>2, <2>3
<1>9. \A o \in Objects : /\ Holds(thread[t], o) <=> th.next = "idle" /\ th.obj = o
                         /\ ~ Holds(thread'[t], o)
  BY <1>1, <1>6 DEF Holds
<1>10. \A o \in Objects : IsSole(thread'[t], o) => th.obj = o /\ refCount[o] = 1
  <2> TAKE o \in Objects
  <2> HAVE IsSole(thread'[t], o)
  <2>1. pc = "free"
    BY <1>6 DEF IsSole
  <2>2. th.obj = o
    BY <1>6, <2>1 DEF IsSole
  <2>3. th.next # "free"
    BY <1>4
  <2> QED
    BY <1>5, <2>1, <2>2, <2>3
<1>11. ptr' \in [Handles -> Objects \cup {Null}]
  BY <1>1, <1>2 DEF TypeOK
<1>12. CASE th.obj = Null
  <2>1. refCount' = refCount
    BY <1>1, <1>12 DEF Counted
  <2>2. Null \notin Objects
    BY RefCountAssumption
  <2>3. \A h \in Handles, o \in Objects : owner[h] = t =>
          (ptr'[h] = o /\ ~ Uncounts(thread'[t], h) <=> ptr[h] = o /\ ~ Uncounts(thread[t], h))
    BY <1>1, <1>4, <1>8, <1>12, <2>2
  <2>4. \A o \in Objects : /\ Holds(thread'[t], o) <=> Holds(thread[t], o)
                           /\ ~ IsSole(thread'[t], o)
    BY <1>9, <1>10, <1>12, <2>2
  <2> QED
    BY <1>1, <1>6, <1>7, <1>11, <2>1, <2>3, <2>4, QuietStep
<1>13. CASE th.obj # Null
  <2> PICK x \in Objects : x = th.obj
    BY <1>4, <1>13
  <2>1. refCount \in [Objects -> Nat] /\ refCount' = [refCount EXCEPT ![x] = @ + (-1)]
    BY <1>1, <1>2, <1>13 DEF Counted, TypeOK
  <2>2. ThreadsOK'
    BY <1>1, <1>2, <1>6, <1>7, ThreadStep
  <2>3. ASSUME NEW o \in Objects
        PROVE  /\ o # x => HandlesOf(o)' = HandlesOf(o) /\ TemporariesOf(o)' = TemporariesOf(o)
               /\ o = x /\ th.next = "idle" =>
                    /\ HandlesOf(o)' = HandlesOf(o)
                    /\ t \in TemporariesOf(o) /\ TemporariesOf(o)' = TemporariesOf(o) \ {t}
               /\ o = x /\ th.next # "idle" =>
                    /\ th.dst \in HandlesOf(o) /\ HandlesOf(o)' = HandlesOf(o) \ {th.dst}
                    /\ TemporariesOf(o)' = TemporariesOf(o)
    <3>1. /\ HandlesOf(o) \subseteq Handles /\ HandlesOf(o)' \subseteq Handles
          /\ TemporariesOf(o) \subseteq Threads /\ TemporariesOf(o)' \subseteq Threads
          /\ \A h \in Handles :
               IF owner[h] = t
               THEN /\ h \in HandlesOf(o) <=> ptr[h] = o /\ ~ Uncounts(thread[t], h)
                    /\ h \in HandlesOf(o)' <=> ptr'[h] = o /\ ~ Uncounts(thread'[t], h)
               ELSE h \in HandlesOf(o)' <=> h \in HandlesOf(o)
          /\ t \in TemporariesOf(o) <=> Holds(thread[t], o)
          /\ t \in TemporariesOf(o)' <=> Holds(thread'[t], o)
          /\ \A u \in Threads \ {t} : u \in TemporariesOf(o)' <=> u \in TemporariesOf(o)
      BY <1>1, <1>2, <1>6, <1>7, ReferencesStep
    <3>2. \A h \in Handles : h # th.dst \/ th.next = "idle" => (h \in HandlesOf(o)' <=> h \in HandlesOf(o))
      BY <1>1, <1>8, <3>1
    <3>3. th.next # "idle" => (th.dst \in HandlesOf(o) <=> o = x) /\ th.dst \notin HandlesOf(o)'
      BY <1>1, <1>4, <1>8, <3>1
    <3>4. (t \in TemporariesOf(o) <=> o = x /\ th.next = "idle") /\ t \notin TemporariesOf(o)'
      BY <1>9, <3>1
    <3> QED
      BY <1>4, <3>1, <3>2, <3>3, <3>4
  <2>4. refCount[x] > 0
    BY <1>2, <2>3, Referenced
  <2>5. /\ refCount'[x] = refCount[x] - 1 /\ refCount' \in [Objects -> Nat]
        /\ \A o \in Objects \ {x} : refCount'[o] = refCount[o]
    BY <2>1, <2>4
  <2>6. RefCountExact'
    <3>1. ASSUME NEW o \in Objects PROVE (refCount[o] = Cardinality(HandlesOf(o)) + Cardinality(TemporariesOf(o)))'
      <4>1. refCount[o] = Cardinality(HandlesOf(o)) + Cardinality(TemporariesOf(o))
        BY <1>2 DEF RefCountExact
      <4>2. CASE o # x
        BY <2>3, <2>5, <4>1, <4>2
      <4>3. CASE o = x /\ th.next = "idle"
        <5>1. Cardinality(TemporariesOf(o)') = Cardinality(TemporariesOf(o)) - 1
              /\ Cardinality(TemporariesOf(o)) \in Nat /\ Cardinality(HandlesOf(o)) \in Nat
          BY <2>3, <4>3, CountsStep
        <5> QED
          BY <2>3, <2>5, <4>1, <4>3, <5>1
      <4>4. CASE o = x /\ th.next # "idle"
        <5>1. Cardinality(HandlesOf(o)') = Cardinality(HandlesOf(o)) - 1
              /\ Cardinality(TemporariesOf(o)) \in Nat /\ Cardinality(HandlesOf(o)) \in Nat
          BY <2>3, <4>4, CountsStep
        <5> QED
          BY <2>3, <2>5, <4>1, <4>4, <5>1
      <4> QED
        BY <4>2, <4>3, <4>4
    <3> QED
      BY <3>1 DEF RefCountExact
  <2>7. alloc[x] = "live" /\ \A u \in Threads : ~ IsSole(thread[u], x)
    BY <1>2, <2>4 DEF CountedLive, SoleInv
  <2>8. CountedLive'
    BY <1>1, <1>2, <2>5, <2>7 DEF CountedLive
  <2>9. SoleInv'
    <3>1. \A o \in Objects : IsSole(thread'[t], o) =>
            /\ alloc'[o] = "live" /\ refCount'[o] = 0
            /\ \A u \in Threads \ {t} : ~ IsSole(thread[u], o)
      BY <1>1, <1>10, <2>1, <2>5, <2>7
    <3>2. \A o \in Objects : \A u \in Threads \ {t} : IsSole(thread[u], o) => alloc'[o] = "live" /\ refCount'[o] = 0
      BY <1>1, <1>2, <2>5, <2>7 DEF SoleInv
    <3> QED
      BY <1>2, <1>6, <3>1, <3>2, SoleStep
  <2>10. TypeOK'
    BY <1>1, <1>2, <1>6, <2>5 DEF TypeOK
  <2> QED
    BY <2>2, <2>6, <2>8, <2>9, <2>10 DEF IInv
<1> QED
  BY <1>12, <1>13

LEMMA FreeObjectStep ==
  ASSUME IInv, NEW t \in Threads, FreeObject(t)
  PROVE  IInv'
<1> DEFINE th == thread[t]
<1>1. /\ th.pc = "free"
      /\ alloc' = [alloc EXCEPT ![th.obj] = "freed"]
      /\ Goto(t, th.next)
      /\ UNCHANGED <<ptr, owner, refCount>>
  BY DEF FreeObject
<1>2. TypeOK /\ ThreadsOK /\ RefCountExact /\ CountedLive /\ SoleInv
  BY DEF IInv
<1>3. StateOK(t, th) /\ th \in ThreadStates
  BY <1>2 DEF TypeOK, ThreadsOK
<1>4. /\ th.dst \in Handles /\ owner[th.dst] = t /\ th.obj # Null
      /\ th.obj \in Objects \cup {Null} /\ th.next \in {"idle", "copy", "move", "clear"}
      /\ th.src # Null => th.src \in Handles /\ owner[th.src] = t
      /\ th.next \in {"copy", "move"} => th.src # Null /\ th.src # th.dst
  BY <1>1, <1>3, StateFields DEF StateOK
<1> PICK x \in Objects : x = th.obj
  BY <1>4
<1>5. PICK pc \in {"idle", "copy", "move", "clear"} : pc = th.next
  BY <1>4
<1>6. /\ thread' \in [Threads -> ThreadStates]
      /\ \A u \in Threads \ {t} : thread'[u] = thread[u]
      /\ thread'[t].pc = pc
      /\ IF pc = "idle" THEN thread'[t] = Idle
         ELSE /\ thread'[t].dst = th.dst /\ thread'[t].src = th.src
              /\ thread'[t].obj = th.obj /\ thread'[t].next = th.next
  <2>1. pc \in Steps
    BY DEF Steps
  <2>2. Goto(t, pc)
    BY <1>1, <1>5
  <2> QED
    BY <1>2, <2>1, <2>2, GotoState
<1>7. StateOK(t, thread[t])'
  <2>1. CASE pc = "idle"
    BY <1>6, <2>1, IdleState DEF StateOK
  <2>2. CASE pc # "idle"
    BY <1>1, <1>4, <1>5, <1>6, <2>2 DEF StateOK
  <2> QED
    BY <2>1, <2>2
<1>8. \A h \in Handles : Uncounts(thread'[t], h) <=> Uncounts(thread[t], h)
  <2>1. CASE pc = "idle"
    BY <1>1, <1>5, <1>6, <2>1, IdleState DEF Uncounts
  <2>2. CASE pc # "idle"
    BY <1>1, <1>5, <1>6, <2>2 DEF Uncounts
  <2> QED
    BY <2>1, <2>2
<1>9. \A o \in Objects : ~ Holds(thread[t], o) /\ ~ Holds(thread'[t], o) /\ ~ IsSole(thread'[t], o)
  BY <1>1, <1>6 DEF Holds, IsSole
<1>10. ThreadsOK'
  BY <1>1, <1>2, <1>6, <1>7, ThreadStep
<1>11. ASSUME NEW o \in Objects
       PROVE  HandlesOf(o)' = HandlesOf(o) /\ TemporariesOf(o)' = TemporariesOf(o)
  <2>1. /\ HandlesOf(o) \subseteq Handles /\ HandlesOf(o)' \subseteq Handles
        /\ TemporariesOf(o) \subseteq Threads /\ TemporariesOf(o)' \subseteq Threads
        /\ \A h \in Handles :
             IF owner[h] = t
             THEN /\ h \in HandlesOf(o) <=> ptr[h] = o /\ ~ Uncounts(thread[t], h)
                  /\ h \in HandlesOf(o)' <=> ptr'[h] = o /\ ~ Uncounts(thread'[t], h)
             ELSE h \in HandlesOf(o)' <=> h \in HandlesOf(o)
        /\ t \in TemporariesOf(o) <=> Holds(thread[t], o)
        /\ t \in TemporariesOf(o)' <=> Holds(thread'[t], o)
        /\ \A u \in Threads \ {t} : u \in TemporariesOf(o)' <=> u \in TemporariesOf(o)
    BY <1>1, <1>2, <1>6, <1>7, ReferencesStep
  <2> QED
    BY <1>1, <1>8, <1>9, <2>1
<1>12. RefCountExact'
  BY <1>1, <1>2, <1>11 DEF RefCountExact
<1>13. /\ refCount[x] = 0
       /\ \A u \in Threads \ {t} : ~ IsSole(thread[u], x)
       /\ alloc' \in [Objects -> {"new", "live", "freed"}]
       /\ \A o \in Objects \ {x} : alloc'[o] = alloc[o]
  <2>1. IsSole(thread[t], x)
    BY <1>1 DEF IsSole
  <2>2. refCount[x] = 0 /\ \A u \in Threads \ {t} : ~ IsSole(thread[u], x)
    BY <1>2, <2>1 DEF SoleInv
  <2> QED
    BY <1>1, <1>2, <2>2 DEF TypeOK
<1>14. CountedLive'
  BY <1>1, <1>2, <1>13 DEF CountedLive
<1>15. SoleInv'
  <2>1. \A o \in Objects : \A u \in Threads \ {t} : IsSole(thread[u], o) => alloc'[o] = "live" /\ refCount'[o] = 0
    BY <1>1, <1>2, <1>13 DEF SoleInv
  <2> QED
    BY <1>2, <1>6, <1>9, <2>1, SoleStep
<1>16. TypeOK'
  BY <1>1, <1>2, <1>6, <1>13 DEF TypeOK
<1> QED
  BY <1>10, <1>12, <1>14, <1>15, <1>16 DEF IInv

\* The pointer of s goes to d, which held no reference.
LEMMA TransferStep ==
  ASSUME IInv, NEW t \in Threads, NEW d \in Handles, NEW s \in Handles,
         d # s, owner[d] = t, owner[s] = t,
         ptr' = [ptr EXCEPT ![d] = ptr[s], ![s] = Null],
         thread' \in [Threads -> ThreadStates],
         thread'[t] = Idle,
         \A u \in Threads \ {t} : thread'[u] = thread[u],
         UNCHANGED <<owner, refCount, alloc>>,
         Uncounts(thread[t], d) \/ ptr[d] = Null,
         \A h \in Handles \ {d} : ~ Uncounts(thread[t], h),
         \A o \in Objects : ~ Holds(thread[t], o)
  PROVE  IInv'
<1>1. TypeOK /\ ThreadsOK /\ RefCountExact /\ CountedLive /\ SoleInv
  BY DEF IInv
<1>2. StateOK(t, thread[t])'
  BY IdleState DEF StateOK
<1>3. /\ ptr' \in [Handles -> Objects \cup {Null}]
      /\ ptr'[d] = ptr[s] /\ ptr'[s] = Null
      /\ \A h \in Handles \ {d, s} : ptr'[h] = ptr[h]
  BY <1>1 DEF TypeOK
<1>4. /\ \A h \in Handles : ~ Uncounts(thread'[t], h)
      /\ \A o \in Objects : ~ Holds(thread'[t], o) /\ ~ IsSole(thread'[t], o)
  BY IdleState DEF Uncounts, Holds, IsSole
<1>5. ThreadsOK'
  BY <1>1, <1>2, <1>3, ThreadStep
<1>6. ASSUME NEW o \in Objects
      PROVE  /\ TemporariesOf(o)' = TemporariesOf(o)
             /\ ptr[s] # o => HandlesOf(o)' = HandlesOf(o)
             /\ ptr[s] = o => /\ s \in HandlesOf(o) /\ d \notin HandlesOf(o)
                              /\ HandlesOf(o)' = (HandlesOf(o) \ {s}) \cup {d}
  <2>1. /\ HandlesOf(o) \subseteq Handles /\ HandlesOf(o)' \subseteq Handles
        /\ TemporariesOf(o) \subseteq Threads /\ TemporariesOf(o)' \subseteq Threads
        /\ \A h \in Handles :
             IF owner[h] = t
             THEN /\ h \in HandlesOf(o) <=> ptr[h] = o /\ ~ Uncounts(thread[t], h)
                  /\ h \in HandlesOf(o)' <=> ptr'[h] = o /\ ~ Uncounts(thread'[t], h)
             ELSE h \in HandlesOf(o)' <=> h \in HandlesOf(o)
        /\ t \in TemporariesOf(o) <=> Holds(thread[t], o)
        /\ t \in TemporariesOf(o)' <=> Holds(thread'[t], o)
        /\ \A u \in Threads \ {t} : u \in TemporariesOf(o)' <=> u \in TemporariesOf(o)
    BY <1>1, <1>2, <1>3, ReferencesStep
  <2>2. TemporariesOf(o)' = TemporariesOf(o)
    BY <1>4, <2>1
  <2>3. /\ d \notin HandlesOf(o) /\ (d \in HandlesOf(o)' <=> ptr[s] = o)
        /\ (s \in HandlesOf(o) <=> ptr[s] = o) /\ s \notin HandlesOf(o)'
    BY <1>3, <1>4, <2>1, RefCountAssumption
  <2>4. \A h \in Handles \ {d, s} : h \in HandlesOf(o)' <=> h \in HandlesOf(o)
    BY <1>3, <1>4, <2>1
  <2> QED
    BY <2>1, <2>2, <2>3, <2>4
<1>7. ASSUME NEW o \in Objects PROVE (refCount[o] = Cardinality(HandlesOf(o)) + Cardinality(TemporariesOf(o)))'
  <2>1. refCount[o] = Cardinality(HandlesOf(o)) + Cardinality(TemporariesOf(o))
    BY <1>1 DEF RefCountExact
  <2>2. Cardinality(HandlesOf(o)') = Cardinality(HandlesOf(o))
    BY <1>6, CountsStep
  <2> QED
    BY <1>6, <2>1, <2>2
<1>8. RefCountExact'
  BY <1>7 DEF RefCountExact
<1>9. CountedLive'
  BY <1>1 DEF CountedLive
<1>10. SoleInv'
  <2>1. \A o \in Objects : \A u \in Threads \ {t} : IsSole(thread[u], o) => alloc'[o] = "live" /\ refCount'[o] = 0
    BY <1>1 DEF SoleInv
  <2> QED
    BY <1>1, <1>4, <2>1, SoleStep
<1>11. TypeOK'
  BY <1>1, <1>3 DEF TypeOK
<1> QED
  BY <1>5, <1>8, <1>9, <1>10, <1>11 DEF IInv

LEMMA MoveConstructStep ==
  ASSUME IInv, NEW t \in Threads, NEW d \in Handles, NEW s \in Handles, MoveConstruct(t, d, s)
  PROVE  IInv'
<1>1. /\ owner[d] = t /\ owner[s] = t /\ thread[t] = Idle /\ d # s /\ ptr[d] = Null
      /\ ptr' = [ptr EXCEPT ![d] = ptr[s], ![s] = Null]
      /\ UNCHANGED <<owner, refCount, alloc, thread>>
  BY DEF MoveConstruct, MayUse
<1>2. thread' \in [Threads -> ThreadStates]
  BY <1>1 DEF IInv, TypeOK
<1>3. (\A h \in Handles : ~ Uncounts(thread[t], h)) /\ (\A o \in Objects : ~ Holds(thread[t], o))
  BY <1>1, IdleState DEF Uncounts, Holds
<1> QED
  BY <1>1, <1>2, <1>3, TransferStep

LEMMA MoveStep ==
  ASSUME IInv, NEW t \in Threads, Move(t)
  PROVE  IInv'
<1> DEFINE th == thread[t]
<1>1. /\ th.pc = "move"
      /\ ptr' = [ptr EXCEPT ![th.dst] = ptr[th.src], ![th.src] = Null]
      /\ Goto(t, "idle")
      /\ UNCHANGED <<owner, refCount, alloc>>
  BY DEF Move
<1>2. TypeOK /\ StateOK(t, th) /\ th \in ThreadStates
  BY DEF IInv, TypeOK, ThreadsOK
<1>3. /\ th.dst \in Handles /\ owner[th.dst] = t /\ th.src \in Handles /\ owner[th.src] = t
      /\ th.src # th.dst
  <2>1. th.dst \in Handles /\ owner[th.dst] = t /\ th.next = "move"
    BY <1>1, <1>2 DEF StateOK
  <2> QED
    BY <1>2, <2>1 DEF StateOK
<1>4. /\ thread' \in [Threads -> ThreadStates]
      /\ thread'[t] = Idle
      /\ \A u \in Threads \ {t} : thread'[u] = thread[u]
  BY <1>1, <1>2, GotoState DEF Steps
<1>5. /\ \A h \in Handles : Uncounts(thread[t], h) <=> h = th.dst
      /\ \A o \in Objects : ~ Holds(thread[t], o)
  BY <1>1 DEF Uncounts, Holds
<1>6. PICK d \in Handles, s \in Handles : d = th.dst /\ s = th.src
  BY <1>3
<1> QED
  BY <1>1, <1>3, <1>4, <1>5, <1>6, TransferStep

\* A new object gets its first handle, which is counted next.
LEMMA CreateStep ==
  ASSUME IInv, NEW t \in Threads, NEW d \in Handles, Create(t, d)
  PROVE  IInv'
<1>1. /\ owner[d] = t /\ thread[t] = Idle /\ ptr[d] = Null
      /\ UNCHANGED <<owner, refCount>>
  BY DEF Create, MayUse
<1>2. PICK x \in Objects :
        /\ alloc[x] = "new"
        /\ alloc' = [alloc EXCEPT ![x] = "live"]
        /\ ptr' = [ptr EXCEPT ![d] = x]
        /\ Become(t, Busy("incref", d, Null, x, "idle"))
  BY DEF Create
<1>3. TypeOK /\ ThreadsOK /\ RefCountExact /\ CountedLive /\ SoleInv
  BY DEF IInv
<1>4. /\ Busy("incref", d, Null, x, "idle") \in ThreadStates
      /\ Busy("incref", d, Null, x, "idle").pc = "incref"
      /\ Busy("incref", d, Null, x, "idle").dst = d
      /\ Busy("incref", d, Null, x, "idle").src = Null
      /\ Busy("incref", d, Null, x, "idle").obj = x
      /\ Busy("incref", d, Null, x, "idle").next = "idle"
  BY BusyState DEF Steps
<1>5. /\ thread' \in [Threads -> ThreadStates]
      /\ thread'[t] = Busy("incref", d, Null, x, "idle")
      /\ \A u \in Threads \ {t} : thread'[u] = thread[u]
  BY <1>2, <1>3, <1>4, BecomeState
<1>6. /\ ptr' \in [Handles -> Objects \cup {Null}]
      /\ ptr'[d] = x
      /\ \A h \in Handles \ {d} : ptr'[h] = ptr[h]
      /\ alloc' \in [Objects -> {"new", "live", "freed"}]
      /\ alloc'[x] = "live"
      /\ \A o \in Objects \ {x} : alloc'[o] = alloc[o]
  BY <1>2, <1>3 DEF TypeOK
<1>7. StateOK(t, thread[t])'
  BY <1>1, <1>4, <1>5, <1>6, RefCountAssumption DEF StateOK
<1>8. /\ \A h \in Handles : Uncounts(thread'[t], h) <=> h = d
      /\ \A h \in Handles : ~ Uncounts(thread[t], h)
  BY <1>1, <1>4, <1>5, IdleState DEF Uncounts
<1>9. \A o \in Objects : ~ Holds(thread'[t], o) /\ ~ Holds(thread[t], o) /\ (IsSole(thread'[t], o) => o = x)
  BY <1>1, <1>4, <1>5, IdleState DEF Holds, IsSole
<1>10. ThreadsOK'
  BY <1>1, <1>3, <1>5, <1>6, <1>7, ThreadStep
<1>11. ASSUME NEW o \in Objects
       PROVE  HandlesOf(o)' = HandlesOf(o) /\ TemporariesOf(o)' = TemporariesOf(o)
  <2>1. /\ HandlesOf(o) \subseteq Handles /\ HandlesOf(o)' \subseteq Handles
        /\ TemporariesOf(o) \subseteq Threads /\ TemporariesOf(o)' \subseteq Threads
        /\ \A h \in Handles :
             IF owner[h] = t
             THEN /\ h \in HandlesOf(o) <=> ptr[h] = o /\ ~ Uncounts(thread[t], h)
                  /\ h \in HandlesOf(o)' <=> ptr'[h] = o /\ ~ Uncounts(thread'[t], h)
             ELSE h \in HandlesOf(o)' <=> h \in HandlesOf(o)
        /\ t \in TemporariesOf(o) <=> Holds(thread[t], o)
        /\ t \in TemporariesOf(o)' <=> Holds(thread'[t], o)
        /\ \A u \in Threads \ {t} : u \in TemporariesOf(o)' <=> u \in TemporariesOf(o)
    BY <1>1, <1>3, <1>5, <1>6, <1>7, ReferencesStep
  <2>2. TemporariesOf(o)' = TemporariesOf(o)
    BY <1>9, <2>1
  <2>3. d \notin HandlesOf(o) /\ d \notin HandlesOf(o)'
    BY <1>1, <1>8, <2>1, RefCountAssumption
  <2>4. \A h \in Handles \ {d} : h \in HandlesOf(o)' <=> h \in HandlesOf(o)
    BY <1>1, <1>6, <1>8, <2>1
  <2> QED
    BY <2>1, <2>2, <2>3, <2>4
<1>12. RefCountExact'
  BY <1>1, <1>3, <1>11 DEF RefCountExact
<1>13. refCount[x] = 0 /\ \A u \in Threads : ~ IsSole(thread[u], x)
  BY <1>2, <1>3 DEF CountedLive, SoleInv, TypeOK
<1>14. CountedLive'
  BY <1>1, <1>3, <1>6, <1>13 DEF CountedLive
<1>15. SoleInv'
  <2>1. \A o \in Objects : \A u \in Threads \ {t} : IsSole(thread[u], o) => alloc'[o] = "live" /\ refCount'[o] = 0
    BY <1>1, <1>3, <1>6, <1>13 DEF SoleInv
  <2>2. \A o \in Objects : IsSole(thread'[t], o) =>
          /\ alloc'[o] = "live" /\ refCount'[o] = 0
          /\ \A u \in Threads \ {t} : ~ IsSole(thread[u], o)
    BY <1>1, <1>6, <1>9, <1>13
  <2> QED
    BY <1>3, <1>5, <2>1, <2>2, SoleStep
<1>16. TypeOK'
  BY <1>1, <1>3, <1>5, <1>6 DEF TypeOK
<1> QED
  BY <1>10, <1>12, <1>14, <1>15, <1>16 DEF IInv

\* The reference of d goes to the temporary, that of s to d.
LEMMA RtMoveAssignStep ==
  ASSUME IInv, NEW t \in Threads, NEW d \in Handles, NEW s \in Handles, d # s, RtMoveAssign(t, d, s)
  PROVE  IInv'
<1>1. /\ owner[d] = t /\ owner[s] = t /\ thread[t] = Idle
      /\ ptr' = [ptr EXCEPT ![d] = ptr[s], ![s] = Null]
      /\ Become(t, Busy("decref", d, s, ptr[d], "idle"))
      /\ UNCHANGED <<owner, refCount, alloc>>
  BY DEF RtMoveAssign, MayUse
<1>2. TypeOK /\ ThreadsOK /\ RefCountExact /\ CountedLive /\ SoleInv
  BY DEF IInv
<1>3. PICK a \in Objects \cup {Null}, b \in Objects \cup {Null} : a = ptr[d] /\ b = ptr[s]
  BY <1>2 DEF TypeOK
<1>4. /\ Busy("decref", d, s, a, "idle") \in ThreadStates
      /\ Busy("decref", d, s, a, "idle").pc = "decref"
      /\ Busy("decref", d, s, a, "idle").dst = d
      /\ Busy("decref", d, s, a, "idle").src = s
      /\ Busy("decref", d, s, a, "idle").obj = a
      /\ Busy("decref", d, s, a, "idle").next = "idle"
  BY BusyState DEF Steps
<1>5. /\ thread' \in [Threads -> ThreadStates]
      /\ thread'[t] = Busy("decref", d, s, a, "idle")
      /\ \A u \in Threads \ {t} : thread'[u] = thread[u]
  BY <1>1, <1>2, <1>3, <1>4, BecomeState
<1>6. /\ ptr' \in [Handles -> Objects \cup {Null}]
      /\ ptr'[d] = b /\ ptr'[s] = Null
      /\ \A h \in Handles \ {d, s} : ptr'[h] = ptr[h]
  BY <1>1, <1>2, <1>3 DEF TypeOK
<1>7. StateOK(t, thread[t])'
  BY <1>1, <1>4, <1>5 DEF StateOK
<1>8. \A h \in Handles : ~ Uncounts(thread'[t], h) /\ ~ Uncounts(thread[t], h)
  BY <1>1, <1>4, <1>5, IdleState DEF Uncounts
<1>9. \A o \in Objects : /\ Holds(thread'[t], o) <=> o = a
                         /\ ~ Holds(thread[t], o) /\ ~ IsSole(thread'[t], o)
  BY <1>1, <1>4, <1>5, IdleState DEF Holds, IsSole
<1>10. ThreadsOK'
  BY <1>1, <1>2, <1>5, <1>6, <1>7, ThreadStep
<1>11. ASSUME NEW o \in Objects
       PROVE  /\ o # a => TemporariesOf(o)' = TemporariesOf(o)
              /\ o = a => t \notin TemporariesOf(o) /\ TemporariesOf(o)' = TemporariesOf(o) \cup {t}
              /\ o # a /\ o # b => HandlesOf(o)' = HandlesOf(o)
              /\ o = a /\ o # b => d \in HandlesOf(o) /\ HandlesOf(o)' = HandlesOf(o) \ {d}
              /\ o = a /\ o = b => s \in HandlesOf(o) /\ HandlesOf(o)' = HandlesOf(o) \ {s}
              /\ o # a /\ o = b => /\ s \in HandlesOf(o) /\ d \notin HandlesOf(o)
                                   /\ HandlesOf(o)' = (HandlesOf(o) \ {s}) \cup {d}
  <2>1. /\ HandlesOf(o) \subseteq Handles /\ HandlesOf(o)' \subseteq Handles
        /\ TemporariesOf(o) \subseteq Threads /\ TemporariesOf(o)' \subseteq Threads
        /\ \A h \in Handles :
             IF owner[h] = t
             THEN /\ h \in HandlesOf(o) <=> ptr[h] = o /\ ~ Uncounts(thread[t], h)
                  /\ h \in HandlesOf(o)' <=> ptr'[h] = o /\ ~ Uncounts(thread'[t], h)
             ELSE h \in HandlesOf(o)' <=> h \in HandlesOf(o)
        /\ t \in TemporariesOf(o) <=> Holds(thread[t], o)
        /\ t \in TemporariesOf(o)' <=> Holds(thread'[t], o)
        /\ \A u \in Threads \ {t} : u \in TemporariesOf(o)' <=> u \in TemporariesOf(o)
    BY <1>1, <1>2, <1>5, <1>6, <1>7, ReferencesStep
  <2>2. /\ o # a => TemporariesOf(o)' = TemporariesOf(o)
        /\ o = a => t \notin TemporariesOf(o) /\ TemporariesOf(o)' = TemporariesOf(o) \cup {t}
    BY <1>9, <2>1
  <2>3. /\ d \in HandlesOf(o) <=> o = a
        /\ d \in HandlesOf(o)' <=> o = b
        /\ s \in HandlesOf(o) <=> o = b
        /\ s \notin HandlesOf(o)'
    BY <1>1, <1>3, <1>6, <1>8, <2>1, RefCountAssumption
  <2>4. \A h \in Handles \ {d, s} : h \in HandlesOf(o)' <=> h \in HandlesOf(o)
    BY <1>6, <1>8, <2>1
  <2>5. HandlesOf(o) \subseteq Handles /\ HandlesOf(o)' \subseteq Handles
    BY <2>1
  <2> QED
    BY <2>2, <2>3, <2>4, <2>5
<1>12. ASSUME NEW o \in Objects PROVE (refCount[o] = Cardinality(HandlesOf(o)) + Cardinality(TemporariesOf(o)))'
  <2>1. refCount[o] = Cardinality(HandlesOf(o)) + Cardinality(TemporariesOf(o)) /\ refCount'[o] = refCount[o]
    BY <1>1, <1>2 DEF RefCountExact
  <2>2. CASE o # a /\ o # b
    BY <1>11, <2>1, <2>2
  <2>3. CASE o # a /\ o = b
    <3>1. Cardinality(HandlesOf(o)') = Cardinality(HandlesOf(o))
      BY <1>11, <2>3, CountsStep
    <3> QED
      BY <1>11, <2>1, <2>3, <3>1
  <2>4. CASE o = a
    <3>1. /\ Cardinality(TemporariesOf(o)') = Cardinality(TemporariesOf(o)) + 1
          /\ Cardinality(HandlesOf(o)) \in Nat /\ Cardinality(TemporariesOf(o)) \in Nat
      BY <1>11, <2>4, CountsStep
    <3>2. Cardinality(HandlesOf(o)') = Cardinality(HandlesOf(o)) - 1
      <4>1. CASE o = b
        BY <1>11, <2>4, <4>1, CountsStep
      <4>2. CASE o # b
        BY <1>11, <2>4, <4>2, CountsStep
      <4> QED
        BY <4>1, <4>2
    <3> QED
      BY <2>1, <3>1, <3>2
  <2> QED
    BY <2>2, <2>3, <2>4
<1>13. RefCountExact'
  BY <1>12 DEF RefCountExact
<1>14. CountedLive'
  BY <1>1, <1>2 DEF CountedLive
<1>15. SoleInv'
  <2>1. \A o \in Objects : \A u \in Threads \ {t} : IsSole(thread[u], o) => alloc'[o] = "live" /\ refCount'[o] = 0
    BY <1>1, <1>2 DEF SoleInv
  <2> QED
    BY <1>2, <1>5, <1>9, <2>1, SoleStep
<1>16. TypeOK'
  BY <1>1, <1>2, <1>5, <1>6 DEF TypeOK
<1> QED
  BY <1>10, <1>13, <1>14, <1>15, <1>16 DEF IInv

\* The reference of d goes to the temporary, d and s share that of s, which is
\* counted once more; d and s may be one handle.
LEMMA RtIncrefStep ==
  ASSUME IInv, NEW t \in Threads, RtIncref(t)
  PROVE  IInv'
<1>1. /\ thread[t].pc = "rtIncref"
      /\ refCount' = Counted(refCount, thread[t].obj, 1)
      /\ ptr' = [ptr EXCEPT ![thread[t].dst] = thread[t].obj]
      /\ Become(t, Busy("decref", thread[t].dst, thread[t].src, ptr[thread[t].dst], "idle"))
      /\ UNCHANGED <<owner, alloc>>
  BY DEF RtIncref
<1>2. TypeOK /\ ThreadsOK /\ RefCountExact /\ CountedLive /\ SoleInv
  BY DEF IInv
<1>3. /\ thread[t].dst \in Handles /\ owner[thread[t].dst] = t
      /\ thread[t].src \in Handles /\ owner[thread[t].src] = t
      /\ ptr[thread[t].src] = thread[t].obj
  BY <1>1, <1>2 DEF ThreadsOK, StateOK
<1>4. PICK d \in Handles, s \in Handles, a \in Objects \cup {Null}, b \in Objects \cup {Null} :
        /\ d = thread[t].dst /\ s = thread[t].src /\ a = ptr[d] /\ b = ptr[s]
  BY <1>2, <1>3 DEF TypeOK
<1>5. /\ Busy("decref", d, s, a, "idle") \in ThreadStates
      /\ Busy("decref", d, s, a, "idle").pc = "decref"
      /\ Busy("decref", d, s, a, "idle").dst = d
      /\ Busy("decref", d, s, a, "idle").src = s
      /\ Busy("decref", d, s, a, "idle").obj = a
      /\ Busy("decref", d, s, a, "idle").next = "idle"
  BY BusyState DEF Steps
<1>6. /\ thread' \in [Threads -> ThreadStates]
      /\ thread'[t] = Busy("decref", d, s, a, "idle")
      /\ \A u \in Threads \ {t} : thread'[u] = thread[u]
  BY <1>1, <1>2, <1>4, <1>5, BecomeState
<1>7. /\ ptr' \in [Handles -> Objects \cup {Null}]
      /\ ptr'[d] = b
      /\ \A h \in Handles \ {d} : ptr'[h] = ptr[h]
  BY <1>1, <1>2, <1>3, <1>4 DEF TypeOK
<1>8. StateOK(t, thread[t])'
  BY <1>1, <1>3, <1>4, <1>5, <1>6 DEF StateOK
<1>9. \A h \in Handles : ~ Uncounts(thread'[t], h) /\ ~ Uncounts(thread[t], h)
  BY <1>1, <1>5, <1>6 DEF Uncounts
<1>10. \A o \in Objects : /\ Holds(thread'[t], o) <=> o = a
                          /\ ~ Holds(thread[t], o) /\ ~ IsSole(thread'[t], o)
  BY <1>1, <1>5, <1>6 DEF Holds, IsSole
<1>11. ThreadsOK'
  BY <1>1, <1>2, <1>3, <1>4, <1>6, <1>7, <1>8, ThreadStep
<1>12. ASSUME NEW o \in Objects
       PROVE  /\ o # a => TemporariesOf(o)' = TemporariesOf(o)
              /\ o = a => t \notin TemporariesOf(o) /\ TemporariesOf(o)' = TemporariesOf(o) \cup {t}
              /\ (o = a <=> o = b) => HandlesOf(o)' = HandlesOf(o)
              /\ o = a /\ o # b => d \in HandlesOf(o) /\ HandlesOf(o)' = HandlesOf(o) \ {d}
              /\ o # a /\ o = b => d \notin HandlesOf(o) /\ HandlesOf(o)' = HandlesOf(o) \cup {d}
  <2>1. /\ HandlesOf(o) \subseteq Handles /\ HandlesOf(o)' \subseteq Handles
        /\ TemporariesOf(o) \subseteq Threads /\ TemporariesOf(o)' \subseteq Threads
        /\ \A h \in Handles :
             IF owner[h] = t
             THEN /\ h \in HandlesOf(o) <=> ptr[h] = o /\ ~ Uncounts(thread[t], h)
                  /\ h \in HandlesOf(o)' <=> ptr'[h] = o /\ ~ Uncounts(thread'[t], h)
             ELSE h \in HandlesOf(o)' <=> h \in HandlesOf(o)
        /\ t \in TemporariesOf(o) <=> Holds(thread[t], o)
        /\ t \in TemporariesOf(o)' <=> Holds(thread'[t], o)
        /\ \A u \in Threads \ {t} : u \in TemporariesOf(o)' <=> u \in TemporariesOf(o)
    BY <1>1, <1>2, <1>3, <1>4, <1>6, <1>7, <1>8, ReferencesStep
  <2>2. /\ o # a => TemporariesOf(o)' = TemporariesOf(o)
        /\ o = a => t \notin TemporariesOf(o) /\ TemporariesOf(o)' = TemporariesOf(o) \cup {t}
    BY <1>10, <2>1
  <2>3. /\ d \in HandlesOf(o) <=> o = a
        /\ d \in HandlesOf(o)' <=> o = b
    BY <1>3, <1>4, <1>7, <1>9, <2>1
  <2>4. \A h \in Handles \ {d} : h \in HandlesOf(o)' <=> h \in HandlesOf(o)
    BY <1>7, <1>9, <2>1
  <2>5. HandlesOf(o) \subseteq Handles /\ HandlesOf(o)' \subseteq Handles
    BY <2>1
  <2> QED
    BY <2>2, <2>3, <2>4, <2>5
<1>13. /\ refCount' \in [Objects -> Nat]
       /\ \A o \in Objects : refCount'[o] = IF o = b THEN refCount[o] + 1 ELSE refCount[o]
  <2>1. refCount' = Counted(refCount, b, 1)
    BY <1>1, <1>3, <1>4
  <2>2. CASE b = Null
    BY <1>2, <2>1, <2>2, RefCountAssumption DEF Counted, TypeOK
  <2>3. CASE b # Null
    <3>1. b \in Objects /\ refCount' = [refCount EXCEPT ![b] = @ + 1]
      BY <2>1, <2>3 DEF Counted
    <3> QED
      BY <1>2, <3>1 DEF TypeOK
  <2> QED
    BY <2>2, <2>3
<1>14. ASSUME NEW o \in Objects PROVE (refCount[o] = Cardinality(HandlesOf(o)) + Cardinality(TemporariesOf(o)))'
  <2>1. /\ refCount[o] = Cardinality(HandlesOf(o)) + Cardinality(TemporariesOf(o))
        /\ Cardinality(HandlesOf(o)) \in Nat /\ Cardinality(TemporariesOf(o)) \in Nat
    BY <1>2, CountsStep DEF RefCountExact
  <2>2. o = a => Cardinality(TemporariesOf(o)') = Cardinality(TemporariesOf(o)) + 1
    BY <1>12, CountsStep
  <2>3. o = a /\ o # b => Cardinality(HandlesOf(o)') = Cardinality(HandlesOf(o)) - 1
    BY <1>12, CountsStep
  <2>4. o # a /\ o = b => Cardinality(HandlesOf(o)') = Cardinality(HandlesOf(o)) + 1
    BY <1>12, CountsStep
  <2>5. (o = a <=> o = b) => Cardinality(HandlesOf(o)') = Cardinality(HandlesOf(o))
    BY <1>12
  <2>6. o # a => Cardinality(TemporariesOf(o)') = Cardinality(TemporariesOf(o))
    BY <1>12
  <2>7. refCount'[o] = IF o = b THEN refCount[o] + 1 ELSE refCount[o]
    BY <1>13
  <2> QED
    BY <2>1, <2>2, <2>3, <2>4, <2>5, <2>6, <2>7
<1>15. RefCountExact'
  BY <1>14 DEF RefCountExact
<1>16. b \in Objects => refCount[b] > 0 /\ alloc[b] = "live" /\ \A u \in Threads : ~ IsSole(thread[u], b)
  <2> HAVE b \in Objects
  <2>1. refCount[b] > 0
    BY <1>3, <1>4, <1>9, SourceCounted, RefCountAssumption
  <2> QED
    BY <1>2, <2>1 DEF CountedLive, SoleInv
<1>17. CountedLive'
  BY <1>1, <1>2, <1>13, <1>16 DEF CountedLive
<1>18. SoleInv'
  <2>1. \A o \in Objects : \A u \in Threads \ {t} : IsSole(thread[u], o) => alloc'[o] = "live" /\ refCount'[o] = 0
    BY <1>1, <1>2, <1>13, <1>16 DEF SoleInv
  <2> QED
    BY <1>2, <1>6, <1>10, <2>1, SoleStep
<1>19. TypeOK'
  BY <1>1, <1>2, <1>6, <1>7, <1>13 DEF TypeOK
<1> QED
  BY <1>11, <1>15, <1>17, <1>18, <1>19 DEF IInv

-----------------------------------------------------------------------------
\* The invariant

LEMMA InitInv == Init => IInv
<1> SUFFICES ASSUME Init PROVE IInv
  OBVIOUS
<1>1. /\ ptr = [h \in Handles |-> Null] /\ owner \in [Handles -> Threads]
      /\ refCount = [o \in Objects |-> 0] /\ alloc = [o \in Objects |-> "new"]
      /\ thread = [t \in Threads |-> Idle]
  BY DEF Init
<1>2. TypeOK
  BY <1>1, IdleState DEF TypeOK
<1>3. ThreadsOK
  BY <1>1, IdleState DEF ThreadsOK, StateOK
<1>4. RefCountExact
  <2>1. ASSUME NEW o \in Objects PROVE HandlesOf(o) = {} /\ TemporariesOf(o) = {}
    BY <1>1, IdleState, RefCountAssumption DEF HandlesOf, TemporariesOf
  <2>2. Cardinality({}) = 0
    BY FS_EmptySet
  <2> QED
    BY <1>1, <2>1, <2>2 DEF RefCountExact
<1>5. CountedLive
  BY <1>1 DEF CountedLive
<1>6. SoleInv
  BY <1>1, IdleState DEF SoleInv, IsSole
<1> QED
  BY <1>2, <1>3, <1>4, <1>5, <1>6 DEF IInv

LEMMA NextInv == IInv /\ [Next]_vars => IInv'
<1> SUFFICES ASSUME IInv, [Next]_vars PROVE IInv'
  OBVIOUS
<1>1. CASE UNCHANGED vars
  <2>1. UNCHANGED <<ptr, owner, refCount, alloc, thread>>
    BY <1>1 DEF vars
  <2> QED
    BY <2>1 DEF IInv, TypeOK, ThreadsOK, StateOK, RefCountExact, HandlesOf, TemporariesOf, IsUncounted,
                CountedLive, SoleInv, IsSole
<1>2. ASSUME NEW t \in Threads, NEW d \in Handles, Create(t, d) \/ Destroy(t, d) PROVE IInv'
  <2>1. CASE Create(t, d)
    BY <2>1, CreateStep
  <2>2. CASE Destroy(t, d)
    <3>1. thread[t] = Idle /\ owner[d] = t /\ Become(t, Busy("decref", d, Null, ptr[d], "clear"))
          /\ UNCHANGED <<ptr, owner, refCount, alloc>>
      BY <2>2 DEF Destroy, MayUse
    <3> QED
      BY <3>1, BeginDecrefStep
  <2> QED
    BY <1>2, <2>1, <2>2
<1>3. ASSUME NEW t \in Threads, NEW d \in Handles, NEW s \in Handles,
             CopyAssign(t, d, s) \/ MoveAssign(t, d, s)
      PROVE  IInv'
  <2>1. PICK next \in {"copy", "move", "clear"} :
          /\ Become(t, Busy("decref", d, s, ptr[d], next))
          /\ thread[t] = Idle /\ owner[d] = t /\ owner[s] = t /\ d # s /\ s # Null
          /\ UNCHANGED <<ptr, owner, refCount, alloc>>
    BY <1>3, RefCountAssumption DEF CopyAssign, MoveAssign, MayUse
  <2> QED
    BY <2>1, BeginDecrefStep
<1>4. ASSUME NEW t \in Threads, NEW d \in Handles, NEW s \in Handles,
             CopyConstruct(t, d, s) \/ MoveConstruct(t, d, s) \/ RtCopyAssign(t, d, s)
      PROVE  IInv'
  BY <1>4, CopyConstructStep, MoveConstructStep, RtCopyAssignStep
<1>5. ASSUME NEW t \in Threads, NEW d \in Handles, NEW s \in Handles, RtMoveAssign(t, d, s)
      PROVE  IInv'
  <2>1. CASE d = s
    <3>1. /\ thread[t] = Idle /\ owner[d] = t /\ ptr' = ptr /\ Become(t, Idle)
          /\ UNCHANGED <<owner, refCount, alloc>>
      BY <1>5, <2>1 DEF RtMoveAssign, MayUse
    <3>2. TypeOK
      BY DEF IInv
    <3>3. /\ thread' \in [Threads -> ThreadStates]
          /\ thread'[t] = Idle
          /\ \A u \in Threads \ {t} : thread'[u] = thread[u]
      BY <3>1, <3>2, IdleState, BecomeState
    <3>4. StateOK(t, thread[t])'
      BY <3>3, IdleState DEF StateOK
    <3>5. ptr' \in [Handles -> Objects \cup {Null}]
      BY <3>1, <3>2 DEF TypeOK
    <3>6. \A o \in Objects : ~ IsSole(thread'[t], o)
      BY <3>3, IdleState DEF IsSole
    <3> QED
      BY <3>1, <3>3, <3>4, <3>5, <3>6, QuietStep
  <2>2. CASE d # s
    BY <1>5, <2>2, RtMoveAssignStep
  <2> QED
    BY <2>1, <2>2
<1>6. ASSUME NEW t \in Threads, Begin(t) PROVE IInv'
  <2>1. ASSUME NEW u \in Threads, NEW h \in Handles, Give(t, u, h) PROVE IInv'
    BY <2>1, GiveStep
  <2> QED
    BY <1>2, <1>3, <1>4, <1>5, <1>6, <2>1 DEF Begin
<1>7. ASSUME NEW t \in Threads, Continue(t) PROVE IInv'
  BY <1>7, IncrefStep, RtIncrefStep, DecrefStep, FreeObjectStep, CopyStep, MoveStep, ClearStep DEF Continue
<1> QED
  BY <1>1, <1>6, <1>7 DEF Next

-----------------------------------------------------------------------------
\* Theorems

\* The invariant from which the others follow: the objects that exactly one
\* thread knows of (just made or about to be freed) are live and uncounted, and
\* no other thread gets to know of them.
THEOREM Invariant == Spec => []IInv
BY InitInv, NextInv, PTL DEF Spec

\* Every handle points to an object or is null, every count is a natural
\* number, and every thread is at a step of Ref<T>'s or RtValue's operations.
THEOREM RefCountTypeCorrect == Spec => []TypeOK
<1>1. IInv => TypeOK
  BY DEF IInv
<1> QED
  BY <1>1, Invariant, PTL

\* refCount is the number of references, however many threads increment and
\* decrement it.
THEOREM CountsAreExact == Spec => []RefCountExact
<1>1. IInv => RefCountExact
  BY DEF IInv
<1> QED
  BY <1>1, Invariant, PTL

\* Two threads that drop the last two references do not both see fetch_sub
\* return 1.
THEOREM LastReferenceFrees == Spec => []FreedOnce
<1>1. IInv => FreedOnce
  <2> SUFFICES ASSUME IInv, NEW t \in Threads, NEW u \in Threads,
                      thread[t].pc = "free", thread[u].pc = "free", thread[t].obj = thread[u].obj
               PROVE  t = u
    BY DEF FreedOnce
  <2>1. thread[t].obj \in Objects
    BY StateFields DEF IInv, TypeOK, ThreadsOK, StateOK
  <2>2. IsSole(thread[t], thread[t].obj) /\ IsSole(thread[u], thread[t].obj)
    BY DEF IsSole
  <2> QED
    BY <2>1, <2>2 DEF IInv, SoleInv
<1> QED
  BY <1>1, Invariant, PTL

\* Nothing is used after it was freed: no handle dangles and nothing counts or
\* frees what was freed.
THEOREM NothingDangles == Spec => []NoUseAfterFree
<1>1. IInv => NoUseAfterFree
  <2> SUFFICES ASSUME IInv PROVE NoUseAfterFree
    OBVIOUS
  <2>1. ASSUME NEW h \in Handles, ptr[h] # Null, ~ IsUncounted(h) PROVE alloc[ptr[h]] = "live"
    <3>1. ptr[h] \in Objects
      BY <2>1 DEF IInv, TypeOK
    <3>2. h \in HandlesOf(ptr[h])
      BY <2>1 DEF HandlesOf
    <3>3. refCount[ptr[h]] > 0
      BY <3>1, <3>2, Referenced DEF IInv
    <3> QED
      BY <3>1, <3>3 DEF IInv, CountedLive
  <2>2. ASSUME NEW t \in Threads, thread[t].obj # Null,
               thread[t].pc \in {"incref", "rtIncref", "decref", "free"}
        PROVE  alloc[thread[t].obj] = "live"
    <3>1. StateOK(t, thread[t]) /\ thread[t] \in ThreadStates
      BY DEF IInv, TypeOK, ThreadsOK
    <3>2. PICK o \in Objects : o = thread[t].obj
      BY <2>2, <3>1, StateFields
    <3>3. CASE IsSole(thread[t], o)
      BY <3>2, <3>3 DEF IInv, SoleInv
    <3>4. CASE Holds(thread[t], o)
      <4>1. t \in TemporariesOf(o)
        BY <3>4 DEF Holds, TemporariesOf
      <4>2. refCount[o] > 0
        BY <4>1, Referenced DEF IInv
      <4> QED
        BY <3>2, <4>2 DEF IInv, CountedLive
    <3>5. CASE ~ IsSole(thread[t], o) /\ ~ Holds(thread[t], o)
      <4>1. \/ thread[t].pc = "decref" /\ thread[t].next # "idle"
            \/ thread[t].pc = "incref" /\ thread[t].src # Null
            \/ thread[t].pc = "rtIncref"
        BY <2>2, <3>2, <3>5 DEF IsSole, Holds
      <4>2. PICK h \in Handles : owner[h] = t /\ ptr[h] = o /\ ~ Uncounts(thread[t], h)
        BY <3>1, <3>2, <4>1 DEF StateOK, Uncounts
      <4>3. refCount[o] > 0
        BY <3>2, <4>2, SourceCounted, RefCountAssumption
      <4> QED
        BY <3>2, <4>3 DEF IInv, CountedLive
    <3> QED
      BY <3>3, <3>4, <3>5
  <2> QED
    BY <2>1, <2>2 DEF NoUseAfterFree
<1> QED
  BY <1>1, Invariant, PTL

-----------------------------------------------------------------------------
\* The refinement: the steps of Ref<T>'s and RtValue's operations implement the
\* steps of shared references.

Names == Handles \cup Threads
Targets == Objects \cup {Null}

\* Thread state s is that of a thread that has just made o.
Makes(s, o) == s.pc = "incref" /\ s.src = Null /\ s.obj = o

\* What a thread in state s sees of a handle of its own, and its temporary.
Seen(s, p, h) == IF Uncounts(s, h) THEN Null ELSE p[h]
Temporary(s) == IF s.pc = "decref" /\ s.next = "idle" THEN s.obj ELSE Null

LEMMA MappingTypes ==
  ASSUME TypeOK
  PROVE  RefMapping \in [Names -> Targets] /\ StateMapping \in [Objects -> {"new", "live", "freed"}]
<1>1. \A t \in Threads : thread[t].obj \in Targets
  BY StateFields DEF TypeOK, Targets
<1>2. \A h \in Handles : ptr[h] \in Targets
  BY DEF TypeOK, Targets
<1>3. RefMapping \in [Names -> Targets]
  BY <1>1, <1>2 DEF RefMapping, Names, Targets
<1>4. StateMapping \in [Objects -> {"new", "live", "freed"}]
  BY DEF StateMapping, TypeOK
<1> QED
  BY <1>3, <1>4

LEMMA MappingTypesPrime ==
  ASSUME TypeOK'
  PROVE  RefMapping' \in [Names -> Targets] /\ StateMapping' \in [Objects -> {"new", "live", "freed"}]
<1>1. \A t \in Threads : thread'[t].obj \in Targets
  BY StateFields DEF TypeOK, Targets
<1>2. \A h \in Handles : ptr'[h] \in Targets
  BY DEF TypeOK, Targets
<1>3. RefMapping' \in [Names -> Targets]
  BY <1>1, <1>2 DEF RefMapping, Names, Targets
<1>4. StateMapping' \in [Objects -> {"new", "live", "freed"}]
  BY DEF StateMapping, TypeOK
<1> QED
  BY <1>3, <1>4

-----------------------------------------------------------------------------
\* Functions changed at one, two or three places

LEMMA Same ==
  ASSUME NEW S, NEW T, NEW f \in [S -> T], NEW g \in [S -> T], \A r \in S : g[r] = f[r]
  PROVE  g = f
OBVIOUS

LEMMA ChangedAtOne ==
  ASSUME NEW S, NEW T, NEW f \in [S -> T], NEW g \in [S -> T], NEW x \in S,
         \A r \in S \ {x} : g[r] = f[r]
  PROVE  g = [f EXCEPT ![x] = g[x]]
OBVIOUS

LEMMA ChangedAtTwo ==
  ASSUME NEW S, NEW T, NEW f \in [S -> T], NEW g \in [S -> T], NEW x \in S, NEW y \in S, x # y,
         \A r \in S \ {x, y} : g[r] = f[r]
  PROVE  g = [f EXCEPT ![x] = g[x], ![y] = g[y]]
OBVIOUS

LEMMA ChangedAtThree ==
  ASSUME NEW S, NEW T, NEW f \in [S -> T], NEW g \in [S -> T],
         NEW x \in S, NEW y \in S, NEW z \in S, x # y, x # z, y # z,
         \A r \in S \ {x, y, z} : g[r] = f[r]
  PROVE  g = [f EXCEPT ![x] = g[x], ![y] = g[y], ![z] = g[z]]
OBVIOUS

-----------------------------------------------------------------------------
\* What one thread's step changes of the abstract state

\* The premises of ThreadStep, under which other threads' references stay.
Local(t) ==
  /\ thread' \in [Threads -> ThreadStates]
  /\ \A u \in Threads \ {t} : thread'[u] = thread[u]
  /\ owner' = owner
  /\ \A h \in Handles : owner[h] # t => ptr'[h] = ptr[h]

LEMMA RefStep ==
  ASSUME IInv, IInv', NEW t \in Threads, Local(t)
  PROVE  /\ \A h \in Handles : owner[h] = t =>
              /\ RefMapping[h] = Seen(thread[t], ptr, h)
              /\ RefMapping'[h] = Seen(thread'[t], ptr', h)
         /\ \A h \in Handles : owner[h] # t => RefMapping'[h] = RefMapping[h]
         /\ RefMapping[t] = Temporary(thread[t]) /\ RefMapping'[t] = Temporary(thread'[t])
         /\ \A u \in Threads \ {t} : RefMapping'[u] = RefMapping[u]
<1>1. /\ TypeOK /\ ThreadsOK /\ StateOK(t, thread[t])'
      /\ thread' \in [Threads -> ThreadStates]
      /\ \A u \in Threads \ {t} : thread'[u] = thread[u]
      /\ owner' = owner
      /\ \A h \in Handles : owner[h] # t => ptr'[h] = ptr[h]
  BY DEF IInv, ThreadsOK, Local
<1>2. \A h \in Handles :
        IF owner[h] = t
        THEN (IsUncounted(h) <=> Uncounts(thread[t], h)) /\ (IsUncounted(h)' <=> Uncounts(thread'[t], h))
        ELSE IsUncounted(h)' <=> IsUncounted(h)
  BY <1>1, ThreadStep
<1>3. ASSUME NEW h \in Handles
      PROVE  /\ RefMapping[h] = IF IsUncounted(h) THEN Null ELSE ptr[h]
             /\ RefMapping'[h] = IF IsUncounted(h)' THEN Null ELSE ptr'[h]
  BY DEF RefMapping
<1>4. ASSUME NEW u \in Threads
      PROVE  RefMapping[u] = Temporary(thread[u]) /\ RefMapping'[u] = Temporary(thread'[u])
  <2>1. u \notin Handles
    BY RefCountAssumption
  <2> QED
    BY <2>1 DEF RefMapping, Temporary
<1>5. \A h \in Handles : owner[h] = t =>
        /\ RefMapping[h] = Seen(thread[t], ptr, h)
        /\ RefMapping'[h] = Seen(thread'[t], ptr', h)
  BY <1>2, <1>3 DEF Seen
<1>6. \A h \in Handles : owner[h] # t => RefMapping'[h] = RefMapping[h]
  BY <1>1, <1>2, <1>3
<1> QED
  BY <1>1, <1>4, <1>5, <1>6

LEMMA StateStep ==
  ASSUME NEW t \in Threads, Local(t), NEW o \in Objects
  PROVE  /\ StateMapping[o] =
              IF Makes(thread[t], o) \/ \E u \in Threads \ {t} : Makes(thread[u], o) THEN "new" ELSE alloc[o]
         /\ StateMapping'[o] =
              IF Makes(thread'[t], o) \/ \E u \in Threads \ {t} : Makes(thread[u], o) THEN "new" ELSE alloc'[o]
BY DEF StateMapping, Makes, Local

\* A step that makes nothing, finishes nothing and frees nothing.
LEMMA StateStays ==
  ASSUME IInv, IInv', NEW t \in Threads, Local(t), alloc' = alloc,
         \A o \in Objects : ~ Makes(thread[t], o) /\ ~ Makes(thread'[t], o)
  PROVE  StateMapping' = StateMapping
<1>1. \A o \in Objects : StateMapping'[o] = StateMapping[o]
  BY StateStep
<1>2. /\ StateMapping \in [Objects -> {"new", "live", "freed"}]
      /\ StateMapping' \in [Objects -> {"new", "live", "freed"}]
  BY MappingTypes, MappingTypesPrime DEF IInv
<1> QED
  BY <1>1, <1>2, Same

\* A step that no user sees.
LEMMA RefStays ==
  ASSUME IInv, IInv', NEW t \in Threads, Local(t),
         \A h \in Handles : owner[h] = t => Seen(thread'[t], ptr', h) = Seen(thread[t], ptr, h),
         Temporary(thread'[t]) = Temporary(thread[t])
  PROVE  RefMapping' = RefMapping
<1>1. \A r \in Names : RefMapping'[r] = RefMapping[r]
  BY RefStep DEF Names
<1>2. RefMapping \in [Names -> Targets] /\ RefMapping' \in [Names -> Targets]
  BY MappingTypes, MappingTypesPrime DEF IInv
<1> QED
  BY <1>1, <1>2, Same

-----------------------------------------------------------------------------
\* The steps of the operations

LEMMA Stutters ==
  ASSUME RefMapping' = RefMapping, StateMapping' = StateMapping
  PROVE  [Shared!Next]_(Shared!vars)
BY DEF Shared!vars

LEMMA BusyLocal ==
  ASSUME IInv, NEW t \in Threads,
         NEW pc \in Steps, NEW d \in Handles, NEW s \in Handles \cup {Null}, NEW o \in Targets,
         NEW next \in {"idle", "copy", "move", "clear"},
         Become(t, Busy(pc, d, s, o, next)), owner' = owner,
         \A h \in Handles : owner[h] # t => ptr'[h] = ptr[h]
  PROVE  /\ Local(t)
         /\ thread'[t].pc = pc /\ thread'[t].dst = d /\ thread'[t].src = s /\ thread'[t].obj = o
         /\ thread'[t].next = next
<1>1. /\ Busy(pc, d, s, o, next) \in ThreadStates
      /\ Busy(pc, d, s, o, next).pc = pc /\ Busy(pc, d, s, o, next).dst = d
      /\ Busy(pc, d, s, o, next).src = s /\ Busy(pc, d, s, o, next).obj = o
      /\ Busy(pc, d, s, o, next).next = next
  BY BusyState DEF Targets
<1>2. TypeOK
  BY DEF IInv
<1>3. /\ thread' \in [Threads -> ThreadStates]
      /\ thread'[t] = Busy(pc, d, s, o, next)
      /\ \A u \in Threads \ {t} : thread'[u] = thread[u]
  BY <1>1, <1>2, BecomeState
<1> QED
  BY <1>1, <1>3 DEF Local

LEMMA GotoLocal ==
  ASSUME IInv, NEW t \in Threads, NEW pc \in Steps, Goto(t, pc), owner' = owner,
         \A h \in Handles : owner[h] # t => ptr'[h] = ptr[h]
  PROVE  /\ Local(t)
         /\ thread'[t].pc = pc
         /\ pc # "idle" => /\ thread'[t].dst = thread[t].dst /\ thread'[t].src = thread[t].src
                           /\ thread'[t].obj = thread[t].obj /\ thread'[t].next = thread[t].next
<1>1. TypeOK
  BY DEF IInv
<1>2. /\ thread' \in [Threads -> ThreadStates]
      /\ \A u \in Threads \ {t} : thread'[u] = thread[u]
      /\ thread'[t].pc = pc
      /\ IF pc = "idle" THEN thread'[t] = Idle
         ELSE /\ thread'[t].dst = thread[t].dst /\ thread'[t].src = thread[t].src
              /\ thread'[t].obj = thread[t].obj /\ thread'[t].next = thread[t].next
  BY <1>1, GotoState
<1> QED
  BY <1>2 DEF Local

\* A new object is not seen before it is counted.
LEMMA CreateRefines ==
  ASSUME IInv, IInv', NEW t \in Threads, NEW d \in Handles, Create(t, d)
  PROVE  [Shared!Next]_(Shared!vars)
<1>1. PICK o \in Objects :
        /\ alloc[o] = "new" /\ alloc' = [alloc EXCEPT ![o] = "live"]
        /\ ptr' = [ptr EXCEPT ![d] = o]
        /\ Become(t, Busy("incref", d, Null, o, "idle"))
  BY DEF Create
<1>2. owner' = owner /\ owner[d] = t /\ thread[t] = Idle /\ ptr[d] = Null
  BY DEF Create, MayUse
<1>3. \A h \in Handles \ {d} : ptr'[h] = ptr[h]
  BY <1>1 DEF IInv, TypeOK
<1>4. /\ Local(t)
      /\ thread'[t].pc = "incref" /\ thread'[t].dst = d /\ thread'[t].src = Null /\ thread'[t].obj = o
  BY <1>1, <1>2, <1>3, BusyLocal DEF Steps, Targets
<1>5. RefMapping' = RefMapping
  <2>1. \A h \in Handles : owner[h] = t => Seen(thread'[t], ptr', h) = Seen(thread[t], ptr, h)
    BY <1>2, <1>3, <1>4, IdleState DEF Seen, Uncounts
  <2>2. Temporary(thread'[t]) = Temporary(thread[t])
    BY <1>2, <1>4, IdleState DEF Temporary
  <2> QED
    BY <1>4, <2>1, <2>2, RefStays
<1>6. StateMapping' = StateMapping
  <2>1. alloc' \in [Objects -> {"new", "live", "freed"}] /\ alloc'[o] = "live"
        /\ \A x \in Objects \ {o} : alloc'[x] = alloc[x]
    BY <1>1 DEF IInv, TypeOK
  <2>2. \A x \in Objects : ~ Makes(thread[t], x) /\ (Makes(thread'[t], x) <=> x = o)
    BY <1>2, <1>4, IdleState DEF Makes
  <2>3. \A x \in Objects : StateMapping'[x] = StateMapping[x]
    BY <1>1, <1>4, <2>1, <2>2, StateStep
  <2>4. /\ StateMapping \in [Objects -> {"new", "live", "freed"}]
        /\ StateMapping' \in [Objects -> {"new", "live", "freed"}]
    BY MappingTypes, MappingTypesPrime DEF IInv
  <2> QED
    BY <2>3, <2>4, Same
<1> QED
  BY <1>5, <1>6, Stutters

\* The steps between the beginning of an operation and its effect.
LEMMA QuietRefines ==
  ASSUME IInv, IInv', NEW t \in Threads, Local(t), alloc' = alloc,
         \A h \in Handles : owner[h] = t => Seen(thread'[t], ptr', h) = Seen(thread[t], ptr, h),
         Temporary(thread'[t]) = Temporary(thread[t]),
         \A o \in Objects : ~ Makes(thread[t], o) /\ ~ Makes(thread'[t], o)
  PROVE  [Shared!Next]_(Shared!vars)
BY RefStays, StateStays, Stutters

LEMMA CopyConstructRefines ==
  ASSUME IInv, IInv', NEW t \in Threads, NEW d \in Handles, NEW s \in Handles, CopyConstruct(t, d, s)
  PROVE  [Shared!Next]_(Shared!vars)
<1>1. /\ owner[d] = t /\ thread[t] = Idle /\ d # s /\ ptr[d] = Null
      /\ ptr' = [ptr EXCEPT ![d] = ptr[s]]
      /\ Become(t, Busy("incref", d, s, ptr[s], "idle"))
      /\ owner' = owner /\ alloc' = alloc
  BY DEF CopyConstruct, MayUse
<1>2. ptr[s] \in Targets /\ \A h \in Handles \ {d} : ptr'[h] = ptr[h]
  BY <1>1 DEF IInv, TypeOK, Targets
<1>3. Local(t) /\ thread'[t].pc = "incref" /\ thread'[t].dst = d /\ thread'[t].src = s
  BY <1>1, <1>2, BusyLocal DEF Steps
<1>4. \A h \in Handles : owner[h] = t => Seen(thread'[t], ptr', h) = Seen(thread[t], ptr, h)
  BY <1>1, <1>2, <1>3, IdleState DEF Seen, Uncounts
<1>5. Temporary(thread'[t]) = Temporary(thread[t])
  BY <1>1, <1>3, IdleState DEF Temporary
<1>6. \A o \in Objects : ~ Makes(thread[t], o) /\ ~ Makes(thread'[t], o)
  BY <1>1, <1>3, IdleState, RefCountAssumption DEF Makes
<1> QED
  BY <1>1, <1>3, <1>4, <1>5, <1>6, QuietRefines

\* Assignments and destructions begin.
LEMMA BeginRefines ==
  ASSUME IInv, IInv', NEW t \in Threads, NEW d \in Handles, NEW s \in Handles \cup {Null}, NEW o \in Targets,
         NEW pc \in {"decref", "rtIncref"}, NEW next \in {"idle", "copy", "move", "clear"},
         pc = "decref" => next # "idle",
         thread[t] = Idle, Become(t, Busy(pc, d, s, o, next)),
         ptr' = ptr, owner' = owner, alloc' = alloc
  PROVE  [Shared!Next]_(Shared!vars)
<1>1. Local(t) /\ thread'[t].pc = pc /\ thread'[t].next = next
  BY BusyLocal DEF Steps
<1>2. \A h \in Handles : owner[h] = t => Seen(thread'[t], ptr', h) = Seen(thread[t], ptr, h)
  BY <1>1, IdleState DEF Seen, Uncounts
<1>3. Temporary(thread'[t]) = Temporary(thread[t])
  BY <1>1, IdleState DEF Temporary
<1>4. \A x \in Objects : ~ Makes(thread[t], x) /\ ~ Makes(thread'[t], x)
  BY <1>1, IdleState DEF Makes
<1> QED
  BY <1>1, <1>2, <1>3, <1>4, QuietRefines

LEMMA GiveRefines ==
  ASSUME NEW t \in Threads, NEW u \in Threads, NEW h \in Handles, Give(t, u, h)
  PROVE  [Shared!Next]_(Shared!vars)
<1>1. ptr' = ptr /\ thread' = thread /\ alloc' = alloc
  BY DEF Give
<1>2. RefMapping' = RefMapping /\ StateMapping' = StateMapping
  BY <1>1 DEF RefMapping, StateMapping, IsUncounted
<1> QED
  BY <1>2, Stutters

LEMMA CopyRefines ==
  ASSUME IInv, IInv', NEW t \in Threads, Copy(t)
  PROVE  [Shared!Next]_(Shared!vars)
<1>1. /\ thread[t].pc = "copy"
      /\ ptr' = [ptr EXCEPT ![thread[t].dst] = ptr[thread[t].src]]
      /\ Become(t, Busy("incref", thread[t].dst, thread[t].src, ptr[thread[t].src], "idle"))
      /\ owner' = owner /\ alloc' = alloc
  BY DEF Copy
<1>2. StateOK(t, thread[t])
  BY DEF IInv, ThreadsOK
<1>3. PICK d \in Handles, s \in Handles, o \in Targets :
        /\ d = thread[t].dst /\ s = thread[t].src /\ o = ptr[thread[t].src] /\ owner[d] = t
  BY <1>1, <1>2 DEF StateOK, IInv, TypeOK, Targets
<1>4. \A h \in Handles \ {d} : ptr'[h] = ptr[h]
  BY <1>1, <1>3 DEF IInv, TypeOK
<1>5. Local(t) /\ thread'[t].pc = "incref" /\ thread'[t].dst = d /\ thread'[t].src = s
  BY <1>1, <1>3, <1>4, BusyLocal DEF Steps
<1>6. \A h \in Handles : owner[h] = t => Seen(thread'[t], ptr', h) = Seen(thread[t], ptr, h)
  BY <1>1, <1>3, <1>4, <1>5 DEF Seen, Uncounts
<1>7. Temporary(thread'[t]) = Temporary(thread[t])
  BY <1>1, <1>5 DEF Temporary
<1>8. \A x \in Objects : ~ Makes(thread[t], x) /\ ~ Makes(thread'[t], x)
  BY <1>1, <1>5, RefCountAssumption DEF Makes
<1> QED
  BY <1>1, <1>5, <1>6, <1>7, <1>8, QuietRefines

LEMMA ClearRefines ==
  ASSUME IInv, IInv', NEW t \in Threads, Clear(t)
  PROVE  [Shared!Next]_(Shared!vars)
<1>1. /\ thread[t].pc = "clear" /\ ptr' = [ptr EXCEPT ![thread[t].dst] = Null]
      /\ Goto(t, "idle") /\ owner' = owner /\ alloc' = alloc
  BY DEF Clear
<1>2. thread[t].dst \in Handles /\ owner[thread[t].dst] = t
  BY <1>1 DEF IInv, ThreadsOK, StateOK
<1>3. /\ \A h \in Handles \ {thread[t].dst} : ptr'[h] = ptr[h]
      /\ ptr'[thread[t].dst] = Null
  BY <1>1, <1>2 DEF IInv, TypeOK
<1>4. Local(t) /\ thread'[t].pc = "idle"
  BY <1>1, <1>2, <1>3, GotoLocal DEF Steps
<1>5. \A h \in Handles : owner[h] = t => Seen(thread'[t], ptr', h) = Seen(thread[t], ptr, h)
  BY <1>1, <1>3, <1>4 DEF Seen, Uncounts
<1>6. Temporary(thread'[t]) = Temporary(thread[t])
  BY <1>1, <1>4 DEF Temporary
<1>7. \A x \in Objects : ~ Makes(thread[t], x) /\ ~ Makes(thread'[t], x)
  BY <1>1, <1>4 DEF Makes
<1> QED
  BY <1>1, <1>4, <1>5, <1>6, <1>7, QuietRefines

\* Counting a handle's pointer makes it a reference: to a new object, or to
\* that of the handle it was copied from.
LEMMA IncrefRefines ==
  ASSUME IInv, IInv', NEW t \in Threads, Incref(t)
  PROVE  [Shared!Next]_(Shared!vars)
<1>1. /\ thread[t].pc = "incref" /\ Goto(t, "idle")
      /\ ptr' = ptr /\ owner' = owner /\ alloc' = alloc
  BY DEF Incref
<1>2. StateOK(t, thread[t]) /\ thread[t] \in ThreadStates
  BY DEF IInv, TypeOK, ThreadsOK
<1>3. PICK d \in Handles : d = thread[t].dst /\ owner[d] = t /\ ptr[d] = thread[t].obj
  BY <1>1, <1>2 DEF StateOK
<1>4. Local(t) /\ thread'[t].pc = "idle"
  BY <1>1, GotoLocal DEF Steps
<1>5. /\ \A h \in Handles : Seen(thread'[t], ptr', h) = ptr[h]
      /\ \A h \in Handles : Seen(thread[t], ptr, h) = IF h = d THEN Null ELSE ptr[h]
      /\ Temporary(thread'[t]) = Null /\ Temporary(thread[t]) = Null
  BY <1>1, <1>3, <1>4 DEF Seen, Uncounts, Temporary
<1>6. /\ \A r \in Names \ {d} : RefMapping'[r] = RefMapping[r]
      /\ RefMapping[d] = Null /\ RefMapping'[d] = ptr[d]
  BY <1>3, <1>4, <1>5, RefStep, RefCountAssumption DEF Names
<1>7. RefMapping' = [RefMapping EXCEPT ![d] = ptr[d]]
  <2>1. RefMapping \in [Names -> Targets] /\ RefMapping' \in [Names -> Targets] /\ d \in Names
    BY MappingTypes, MappingTypesPrime DEF IInv, Names
  <2> QED
    BY <1>6, <2>1, ChangedAtOne
<1>8. CASE thread[t].src = Null
  <2>1. PICK o \in Objects : o = thread[t].obj
    BY <1>1, <1>2, <1>8, StateFields DEF StateOK
  <2>2. \A x \in Objects : (Makes(thread[t], x) <=> x = o) /\ ~ Makes(thread'[t], x)
    BY <1>1, <1>4, <1>8, <2>1 DEF Makes
  <2>3. alloc[o] = "live" /\ \A u \in Threads \ {t} : ~ Makes(thread[u], o)
    <3>1. IsSole(thread[t], o) /\ \A u \in Threads : Makes(thread[u], o) => IsSole(thread[u], o)
      BY <2>2 DEF IsSole, Makes
    <3> QED
      BY <3>1 DEF IInv, SoleInv
  <2>4. /\ StateMapping[o] = "new" /\ StateMapping'[o] = "live"
        /\ \A x \in Objects \ {o} : StateMapping'[x] = StateMapping[x]
    BY <1>1, <1>4, <2>2, <2>3, StateStep
  <2>5. /\ StateMapping \in [Objects -> {"new", "live", "freed"}]
        /\ StateMapping' \in [Objects -> {"new", "live", "freed"}]
    BY MappingTypes, MappingTypesPrime DEF IInv
  <2>6. StateMapping' = [StateMapping EXCEPT ![o] = "live"]
    BY <2>4, <2>5, ChangedAtOne
  <2>7. Shared!Create(d, o)
    BY <1>3, <1>6, <1>7, <2>1, <2>4, <2>6 DEF Shared!Create
  <2> QED
    BY <2>7 DEF Shared!Next
<1>9. CASE thread[t].src # Null
  <2>1. PICK s \in Handles : s = thread[t].src /\ owner[s] = t /\ s # d /\ ptr[s] = ptr[d]
    BY <1>1, <1>2, <1>3, <1>9 DEF StateOK
  <2>2. RefMapping[s] = ptr[d]
    BY <1>4, <1>5, <2>1, RefStep
  <2>3. StateMapping' = StateMapping
    BY <1>1, <1>4, <1>9, StateStays DEF Makes
  <2>4. Shared!Copy(d, s)
    BY <1>6, <1>7, <2>1, <2>2, <2>3 DEF Shared!Copy
  <2> QED
    BY <2>4 DEF Shared!Next
<1> QED
  BY <1>8, <1>9

\* Uncounting gives up the reference of the handle, or of the temporary.
LEMMA DecrefRefines ==
  ASSUME IInv, IInv', NEW t \in Threads, Decref(t)
  PROVE  [Shared!Next]_(Shared!vars)
<1>1. /\ thread[t].pc = "decref"
      /\ Goto(t, IF thread[t].obj # Null /\ refCount[thread[t].obj] = 1 THEN "free" ELSE thread[t].next)
      /\ ptr' = ptr /\ owner' = owner /\ alloc' = alloc
  BY DEF Decref
<1>2. StateOK(t, thread[t]) /\ thread[t] \in ThreadStates
  BY DEF IInv, TypeOK, ThreadsOK
<1>3. thread[t].dst \in Handles /\ owner[thread[t].dst] = t
      /\ thread[t].next \in {"idle", "copy", "move", "clear"}
  BY <1>1, <1>2, StateFields DEF StateOK
<1>4. PICK pc \in {"free", "idle", "copy", "move", "clear"} :
        /\ pc = IF thread[t].obj # Null /\ refCount[thread[t].obj] = 1 THEN "free" ELSE thread[t].next
        /\ Goto(t, pc)
  BY <1>1, <1>3
<1>5. /\ Local(t) /\ thread'[t].pc = pc /\ pc \in {"free", thread[t].next}
      /\ pc # "idle" => thread'[t].dst = thread[t].dst /\ thread'[t].next = thread[t].next
  BY <1>1, <1>4, GotoLocal DEF Steps
<1>6. Temporary(thread'[t]) = Null
  BY <1>5 DEF Temporary
<1>7. StateMapping' = StateMapping
  BY <1>1, <1>5, StateStays DEF Makes
<1>8. RefMapping \in [Names -> Targets] /\ RefMapping' \in [Names -> Targets]
  BY MappingTypes, MappingTypesPrime DEF IInv
<1>9. CASE thread[t].next = "idle"
  <2>1. \A h \in Handles : Seen(thread'[t], ptr', h) = ptr[h] /\ Seen(thread[t], ptr, h) = ptr[h]
    BY <1>1, <1>5, <1>9 DEF Seen, Uncounts
  <2>2. RefMapping'[t] = Null /\ \A r \in Names \ {t} : RefMapping'[r] = RefMapping[r]
    BY <1>5, <1>6, <2>1, RefStep DEF Names
  <2>3. t \in Names
    BY DEF Names
  <2>4. RefMapping' = [RefMapping EXCEPT ![t] = Null]
    BY <1>8, <2>2, <2>3, ChangedAtOne
  <2>5. Shared!Drop(t)
    BY <1>7, <2>4 DEF Shared!Drop
  <2> QED
    BY <2>5 DEF Shared!Next
<1>10. CASE thread[t].next # "idle"
  <2>1. PICK d \in Handles : d = thread[t].dst /\ owner[d] = t
    BY <1>3
  <2>2. \A h \in Handles : /\ Seen(thread'[t], ptr', h) = IF h = d THEN Null ELSE ptr[h]
                           /\ Seen(thread[t], ptr, h) = ptr[h]
    BY <1>1, <1>3, <1>5, <1>10, <2>1 DEF Seen, Uncounts
  <2>3. Temporary(thread[t]) = Null
    BY <1>10 DEF Temporary
  <2>4. RefMapping'[d] = Null /\ \A r \in Names \ {d} : RefMapping'[r] = RefMapping[r]
    BY <1>5, <1>6, <2>1, <2>2, <2>3, RefStep DEF Names
  <2>5. d \in Names
    BY DEF Names
  <2>6. RefMapping' = [RefMapping EXCEPT ![d] = Null]
    BY <1>8, <2>4, <2>5, ChangedAtOne
  <2>7. Shared!Drop(d)
    BY <1>7, <2>6 DEF Shared!Drop
  <2> QED
    BY <2>1, <2>7 DEF Shared!Next
<1> QED
  BY <1>9, <1>10

\* Whoever frees an object has dropped the last reference to it.
LEMMA FreeObjectRefines ==
  ASSUME IInv, IInv', NEW t \in Threads, FreeObject(t)
  PROVE  [Shared!Next]_(Shared!vars)
<1>1. /\ thread[t].pc = "free"
      /\ alloc' = [alloc EXCEPT ![thread[t].obj] = "freed"]
      /\ Goto(t, thread[t].next) /\ ptr' = ptr /\ owner' = owner
  BY DEF FreeObject
<1>2. StateOK(t, thread[t]) /\ thread[t] \in ThreadStates
  BY DEF IInv, TypeOK, ThreadsOK
<1>3. PICK o \in Objects, next \in {"idle", "copy", "move", "clear"} :
        o = thread[t].obj /\ next = thread[t].next
  BY <1>1, <1>2, StateFields DEF StateOK
<1>4. /\ Local(t) /\ thread'[t].pc = next
      /\ next # "idle" => thread'[t].dst = thread[t].dst /\ thread'[t].next = next
  BY <1>1, <1>3, GotoLocal DEF Steps
<1>5. RefMapping' = RefMapping
  <2>1. \A h \in Handles : Seen(thread'[t], ptr', h) = Seen(thread[t], ptr, h)
    BY <1>1, <1>3, <1>4 DEF Seen, Uncounts
  <2>2. Temporary(thread'[t]) = Temporary(thread[t])
    BY <1>1, <1>3, <1>4 DEF Temporary
  <2> QED
    BY <1>4, <2>1, <2>2, RefStays
<1>6. alloc[o] = "live" /\ refCount[o] = 0 /\ \A u \in Threads : ~ Makes(thread[u], o)
  <2>1. IsSole(thread[t], o) /\ \A u \in Threads : Makes(thread[u], o) => IsSole(thread[u], o) /\ u # t
    BY <1>1, <1>3 DEF IsSole, Makes
  <2> QED
    BY <2>1 DEF IInv, SoleInv
<1>7. \A r \in Names : RefMapping[r] # o
  <2>1. HandlesOf(o) = {} /\ TemporariesOf(o) = {}
    BY <1>6, Referenced DEF IInv
  <2>2. o # Null
    BY RefCountAssumption
  <2>3. ASSUME NEW h \in Handles PROVE RefMapping[h] # o
    BY <2>1, <2>2 DEF HandlesOf, RefMapping
  <2>4. ASSUME NEW u \in Threads PROVE RefMapping[u] # o
    BY <2>1, <2>2, RefCountAssumption DEF TemporariesOf, RefMapping
  <2> QED
    BY <2>3, <2>4 DEF Names
<1>8. StateMapping' = [StateMapping EXCEPT ![o] = "freed"]
  <2>1. alloc'[o] = "freed" /\ \A x \in Objects \ {o} : alloc'[x] = alloc[x]
    BY <1>1, <1>3 DEF IInv, TypeOK
  <2>2. \A x \in Objects : ~ Makes(thread[t], x) /\ ~ Makes(thread'[t], x)
    BY <1>1, <1>3, <1>4 DEF Makes
  <2>3. StateMapping'[o] = "freed" /\ \A x \in Objects \ {o} : StateMapping'[x] = StateMapping[x]
    BY <1>4, <1>6, <2>1, <2>2, StateStep
  <2>4. /\ StateMapping \in [Objects -> {"new", "live", "freed"}]
        /\ StateMapping' \in [Objects -> {"new", "live", "freed"}]
    BY MappingTypes, MappingTypesPrime DEF IInv
  <2> QED
    BY <2>3, <2>4, ChangedAtOne
<1>9. StateMapping[o] = "live"
  BY <1>6 DEF StateMapping, Makes
<1>10. Shared!Reclaim(o)
  BY <1>5, <1>7, <1>8, <1>9 DEF Shared!Reclaim, Names
<1> QED
  BY <1>10 DEF Shared!Next

\* The pointer of s goes to d, which refers to nothing.
LEMMA MoveRefines ==
  ASSUME IInv, IInv', NEW t \in Threads, Local(t), alloc' = alloc,
         NEW d \in Handles, NEW s \in Handles, d # s, owner[d] = t, owner[s] = t,
         ptr' = [ptr EXCEPT ![d] = ptr[s], ![s] = Null],
         \A h \in Handles : Seen(thread[t], ptr, h) = IF h = d THEN Null ELSE ptr[h],
         \A h \in Handles : Seen(thread'[t], ptr', h) = ptr'[h],
         Temporary(thread[t]) = Null, Temporary(thread'[t]) = Null,
         \A o \in Objects : ~ Makes(thread[t], o) /\ ~ Makes(thread'[t], o)
  PROVE  [Shared!Next]_(Shared!vars)
<1>1. ptr'[d] = ptr[s] /\ ptr'[s] = Null /\ \A h \in Handles \ {d, s} : ptr'[h] = ptr[h]
  BY DEF IInv, TypeOK
<1>2. /\ RefMapping[d] = Null /\ RefMapping[s] = ptr[s]
      /\ RefMapping'[d] = ptr[s] /\ RefMapping'[s] = Null
      /\ \A r \in Names \ {d, s} : RefMapping'[r] = RefMapping[r]
  <2>1. /\ \A h \in Handles : owner[h] = t =>
             RefMapping[h] = Seen(thread[t], ptr, h) /\ RefMapping'[h] = Seen(thread'[t], ptr', h)
        /\ \A h \in Handles : owner[h] # t => RefMapping'[h] = RefMapping[h]
        /\ RefMapping[t] = Null /\ RefMapping'[t] = Null
        /\ \A u \in Threads \ {t} : RefMapping'[u] = RefMapping[u]
    BY RefStep
  <2>2. ASSUME NEW h \in Handles \ {d, s} PROVE RefMapping'[h] = RefMapping[h]
    <3>1. CASE owner[h] # t
      BY <2>1, <3>1
    <3>2. CASE owner[h] = t
      <4>1. Seen(thread[t], ptr, h) = ptr[h] /\ Seen(thread'[t], ptr', h) = ptr[h]
        BY <1>1
      <4> QED
        BY <2>1, <3>2, <4>1
    <3> QED
      BY <3>1, <3>2
  <2> QED
    BY <1>1, <2>1, <2>2 DEF Names
<1>3. /\ RefMapping \in [Names -> Targets] /\ RefMapping' \in [Names -> Targets]
      /\ d \in Names /\ s \in Names
  BY MappingTypes, MappingTypesPrime DEF IInv, Names
<1>4. RefMapping' = [RefMapping EXCEPT ![d] = RefMapping[s], ![s] = Null]
  BY <1>2, <1>3, ChangedAtTwo
<1>5. StateMapping' = StateMapping
  BY StateStays
<1>6. Shared!Move(d, s)
  BY <1>2, <1>4, <1>5 DEF Shared!Move
<1> QED
  BY <1>6 DEF Shared!Next

LEMMA MoveConstructRefines ==
  ASSUME IInv, IInv', NEW t \in Threads, NEW d \in Handles, NEW s \in Handles, MoveConstruct(t, d, s)
  PROVE  [Shared!Next]_(Shared!vars)
<1>1. /\ thread[t] = Idle /\ owner[d] = t /\ owner[s] = t /\ d # s /\ ptr[d] = Null
      /\ ptr' = [ptr EXCEPT ![d] = ptr[s], ![s] = Null]
      /\ owner' = owner /\ alloc' = alloc /\ thread' = thread
  BY DEF MoveConstruct, MayUse
<1>2. Local(t)
  BY <1>1 DEF Local, IInv, TypeOK
<1>3. \A h \in Handles : /\ Seen(thread[t], ptr, h) = IF h = d THEN Null ELSE ptr[h]
                         /\ Seen(thread'[t], ptr', h) = ptr'[h]
  BY <1>1, IdleState DEF Seen, Uncounts
<1>4. Temporary(thread[t]) = Null /\ Temporary(thread'[t]) = Null
  BY <1>1, IdleState DEF Temporary
<1>5. \A o \in Objects : ~ Makes(thread[t], o) /\ ~ Makes(thread'[t], o)
  BY <1>1, IdleState DEF Makes
<1> QED
  BY <1>1, <1>2, <1>3, <1>4, <1>5, MoveRefines

LEMMA MoveStepRefines ==
  ASSUME IInv, IInv', NEW t \in Threads, Move(t)
  PROVE  [Shared!Next]_(Shared!vars)
<1>1. /\ thread[t].pc = "move" /\ Goto(t, "idle") /\ owner' = owner /\ alloc' = alloc
      /\ ptr' = [ptr EXCEPT ![thread[t].dst] = ptr[thread[t].src], ![thread[t].src] = Null]
  BY DEF Move
<1>2. StateOK(t, thread[t])
  BY DEF IInv, ThreadsOK
<1>3. PICK d \in Handles, s \in Handles :
        d = thread[t].dst /\ s = thread[t].src /\ d # s /\ owner[d] = t /\ owner[s] = t
  <2>1. thread[t].next = "move" /\ thread[t].dst \in Handles /\ owner[thread[t].dst] = t
    BY <1>1, <1>2 DEF StateOK
  <2>2. thread[t].src # Null /\ thread[t].src # thread[t].dst
    BY <1>2, <2>1 DEF StateOK
  <2>3. thread[t].src \in Handles /\ owner[thread[t].src] = t
    BY <1>2, <2>2 DEF StateOK
  <2> QED
    BY <2>1, <2>2, <2>3
<1>4. \A h \in Handles : owner[h] # t => ptr'[h] = ptr[h]
  BY <1>1, <1>3 DEF IInv, TypeOK
<1>5. Local(t) /\ thread'[t].pc = "idle"
  BY <1>1, <1>4, GotoLocal DEF Steps
<1>6. \A h \in Handles : /\ Seen(thread[t], ptr, h) = IF h = d THEN Null ELSE ptr[h]
                         /\ Seen(thread'[t], ptr', h) = ptr'[h]
  BY <1>1, <1>3, <1>5 DEF Seen, Uncounts
<1>7. Temporary(thread[t]) = Null /\ Temporary(thread'[t]) = Null
  BY <1>1, <1>5 DEF Temporary
<1>8. \A o \in Objects : ~ Makes(thread[t], o) /\ ~ Makes(thread'[t], o)
  BY <1>1, <1>5 DEF Makes
<1> QED
  BY <1>1, <1>3, <1>5, <1>6, <1>7, <1>8, MoveRefines

\* RtValue's assignments: the object d referred to is the temporary's now.
LEMMA RtIncrefRefines ==
  ASSUME IInv, IInv', NEW t \in Threads, RtIncref(t)
  PROVE  [Shared!Next]_(Shared!vars)
<1>1. /\ thread[t].pc = "rtIncref" /\ owner' = owner /\ alloc' = alloc
      /\ ptr' = [ptr EXCEPT ![thread[t].dst] = thread[t].obj]
      /\ Become(t, Busy("decref", thread[t].dst, thread[t].src, ptr[thread[t].dst], "idle"))
  BY DEF RtIncref
<1>2. StateOK(t, thread[t])
  BY DEF IInv, ThreadsOK
<1>3. PICK d \in Handles, s \in Handles, o \in Targets :
        /\ d = thread[t].dst /\ s = thread[t].src /\ owner[d] = t /\ owner[s] = t
        /\ ptr[s] = thread[t].obj /\ o = ptr[d]
  BY <1>1, <1>2 DEF StateOK, IInv, TypeOK, Targets
<1>4. ptr'[d] = ptr[s] /\ \A h \in Handles \ {d} : ptr'[h] = ptr[h]
  BY <1>1, <1>3 DEF IInv, TypeOK
<1>5. Local(t) /\ thread'[t].pc = "decref" /\ thread'[t].obj = o /\ thread'[t].next = "idle"
  BY <1>1, <1>3, <1>4, BusyLocal DEF Steps
<1>6. \A h \in Handles : Seen(thread[t], ptr, h) = ptr[h] /\ Seen(thread'[t], ptr', h) = ptr'[h]
  BY <1>1, <1>5 DEF Seen, Uncounts
<1>7. Temporary(thread[t]) = Null /\ Temporary(thread'[t]) = o
  BY <1>1, <1>5 DEF Temporary
<1>8. /\ RefMapping[d] = o /\ RefMapping[s] = ptr[s] /\ RefMapping[t] = Null
      /\ RefMapping'[d] = ptr[s] /\ RefMapping'[t] = o
      /\ \A r \in Names \ {d, t} : RefMapping'[r] = RefMapping[r]
  BY <1>3, <1>4, <1>5, <1>6, <1>7, RefStep DEF Names
<1>9. /\ RefMapping \in [Names -> Targets] /\ RefMapping' \in [Names -> Targets]
      /\ d \in Names /\ s \in Names /\ t \in Names /\ t \notin {d, s}
  BY MappingTypes, MappingTypesPrime, RefCountAssumption DEF IInv, Names
<1>10. RefMapping' = [RefMapping EXCEPT ![d] = RefMapping[s], ![t] = RefMapping[d]]
  BY <1>8, <1>9, ChangedAtTwo
<1>11. StateMapping' = StateMapping
  BY <1>1, <1>5, StateStays DEF Makes
<1>12. Shared!CopyOver(d, s, t)
  BY <1>8, <1>9, <1>10, <1>11 DEF Shared!CopyOver
<1> QED
  BY <1>9, <1>12 DEF Shared!Next, Names

LEMMA RtMoveAssignRefines ==
  ASSUME IInv, IInv', NEW t \in Threads, NEW d \in Handles, NEW s \in Handles, RtMoveAssign(t, d, s), d # s
  PROVE  [Shared!Next]_(Shared!vars)
<1>1. /\ thread[t] = Idle /\ owner[d] = t /\ owner[s] = t /\ owner' = owner /\ alloc' = alloc
      /\ ptr' = [ptr EXCEPT ![d] = ptr[s], ![s] = Null]
      /\ Become(t, Busy("decref", d, s, ptr[d], "idle"))
  BY DEF RtMoveAssign, MayUse
<1>2. PICK o \in Targets : o = ptr[d]
  BY DEF IInv, TypeOK, Targets
<1>3. ptr'[d] = ptr[s] /\ ptr'[s] = Null /\ \A h \in Handles \ {d, s} : ptr'[h] = ptr[h]
  BY <1>1 DEF IInv, TypeOK
<1>4. Local(t) /\ thread'[t].pc = "decref" /\ thread'[t].obj = o /\ thread'[t].next = "idle"
  BY <1>1, <1>2, <1>3, BusyLocal DEF Steps
<1>5. \A h \in Handles : Seen(thread[t], ptr, h) = ptr[h] /\ Seen(thread'[t], ptr', h) = ptr'[h]
  BY <1>1, <1>4, IdleState DEF Seen, Uncounts
<1>6. Temporary(thread[t]) = Null /\ Temporary(thread'[t]) = o
  BY <1>1, <1>4, IdleState DEF Temporary
<1>7. /\ RefMapping[d] = o /\ RefMapping[s] = ptr[s] /\ RefMapping[t] = Null
      /\ RefMapping'[d] = ptr[s] /\ RefMapping'[s] = Null /\ RefMapping'[t] = o
      /\ \A r \in Names \ {d, s, t} : RefMapping'[r] = RefMapping[r]
  <2>1. /\ \A h \in Handles : owner[h] = t =>
             RefMapping[h] = Seen(thread[t], ptr, h) /\ RefMapping'[h] = Seen(thread'[t], ptr', h)
        /\ \A h \in Handles : owner[h] # t => RefMapping'[h] = RefMapping[h]
        /\ RefMapping[t] = Null /\ RefMapping'[t] = o
        /\ \A u \in Threads \ {t} : RefMapping'[u] = RefMapping[u]
    BY <1>4, <1>6, RefStep
  <2>2. \A h \in Handles \ {d, s} : RefMapping'[h] = RefMapping[h]
    BY <1>3, <1>5, <2>1
  <2>3. RefMapping[d] = o /\ RefMapping[s] = ptr[s] /\ RefMapping'[d] = ptr[s] /\ RefMapping'[s] = Null
    BY <1>1, <1>2, <1>3, <1>5, <2>1
  <2> QED
    BY <2>1, <2>2, <2>3 DEF Names
<1>8. /\ RefMapping \in [Names -> Targets] /\ RefMapping' \in [Names -> Targets]
      /\ d \in Names /\ s \in Names /\ t \in Names /\ t \notin {d, s}
  BY MappingTypes, MappingTypesPrime, RefCountAssumption DEF IInv, Names
<1>9. RefMapping' = [RefMapping EXCEPT ![d] = RefMapping[s], ![s] = Null, ![t] = RefMapping[d]]
  BY <1>7, <1>8, ChangedAtThree
<1>10. StateMapping' = StateMapping
  BY <1>1, <1>4, IdleState, StateStays DEF Makes
<1>11. Shared!MoveOver(d, s, t)
  BY <1>7, <1>8, <1>9, <1>10 DEF Shared!MoveOver
<1> QED
  BY <1>8, <1>11 DEF Shared!Next, Names

-----------------------------------------------------------------------------
\* The refinement

LEMMA InitRefines == Init => Shared!Init
<1> SUFFICES ASSUME Init PROVE Shared!Init
  OBVIOUS
<1>1. /\ ptr = [h \in Handles |-> Null] /\ alloc = [o \in Objects |-> "new"]
      /\ thread = [t \in Threads |-> Idle]
  BY DEF Init
<1>2. RefMapping = [r \in Handles \cup Threads |-> Null]
  BY <1>1, IdleState DEF RefMapping
<1>3. StateMapping = [o \in Objects |-> "new"]
  BY <1>1, IdleState DEF StateMapping
<1> QED
  BY <1>2, <1>3 DEF Shared!Init

LEMMA NextRefines == IInv /\ IInv' /\ [Next]_vars => [Shared!Next]_(Shared!vars)
<1> SUFFICES ASSUME IInv, IInv', [Next]_vars PROVE [Shared!Next]_(Shared!vars)
  OBVIOUS
<1>1. CASE UNCHANGED vars
  <2>1. ptr' = ptr /\ alloc' = alloc /\ thread' = thread
    BY <1>1 DEF vars
  <2>2. RefMapping' = RefMapping /\ StateMapping' = StateMapping
    BY <2>1 DEF RefMapping, StateMapping, IsUncounted
  <2> QED
    BY <2>2, Stutters
<1>2. ASSUME NEW t \in Threads, NEW d \in Handles, Create(t, d) \/ Destroy(t, d)
      PROVE  [Shared!Next]_(Shared!vars)
  <2>1. CASE Create(t, d)
    BY <2>1, CreateRefines
  <2>2. CASE Destroy(t, d)
    <3>1. /\ thread[t] = Idle /\ Become(t, Busy("decref", d, Null, ptr[d], "clear"))
          /\ ptr' = ptr /\ owner' = owner /\ alloc' = alloc /\ ptr[d] \in Targets
      BY <2>2 DEF Destroy, MayUse, IInv, TypeOK, Targets
    <3> QED
      BY <3>1, BeginRefines
  <2> QED
    BY <1>2, <2>1, <2>2
<1>3. ASSUME NEW t \in Threads, NEW d \in Handles, NEW s \in Handles,
             CopyAssign(t, d, s) \/ MoveAssign(t, d, s) \/ RtCopyAssign(t, d, s)
      PROVE  [Shared!Next]_(Shared!vars)
  <2>1. PICK pc \in {"decref", "rtIncref"}, o \in Targets, next \in {"idle", "copy", "move", "clear"} :
          /\ pc = "decref" => next # "idle"
          /\ thread[t] = Idle /\ Become(t, Busy(pc, d, s, o, next))
          /\ ptr' = ptr /\ owner' = owner /\ alloc' = alloc
    BY <1>3 DEF CopyAssign, MoveAssign, RtCopyAssign, MayUse, IInv, TypeOK, Targets
  <2> QED
    BY <2>1, BeginRefines
<1>4. ASSUME NEW t \in Threads, NEW d \in Handles, NEW s \in Handles,
             CopyConstruct(t, d, s) \/ MoveConstruct(t, d, s)
      PROVE  [Shared!Next]_(Shared!vars)
  BY <1>4, CopyConstructRefines, MoveConstructRefines
<1>5. ASSUME NEW t \in Threads, NEW d \in Handles, NEW s \in Handles, RtMoveAssign(t, d, s)
      PROVE  [Shared!Next]_(Shared!vars)
  <2>1. CASE d = s
    <3>1. /\ thread[t] = Idle /\ ptr' = ptr /\ alloc' = alloc /\ thread' = [thread EXCEPT ![t] = Idle]
      BY <1>5, <2>1 DEF RtMoveAssign, MayUse, Become
    <3>2. thread' = thread
      BY <3>1 DEF IInv, TypeOK
    <3>3. RefMapping' = RefMapping /\ StateMapping' = StateMapping
      BY <3>1, <3>2 DEF RefMapping, StateMapping, IsUncounted
    <3> QED
      BY <3>3, Stutters
  <2>2. CASE d # s
    BY <1>5, <2>2, RtMoveAssignRefines
  <2> QED
    BY <2>1, <2>2
<1>6. ASSUME NEW t \in Threads, Begin(t) PROVE [Shared!Next]_(Shared!vars)
  <2>1. ASSUME NEW u \in Threads, NEW h \in Handles, Give(t, u, h) PROVE [Shared!Next]_(Shared!vars)
    BY <2>1, GiveRefines
  <2> QED
    BY <1>2, <1>3, <1>4, <1>5, <1>6, <2>1 DEF Begin
<1>7. ASSUME NEW t \in Threads, Continue(t) PROVE [Shared!Next]_(Shared!vars)
  BY <1>7, IncrefRefines, RtIncrefRefines, DecrefRefines, FreeObjectRefines, CopyRefines, MoveStepRefines,
     ClearRefines DEF Continue
<1> QED
  BY <1>1, <1>6, <1>7 DEF Next

\* However many threads copy, move and drop handles, their users see shared
\* references: every step is one of SharedReferences or none.
THEOREM RefCountRefines == Spec => ImplementsSharedReferences
<1>1. Spec => Shared!Spec
  BY InitRefines, NextRefines, Invariant, PTL DEF Spec, Shared!Spec
<1> QED
  BY <1>1 DEF ImplementsSharedReferences

=============================================================================
