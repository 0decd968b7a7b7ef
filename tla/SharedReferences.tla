-------------------------- MODULE SharedReferences --------------------------
(***************************************************************************)
(* What Ref<T> and RtValue promise to those who use them: references to    *)
(* shared objects, without counts and without steps half done.  An object  *)
(* can be reached by a reference from its creation on, is destroyed once   *)
(* no reference to it is left, and nobody comes by a reference to it other *)
(* than from one who has one.                                              *)
(***************************************************************************)
CONSTANTS
  References,   \* the names of references: handles and temporaries
  Objects,
  Null

VARIABLES
  ref,      \* reference -> the object it keeps alive, or Null
  state     \* object -> "new", "live" or "freed"

vars == <<ref, state>>

Init ==
  /\ ref = [r \in References |-> Null]
  /\ state = [o \in Objects |-> "new"]

\* An object is made and referred to.
Create(r, o) ==
  /\ state[o] = "new" /\ ref[r] = Null
  /\ state' = [state EXCEPT ![o] = "live"]
  /\ ref' = [ref EXCEPT ![r] = o]

\* A reference is copied to one that refers to nothing ...
Copy(r, s) ==
  /\ r # s /\ ref[r] = Null
  /\ ref' = [ref EXCEPT ![r] = ref[s]]
  /\ UNCHANGED state

\* ... or moved to it ...
Move(r, s) ==
  /\ r # s /\ ref[r] = Null
  /\ ref' = [ref EXCEPT ![r] = ref[s], ![s] = Null]
  /\ UNCHANGED state

\* ... or copied or moved to one whose object goes to a temporary.
CopyOver(r, s, tmp) ==
  /\ tmp \notin {r, s} /\ ref[tmp] = Null
  /\ ref' = [ref EXCEPT ![r] = ref[s], ![tmp] = ref[r]]
  /\ UNCHANGED state

MoveOver(r, s, tmp) ==
  /\ tmp \notin {r, s} /\ r # s /\ ref[tmp] = Null
  /\ ref' = [ref EXCEPT ![r] = ref[s], ![s] = Null, ![tmp] = ref[r]]
  /\ UNCHANGED state

\* A reference is given up.
Drop(r) ==
  /\ ref' = [ref EXCEPT ![r] = Null]
  /\ UNCHANGED state

\* An object nobody refers to is destroyed, once.
Reclaim(o) ==
  /\ state[o] = "live"
  /\ \A r \in References : ref[r] # o
  /\ state' = [state EXCEPT ![o] = "freed"]
  /\ UNCHANGED ref

Next ==
  \/ \E r \in References, o \in Objects : Create(r, o)
  \/ \E r, s \in References : Copy(r, s) \/ Move(r, s)
  \/ \E r, s, tmp \in References : CopyOver(r, s, tmp) \/ MoveOver(r, s, tmp)
  \/ \E r \in References : Drop(r)
  \/ \E o \in Objects : Reclaim(o)

Spec == Init /\ [][Next]_vars

=============================================================================
