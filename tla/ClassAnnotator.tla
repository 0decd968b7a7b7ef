---------------------------- MODULE ClassAnnotator ----------------------------
(***************************************************************************)
(* class ClassAnnotator: what a user adds to TorchScript classes before an *)
(* import.  A world is what PyTorch holds:                                 *)
(*   classes   class -> [attrs   : Seq([name, type]),                      *)
(*                       methods : Seq([name, func])]                      *)
(*   rootClass the class whose members the user annotates                  *)
(*   arity     func -> number of parameters, "self" included               *)
(*   paths     the paths the user may name                                 *)
(*   argLists  the lists of argument annotations the user may give         *)
(*   values, root, units, unimportable: see IValueImporter                 *)
(* A type is a class or another string.  An entry of an argument list is   *)
(* [shape, dtype, valueSem]; None stands for a Python None, and for        *)
(* everything when nothing is said of the argument; NotADtype is an object *)
(* that is none, and a valueSem of None a tuple too short to have one.     *)
(***************************************************************************)
EXTENDS Integers, Sequences, FiniteSets, SequencesExt

CONSTANTS
  Worlds,
  MaxCalls,    \* bound on the calls of the user
  None,
  NotADtype

VARIABLES
  world,
  annotations, \* annotated class -> what is known of its attributes and methods
  calls        \* the calls made, the last one last

Classes(w) == DOMAIN w.classes
Attrs(w, c) == w.classes[c].attrs
Methods(w, c) == w.classes[c].methods
MemberNames(w, c) == {m.name : m \in ToSet(Attrs(w, c))} \cup {m.name : m \in ToSet(Methods(w, c))}

\* The classes of the attributes of c: submodules.
ChildClasses(w, c) == {a.type : a \in ToSet(Attrs(w, c))} \cap Classes(w)

ChildClass(w, c, name) ==
  LET types == {a.type : a \in {b \in ToSet(Attrs(w, c)) : b.name = name}} \cap Classes(w)
  IN IF types = {} THEN None ELSE CHOOSE type \in types : TRUE

\* The class of a nested submodule, None if there is none.
GetClassAtPath(w, c, path) ==
  LET at[i \in 0 .. Len(path)] ==
        IF i = 0 THEN c
        ELSE IF at[i - 1] = None THEN None ELSE ChildClass(w, at[i - 1], path[i])
  IN at[Len(path)]

NoArgAnnotation == [shape |-> None, dtype |-> None, valueSem |-> FALSE]

\* The default: everything is exported and nothing is known.
ClassAnnotation(w, c) ==
  [attrs   |-> [i \in DOMAIN Attrs(w, c) |-> TRUE],
   methods |-> [i \in DOMAIN Methods(w, c) |-> [exported |-> TRUE, args |-> <<>>]]]

\* Faulty: an annotation that exists is replaced.
GetOrCreateAnew(cs) ==
  [c \in DOMAIN annotations \cup cs |->
     IF c \in cs THEN ClassAnnotation(world, c) ELSE annotations[c]]

\* The annotations once those of the classes cs have been created.
GetOrCreate(cs) ==
  [c \in DOMAIN annotations \cup cs |->
     IF c \in DOMAIN annotations THEN annotations[c] ELSE ClassAnnotation(world, c)]

AnnotatorInit ==
  /\ world \in Worlds
  /\ annotations = [c \in {} |-> {}]
  /\ calls = <<>>

MayCall == Len(calls) < MaxCalls

Called(op, path, args, ok) == calls' = Append(calls, [op |-> op, path |-> path, args |-> args, ok |-> ok])

-----------------------------------------------------------------------------
\* The class and, recursively, those of its submodules.
BelowClass(w, c) ==
  {d \in Classes(w) :
     \A closed \in SUBSET Classes(w) :
       c \in closed /\ (\A e \in closed : ChildClasses(w, e) \subseteq closed) => d \in closed}

\* exportNone: nothing below the root class is exported.
ExportNone ==
  LET below   == BelowClass(world, world.rootClass)
      created == GetOrCreate(below)
  IN /\ MayCall
     /\ annotations' =
          [c \in DOMAIN created |->
             IF c \notin below THEN created[c]
             ELSE [attrs   |-> [i \in DOMAIN created[c].attrs |-> FALSE],
                   methods |-> [i \in DOMAIN created[c].methods |->
                                  [exported |-> FALSE, args |-> created[c].methods[i].args]]]]
     /\ Called("none", <<>>, <<>>, TRUE)
     /\ UNCHANGED world

\* exportPath: an attribute or a method of a nested submodule.
ExportPath(path) ==
  LET c       == IF path = <<>> THEN None ELSE GetClassAtPath(world, world.rootClass, Front(path))
      created == GetOrCreate({c})
      ok      == c # None /\ Last(path) \in MemberNames(world, c)
  IN /\ MayCall
     /\ IF ok
        THEN annotations' =
               [created EXCEPT ![c] =
                  [attrs   |-> [i \in DOMAIN @.attrs |->
                                  @.attrs[i] \/ Attrs(world, c)[i].name = Last(path)],
                   methods |-> [i \in DOMAIN @.methods |->
                                  [exported |-> \/ @.methods[i].exported
                                                \/ Methods(world, c)[i].name = Last(path),
                                   args     |-> @.methods[i].args]]]]
        ELSE UNCHANGED annotations
     /\ Called("export", path, <<>>, ok)
     /\ UNCHANGED world

-----------------------------------------------------------------------------
\* fillArgAnnotations.  Entries are stored one by one, the shape of an entry
\* before its dtype is looked at: an exception leaves what has been stored.

IsComplete(entry) == entry = None \/ (entry.dtype # NotADtype /\ entry.valueSem # None)

\* The entries that are reached: those before the first that raises, and it.
Reached(args) == {j \in DOMAIN args : \A i \in 1 .. j - 1 : IsComplete(args[i])}

FillEntry(old, entry) ==
  IF entry = None THEN old
  ELSE [shape    |-> IF entry.shape = None THEN old.shape ELSE entry.shape,
        dtype    |-> IF entry.dtype \in {None, NotADtype} THEN old.dtype ELSE entry.dtype,
        valueSem |-> IF IsComplete(entry) THEN entry.valueSem ELSE old.valueSem]

FillArgAnnotations(old, args) ==
  LET filled == IF old = <<>> THEN [j \in DOMAIN args |-> NoArgAnnotation] ELSE old
  IN [j \in DOMAIN args |-> IF j \in Reached(args) THEN FillEntry(filled[j], args[j]) ELSE filled[j]]

\* annotateArgs: the arguments of a method of a nested submodule.
AnnotateArgs(path, args) ==
  LET c       == IF path = <<>> THEN None ELSE GetClassAtPath(world, world.rootClass, Front(path))
      named   == IF c = None THEN {} ELSE {i \in DOMAIN Methods(world, c) :
                                             Methods(world, c)[i].name = Last(path)}
      created == GetOrCreate({c})
      fits    == \A i \in named : Len(args) = world.arity[Methods(world, c)[i].func]
  IN /\ MayCall
     /\ CASE named = {}             -> UNCHANGED annotations
          [] named # {} /\ ~ fits   -> annotations' = created
          [] named # {} /\ fits     ->
               annotations' =
                 [created EXCEPT ![c] =
                    [attrs   |-> @.attrs,
                     methods |-> [i \in DOMAIN @.methods |->
                                    [exported |-> @.methods[i].exported,
                                     args     |-> IF i \in named
                                                  THEN FillArgAnnotations(@.methods[i].args, args)
                                                  ELSE @.methods[i].args]]]]
     /\ Called("args", path, args,
               named # {} /\ fits /\ \A j \in DOMAIN args : IsComplete(args[j]))
     /\ UNCHANGED world

AnnotatorNext ==
  \/ ExportNone
  \/ \E path \in world.paths : ExportPath(path)
  \/ \E path \in world.paths, args \in world.argLists : AnnotateArgs(path, args)

-----------------------------------------------------------------------------
\* getMethodAnnotationForFunction.  functionToMethodMap has the methods of the
\* classes that have been annotated; <<>>: nothing is known of the arguments.
ArgAnnotationsOf(func) ==
  LET owners == {c \in DOMAIN annotations : \E m \in ToSet(Methods(world, c)) : m.func = func}
      owner  == CHOOSE c \in owners : TRUE
      index  == CHOOSE i \in DOMAIN Methods(world, owner) : Methods(world, owner)[i].func = func
  IN IF owners = {} THEN <<>> ELSE annotations[owner].methods[index].args

=============================================================================
