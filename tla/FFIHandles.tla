----------------------------- MODULE FFIHandles -----------------------------
(***************************************************************************)
(* The handles by which mods name objects of the game: one table for all   *)
(* mods (HandleCollection, UltimatePhobia/ffi_interface.cpp) and, in each  *)
(* mod, plain numbers or the wrappers of ffi_interface.hpp (UniqueHandle,  *)
(* HandleContainer).                                                       *)
(*                                                                         *)
(* The table reuses numbers: whoever drops a number twice drops somebody   *)
(* else's object.  Everything runs on the game's main thread, but mods run *)
(* in each other's callbacks, so their uses of the table mix freely.       *)
(***************************************************************************)
EXTENDS Integers

CONSTANTS
  Objects,   \* the game's objects
  Owners,    \* variables of mods that hold handles
  None,      \* the null pointer
  MaxHandle  \* the largest HandleT

Null == 0
Invalid == -1

\* A raw number, a wrapper that owns its handle or one that borrows it.
Kinds == {"raw", "own", "lent"}

VARIABLES
  last_id,   \* HandleCollection
  objects,   \* ... its map from numbers to objects, None where there is none
  holders,   \* per owner: None, or kind, number and the object it stands for
  careless   \* history: a mod made a call of the two that break the table

vars == <<last_id, objects, holders, careless>>

\* Every number the table can come to: drops of numbers it never gave out can
\* bring last_id to -2, no further.
Ids == -2..MaxHandle

Holders == [kind : Kinds, ptr : Ids, obj : Objects \cup {None}]

ASSUME HandleAssumption ==
  /\ MaxHandle \in Nat /\ MaxHandle > 1
  /\ None \notin Objects \cup Holders

Holder(kind, ptr, obj) == [kind |-> kind, ptr |-> ptr, obj |-> obj]

Init ==
  /\ last_id = 0
  /\ objects = [i \in Ids |-> None]
  /\ holders = [o \in Owners |-> None]
  /\ careless = FALSE

Taken == {i \in Ids : objects[i] # None}

get(id) == IF id \in Ids \ {Null} THEN objects[id] ELSE None

-----------------------------------------------------------------------------
(* HandleCollection.                                                       *)

\* Faulty: the next number is taken for free.
NextNumber(id) == id = last_id + 1

\* The first number after last_id that is not taken.
FirstFree(id) ==
  /\ id > last_id /\ id \notin Taken
  /\ \A i \in Ids : last_id < i /\ i < id => i \in Taken

\* Faulty: one number too late.
RanOutLate(id) == id = MaxHandle

RanOut(id) == id = MaxHandle - 1

\* add: the number it returns for obj.  Beyond MaxHandle ++last_id overflows;
\* last_id < MaxHandle is a bound of the model.
Add(obj, res) ==
  IF obj = None
  THEN res = Null /\ UNCHANGED <<last_id, objects>>
  ELSE /\ last_id < MaxHandle /\ last_id' = last_id + 1
       /\ \E id \in Ids :
            /\ FirstFree(id)
            /\ IF RanOut(id)
               THEN res = Invalid /\ UNCHANGED objects
               ELSE res = id /\ objects' = [objects EXCEPT ![id] = obj]

Erased(objs, id) == IF id > 0 THEN [objs EXCEPT ![id] = None] ELSE objs

Drop(id) ==
  /\ objects' = Erased(objects, id)
  /\ last_id' = IF id = last_id THEN last_id - 1 ELSE last_id

NoDrop == UNCHANGED <<last_id, objects>>

-----------------------------------------------------------------------------
(* What mods do.                                                           *)

\* A function of the interface returns obj: the mod gets a plain number.
Receive(o, obj) ==
  /\ holders[o] = None
  /\ \E res \in Ids :
       /\ Add(obj, res)
       /\ holders' = [holders EXCEPT ![o] =
                        Holder("raw", res, IF res = Invalid THEN None ELSE obj)]
  /\ UNCHANGED careless

\* UniqueHandle::Own.
Own(o) ==
  /\ holders[o] # None /\ holders[o].kind = "raw"
  /\ holders' = [holders EXCEPT ![o].kind = "own"]
  /\ NoDrop /\ UNCHANGED careless

\* A second wrapper for the same handle.
Lend(o, p) ==
  /\ holders[o] # None /\ holders[p] = None
  /\ holders' = [holders EXCEPT ![p] =
                   Holder("lent", holders[o].ptr, holders[o].obj)]
  /\ NoDrop /\ UNCHANGED careless

\* Faulty: the wrapper that was moved from keeps its handle.
KeepsHandle(h) == h

\* release: the wrapper that was moved from, which goes on owning.
Released(h) == Holder(h.kind, Invalid, None)

IsWrapper(h) == h # None /\ h.kind # "raw"

\* The move constructor.
Move(o, p) ==
  /\ IsWrapper(holders[o]) /\ holders[p] = None
  /\ holders' = [holders EXCEPT ![p] = holders[o], ![o] = Released(holders[o])]
  /\ NoDrop /\ UNCHANGED careless

\* release_handle: the number without the wrapper.
ReleaseHandle(o, p) ==
  /\ IsWrapper(holders[o]) /\ holders[p] = None
  /\ holders' = [holders EXCEPT
                   ![p] = IF holders[o].kind = "own"
                          THEN [holders[o] EXCEPT !.kind = "raw"]
                          ELSE holders[o],
                   ![o] = Released(holders[o])]
  /\ NoDrop /\ UNCHANGED careless

\* UniqueHandle::reset.
Reset(h) ==
  IF h.kind = "own" /\ h.ptr # Null THEN Drop(h.ptr) ELSE NoDrop

\* The move assignment: reset, then the other's handle.
Assign(o, p) ==
  /\ o # p /\ IsWrapper(holders[o]) /\ IsWrapper(holders[p])
  /\ Reset(holders[p])
  /\ holders' = [holders EXCEPT ![p] = holders[o], ![o] = Released(holders[o])]
  /\ UNCHANGED careless

\* The destructor of a wrapper.
Destroy(o) ==
  /\ IsWrapper(holders[o])
  /\ Reset(holders[o])
  /\ holders' = [holders EXCEPT ![o] = None]
  /\ UNCHANGED careless

\* HandleContainer::reset.  The wrapper keeps the number and owns it: this is
\* one of the calls that break the table.
ResetContainer(o) ==
  /\ IsWrapper(holders[o])
  /\ Reset(holders[o])
  /\ holders' = [holders EXCEPT ![o].obj = None]
  /\ careless' = (careless \/ (holders[o].kind = "own" /\ holders[o].ptr > 0))

\* dropObject of a plain number, which is then forgotten.  Null and Invalid
\* are no numbers of the table, but may be where last_id stands.
DropRaw(o) ==
  /\ holders[o] # None /\ holders[o].kind = "raw"
  /\ Drop(holders[o].ptr)
  /\ holders' = [holders EXCEPT ![o] = None]
  /\ careless' = (careless \/ (holders[o].ptr = last_id /\ last_id <= 0))

Next ==
  \E o \in Owners :
    \/ \E obj \in Objects \cup {None} : Receive(o, obj)
    \/ \E p \in Owners :
         Lend(o, p) \/ Move(o, p) \/ ReleaseHandle(o, p) \/ Assign(o, p)
    \/ Own(o) \/ Destroy(o) \/ ResetContainer(o) \/ DropRaw(o)

Spec == Init /\ [][Next]_vars

-----------------------------------------------------------------------------
(* Properties.                                                             *)

\* Types; however numbers are dropped, last_id stays a number of the table and
\* the number that stands for "ran out" is never given to an object.
TypeOK ==
  /\ last_id \in Ids
  /\ objects \in [Ids -> Objects \cup {None}] /\ objects[MaxHandle - 1] = None
  /\ holders \in [Owners -> Holders \cup {None}]
  /\ careless \in BOOLEAN

\* o answers for the handle of an object.
Owns(o) ==
  holders[o] # None /\ holders[o].kind # "lent" /\ holders[o].obj # None

\* As long as no mod was careless, all mods and wrappers together lose no object
\* and leave none behind, whatever is moved, lent and dropped in which order: a
\* handle that somebody answers for stands for the object it was made for, and
\* a number in the table has exactly one who answers for it.
TableIsOwned ==
  ~careless =>
    /\ \A o \in Owners : Owns(o) => get(holders[o].ptr) = holders[o].obj
    /\ \A i \in Taken : \E o \in Owners :
         /\ Owns(o) /\ holders[o].ptr = i
         /\ \A p \in Owners \ {o} : Owns(p) => holders[p].ptr # i

\* Even with careless mods, a number is never given to a second object while
\* the table still has the first.
NeverReassigned ==
  [][\A i \in Taken : objects'[i] \in {objects[i], None}]_vars

\* "FFI unique handle (like unique_ptr)": a wrapper that owns a number of the
\* table has its object, whatever other wrappers do.
LikeUniquePtr ==
  \A o \in Owners :
    Owns(o) /\ holders[o].kind = "own" /\ holders[o].ptr > 0
      => get(holders[o].ptr) = holders[o].obj
=============================================================================
