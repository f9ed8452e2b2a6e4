-------------------------- MODULE FFIHandlesProofs --------------------------
(***************************************************************************)
(* TLAPS proofs about FFIHandles, for any objects, owners and number of    *)
(* handles: its types, that the table is owned, that wrappers own their    *)
(* objects in careful programs, and that no number gets a second object.   *)
(***************************************************************************)
EXTENDS FFIHandles, TLAPS

Tables == [Ids -> Objects \cup {None}]

(* The parts of the invariant, of a table t, its last_id l and holders h.  *)

TableType(l, t) == l \in Ids /\ t \in Tables /\ t[MaxHandle - 1] = None

HoldersType(h) ==
  /\ h \in [Owners -> Holders \cup {None}]
  /\ \A o \in Owners : h[o] # None => h[o].ptr >= Invalid

Answers(h, o) == h[o] # None /\ h[o].kind # "lent" /\ h[o].obj # None

Positive(t) == \A i \in Ids : t[i] # None => i > 0

OwnersKnown(t, h) ==
  \A i \in Ids : t[i] # None =>
    \E o \in Owners : Answers(h, o) /\ h[o].ptr = i

OwnedIsThere(t, h) ==
  \A o \in Owners : Answers(h, o) => h[o].ptr > 0 /\ t[h[o].ptr] = h[o].obj

OwnedOnce(h) ==
  \A o, p \in Owners :
    Answers(h, o) /\ Answers(h, p) /\ h[o].ptr = h[p].ptr => o = p

\* Who owns nothing would drop nothing.
EmptyHanded(h) ==
  \A o \in Owners :
    h[o] # None /\ h[o].kind # "lent" /\ h[o].obj = None
      => h[o].ptr \in {Null, Invalid}

Careful(l, t, h) ==
  /\ l >= 0 /\ Positive(t)
  /\ OwnersKnown(t, h) /\ OwnedIsThere(t, h) /\ OwnedOnce(h) /\ EmptyHanded(h)

HandleInv ==
  /\ TableType(last_id, objects) /\ HoldersType(holders)
  /\ careless \in BOOLEAN
  /\ ~careless => Careful(last_id, objects, holders)

LEMMA IdsProps ==
  /\ Ids \subseteq Int /\ 0 \in Ids /\ -1 \in Ids /\ MaxHandle - 1 \in Ids
  /\ \A i \in Int : i \in Ids <=> -2 <= i /\ i <= MaxHandle
  /\ MaxHandle - 1 > 0 /\ MaxHandle \in Int
BY HandleAssumption DEF Ids

-----------------------------------------------------------------------------
(* The table.                                                              *)

\* What add does: it gives a free number to obj, or changes no entry.
LEMMA AddProps ==
  ASSUME TableType(last_id, objects), NEW obj \in Objects \cup {None},
         NEW res \in Ids, Add(obj, res)
  PROVE  /\ TableType(last_id', objects') /\ res >= Invalid
         /\ last_id' >= last_id
         /\ \/ objects' = objects /\ (res = Invalid \/ (res = Null /\ obj = None))
            \/ /\ obj # None /\ res > last_id /\ objects[res] = None
               /\ objects' = [objects EXCEPT ![res] = obj]
<1>0. last_id \in Ids /\ objects \in Tables /\ last_id \in Int /\ last_id >= -2
  BY IdsProps DEF TableType
<1>1. CASE obj = None
  BY <1>0, <1>1, IdsProps DEF Add, TableType, Null, Invalid
<1>2. CASE obj # None
  <2>1. last_id' \in Ids /\ last_id' >= last_id
    BY <1>0, <1>2, IdsProps DEF Add
  <2>2. PICK id \in Ids :
          /\ FirstFree(id)
          /\ IF RanOut(id)
             THEN res = Invalid /\ UNCHANGED objects
             ELSE res = id /\ objects' = [objects EXCEPT ![id] = obj]
    BY <1>2 DEF Add
  <2>3. id > last_id /\ objects[id] = None /\ id \in Int
    BY <2>2, IdsProps DEF FirstFree, Taken
  <2>4. CASE RanOut(id)
    BY <1>0, <2>1, <2>2, <2>4, IdsProps DEF TableType, Invalid
  <2>5. CASE ~RanOut(id)
    <3>1. res = id /\ objects' = [objects EXCEPT ![id] = obj]
          /\ id # MaxHandle - 1
      BY <2>2, <2>5 DEF RanOut
    <3>2. objects' \in Tables /\ objects'[MaxHandle - 1] = None
      BY <1>0, <3>1, IdsProps DEF Tables, TableType
    <3>3. res >= Invalid
      BY <1>0, <2>3, <3>1 DEF Invalid
    <3> QED
      BY <1>2, <2>1, <2>3, <3>1, <3>2, <3>3 DEF TableType
  <2> QED
    BY <2>4, <2>5
<1> QED
  BY <1>1, <1>2

\* Faulty drops move last_id down, but not out of range.
LEMMA DropProps ==
  ASSUME TableType(last_id, objects), NEW id \in Ids, id >= Invalid, Drop(id)
  PROVE  /\ TableType(last_id', objects')
         /\ objects' = Erased(objects, id)
         /\ last_id' = last_id \/ (id = last_id /\ last_id' = last_id - 1)
<1>1. last_id \in Int /\ last_id' \in Ids
  BY IdsProps DEF Drop, TableType, Invalid
<1>2. objects' \in Tables /\ objects'[MaxHandle - 1] = None
  BY IdsProps DEF Drop, TableType, Tables, Erased
<1> QED
  BY <1>1, <1>2 DEF Drop, TableType

\* Every action leaves an entry alone, empties it, or fills an empty one.
Kept(t, u) == \A i \in Ids : t[i] # None => u[i] \in {t[i], None}

LEMMA AddKeeps ==
  ASSUME TableType(last_id, objects), NEW obj \in Objects \cup {None},
         NEW res \in Ids, Add(obj, res)
  PROVE  Kept(objects, objects')
BY AddProps DEF Kept, TableType, Tables

LEMMA DropKeeps ==
  ASSUME TableType(last_id, objects), NEW id \in Ids, Drop(id)
  PROVE  Kept(objects, objects')
BY DEF Kept, Drop, Erased, TableType, Tables

LEMMA ResetKeeps ==
  ASSUME TableType(last_id, objects), HoldersType(holders),
         NEW o \in Owners, holders[o] # None, Reset(holders[o])
  PROVE  Kept(objects, objects') /\ TableType(last_id', objects')
<1>1. holders[o] \in Holders /\ holders[o].ptr >= Invalid
  BY DEF HoldersType
<1>2. holders[o].ptr \in Ids
  BY <1>1 DEF Holders
<1>3. CASE NoDrop
  BY <1>3 DEF Kept, NoDrop
<1>4. CASE Drop(holders[o].ptr)
  BY <1>1, <1>2, <1>4, DropKeeps, DropProps
<1> QED
  BY <1>3, <1>4 DEF Reset

-----------------------------------------------------------------------------
(* Holders of any kind.                                                    *)

LEMMA HolderProps ==
  ASSUME NEW k \in Kinds, NEW i \in Ids, NEW x \in Objects \cup {None}
  PROVE  /\ Holder(k, i, x) \in Holders /\ Holder(k, i, x) # None
         /\ Holder(k, i, x).kind = k /\ Holder(k, i, x).ptr = i
         /\ Holder(k, i, x).obj = x
<1>1. Holder(k, i, x) \in Holders
  BY DEF Holder, Holders
<1> QED
  BY <1>1, HandleAssumption DEF Holder

LEMMA HeldProps ==
  ASSUME NEW h, HoldersType(h), NEW o \in Owners, h[o] # None
  PROVE  /\ h[o] \in Holders /\ h[o].kind \in Kinds /\ h[o].ptr \in Ids
         /\ h[o].ptr \in Int /\ h[o].ptr >= Invalid
         /\ h[o].obj \in Objects \cup {None}
<1>1. h[o] \in Holders /\ h[o].ptr >= Invalid
  BY DEF HoldersType
<1> QED
  BY <1>1, IdsProps DEF Holders

LEMMA ReleasedProps ==
  ASSUME NEW x \in Holders
  PROVE  /\ Released(x) \in Holders /\ Released(x) # None
         /\ Released(x).kind = x.kind /\ Released(x).ptr = Invalid
         /\ Released(x).obj = None
<1>1. x.kind \in Kinds /\ Invalid \in Ids
  BY IdsProps DEF Holders, Invalid
<1> QED
  BY <1>1, HolderProps DEF Released

LEMMA PutType ==
  ASSUME NEW h, HoldersType(h), NEW p \in Owners,
         NEW x \in Holders \cup {None}, x # None => x.ptr >= Invalid
  PROVE  HoldersType([h EXCEPT ![p] = x])
BY DEF HoldersType

-----------------------------------------------------------------------------
(* Careful use of the table.                                               *)

\* Forgetting someone who owns no object.
LEMMA ForgetCareful ==
  ASSUME NEW l, NEW t, NEW h, HoldersType(h), Careful(l, t, h),
         NEW p \in Owners, ~Answers(h, p)
  PROVE  Careful(l, t, [h EXCEPT ![p] = None])
<1> DEFINE g == [h EXCEPT ![p] = None]
<1>1. \A o \in Owners : g[o] = IF o = p THEN None ELSE h[o]
  BY DEF HoldersType
<1> HIDE DEF g
<1>2. \A o \in Owners : Answers(g, o) <=> Answers(h, o)
  BY <1>1 DEF Answers
<1>3. \A o \in Owners : Answers(g, o) => g[o] = h[o]
  BY <1>1 DEF Answers
<1>4. OwnersKnown(t, g)
  BY <1>2, <1>3 DEF Careful, OwnersKnown
<1>5. OwnedIsThere(t, g) /\ OwnedOnce(g)
  BY <1>2, <1>3 DEF Careful, OwnedIsThere, OwnedOnce
<1>6. EmptyHanded(g)
  BY <1>1 DEF Careful, EmptyHanded
<1> QED
  BY <1>4, <1>5, <1>6 DEF Careful, g

\* Dropping the number of someone who is not a borrower.
LEMMA DropCareful ==
  ASSUME NEW l, NEW m, NEW t \in Tables, NEW h, HoldersType(h),
         Careful(l, t, h), m >= 0,
         NEW p \in Owners, h[p] # None, h[p].kind # "lent"
  PROVE  Careful(m, Erased(t, h[p].ptr), [h EXCEPT ![p] = None])
<1> DEFINE g == [h EXCEPT ![p] = None]
           id == h[p].ptr
           u == Erased(t, id)
<1>0. id \in Ids /\ id \in Int
  BY HeldProps
<1>1. \A o \in Owners : g[o] = IF o = p THEN None ELSE h[o]
  BY DEF HoldersType
<1>2. CASE ~Answers(h, p)
  <2>1. id \in {Null, Invalid}
    BY <1>2 DEF Careful, EmptyHanded, Answers
  <2>2. u = t
    BY <2>1 DEF Erased, Null, Invalid
  <2> QED
    BY <1>2, <2>2, ForgetCareful DEF Careful
<1>3. CASE Answers(h, p)
  <2>1. id > 0 /\ \A i \in Ids : u[i] = IF i = id THEN None ELSE t[i]
    BY <1>0, <1>3 DEF Careful, OwnedIsThere, Erased, Tables
  <2>2. \A o \in Owners : Answers(g, o) =>
          o # p /\ g[o] = h[o] /\ Answers(h, o) /\ h[o].ptr # id
    BY <1>1, <1>3 DEF Careful, OwnedOnce, Answers
  <2>3. \A o \in Owners : Answers(h, o) /\ h[o].ptr # id => Answers(g, o)
    BY <1>1 DEF Answers
  <2>4. \A o \in Owners : Answers(h, o) => h[o].ptr \in Ids
    BY HeldProps DEF Answers
  <2> HIDE DEF g, u, id
  <2>5. Positive(u)
    BY <2>1 DEF Careful, Positive
  <2>6. OwnersKnown(u, g)
    <3> SUFFICES ASSUME NEW i \in Ids, u[i] # None
                 PROVE  \E o \in Owners : Answers(g, o) /\ g[o].ptr = i
      BY DEF OwnersKnown
    <3>1. i # id /\ t[i] # None
      BY <2>1
    <3>2. PICK o \in Owners : Answers(h, o) /\ h[o].ptr = i
      BY <3>1 DEF Careful, OwnersKnown
    <3>3. Answers(g, o)
      BY <2>3, <3>1, <3>2
    <3> QED
      BY <2>2, <3>2, <3>3
  <2>7. OwnedIsThere(u, g)
    BY <2>1, <2>2, <2>4 DEF Careful, OwnedIsThere
  <2>8. OwnedOnce(g)
    BY <2>2 DEF Careful, OwnedOnce
  <2>9. EmptyHanded(g)
    BY <1>1 DEF Careful, EmptyHanded
  <2> QED
    BY <2>5, <2>6, <2>7, <2>8, <2>9 DEF Careful, g, u, id
<1> QED
  BY <1>2, <1>3

\* Passing on what o has to p, who has nothing; o keeps an empty wrapper.
LEMMA PassCareful ==
  ASSUME NEW l, NEW t, NEW h, HoldersType(h), Careful(l, t, h),
         NEW o \in Owners, NEW p \in Owners, o # p, h[o] # None, h[p] = None,
         NEW x \in Holders, x.ptr = h[o].ptr, x.obj = h[o].obj,
         x.kind = "lent" <=> h[o].kind = "lent"
  PROVE  Careful(l, t, [h EXCEPT ![p] = x, ![o] = Released(h[o])])
<1> DEFINE g == [h EXCEPT ![p] = x, ![o] = Released(h[o])]
<1>0. /\ Released(h[o]) # None /\ Released(h[o]).ptr = Invalid
      /\ Released(h[o]).obj = None /\ x # None
  BY HeldProps, ReleasedProps, HandleAssumption
<1>1. \A q \in Owners : g[q] = IF q = o THEN Released(h[o])
                               ELSE IF q = p THEN x ELSE h[q]
  BY DEF HoldersType
<1> HIDE DEF g
<1>2. ~Answers(g, o) /\ ~Answers(h, p) /\ (Answers(g, p) <=> Answers(h, o))
  BY <1>0, <1>1 DEF Answers
<1>3. \A q \in Owners \ {o, p} : g[q] = h[q] /\ (Answers(g, q) <=> Answers(h, q))
  BY <1>1 DEF Answers
<1>4. g[p].ptr = h[o].ptr /\ g[p].obj = h[o].obj
  BY <1>1
<1>5. OwnersKnown(t, g)
  <2> SUFFICES ASSUME NEW i \in Ids, t[i] # None
               PROVE  \E q \in Owners : Answers(g, q) /\ g[q].ptr = i
    BY DEF OwnersKnown
  <2>1. PICK q \in Owners : Answers(h, q) /\ h[q].ptr = i
    BY DEF Careful, OwnersKnown
  <2> QED
    BY <1>2, <1>3, <1>4, <2>1
<1>6. OwnedIsThere(t, g)
  <2> SUFFICES ASSUME NEW q \in Owners, Answers(g, q)
               PROVE  g[q].ptr > 0 /\ t[g[q].ptr] = g[q].obj
    BY DEF OwnedIsThere
  <2> QED
    BY <1>2, <1>3, <1>4 DEF Careful, OwnedIsThere
<1>7. OwnedOnce(g)
  <2> SUFFICES ASSUME NEW q \in Owners, NEW r \in Owners, Answers(g, q),
                      Answers(g, r), g[q].ptr = g[r].ptr
               PROVE  q = r
    BY DEF OwnedOnce
  <2> QED
    BY <1>2, <1>3, <1>4 DEF Careful, OwnedOnce
<1>8. EmptyHanded(g)
  BY <1>0, <1>1 DEF Careful, EmptyHanded
<1> QED
  BY <1>5, <1>6, <1>7, <1>8 DEF Careful, g

\* Another entry for the same owner in which nothing he answers for changes.
LEMMA SameCareful ==
  ASSUME NEW l, NEW t, NEW h, HoldersType(h), Careful(l, t, h),
         NEW p \in Owners, NEW x,
         x # None /\ x.kind # "lent" => h[p] # None /\ h[p].kind # "lent"
            /\ h[p].ptr = x.ptr /\ h[p].obj = x.obj,
         Answers(h, p) => x # None /\ x.kind # "lent"
  PROVE  Careful(l, t, [h EXCEPT ![p] = x])
<1> DEFINE g == [h EXCEPT ![p] = x]
<1>1. \A q \in Owners : g[q] = IF q = p THEN x ELSE h[q]
  BY DEF HoldersType
<1> HIDE DEF g
<1>2. \A q \in Owners : Answers(g, q) <=> Answers(h, q)
  BY <1>1 DEF Answers
<1>3. \A q \in Owners : Answers(g, q) =>
         g[q].ptr = h[q].ptr /\ g[q].obj = h[q].obj
  BY <1>1 DEF Answers
<1>4. OwnersKnown(t, g)
  BY <1>2, <1>3 DEF Careful, OwnersKnown
<1>5. OwnedIsThere(t, g) /\ OwnedOnce(g)
  BY <1>2, <1>3 DEF Careful, OwnedIsThere, OwnedOnce
<1>6. EmptyHanded(g)
  BY <1>1 DEF Careful, EmptyHanded
<1> QED
  BY <1>4, <1>5, <1>6 DEF Careful, g

-----------------------------------------------------------------------------
(* The actions.                                                            *)

\* What HandleInv says of the state after a step.
InvNext ==
  /\ TableType(last_id', objects') /\ HoldersType(holders')
  /\ careless' \in BOOLEAN
  /\ ~careless' => Careful(last_id', objects', holders')

LEMMA InitHandles == Init => HandleInv
<1> SUFFICES ASSUME Init PROVE HandleInv
  OBVIOUS
<1>1. TableType(last_id, objects) /\ HoldersType(holders)
  BY IdsProps DEF Init, TableType, Tables, HoldersType
<1>2. Careful(last_id, objects, holders)
  BY DEF Init, Careful, Positive, OwnersKnown, OwnedIsThere, OwnedOnce,
         EmptyHanded, Answers
<1> QED
  BY <1>1, <1>2 DEF HandleInv, Init

LEMMA ReceiveInv ==
  ASSUME HandleInv, NEW o \in Owners, NEW obj \in Objects \cup {None},
         Receive(o, obj)
  PROVE  InvNext
<1>1. PICK res \in Ids :
        /\ Add(obj, res)
        /\ holders' = [holders EXCEPT ![o] =
                         Holder("raw", res, IF res = Invalid THEN None ELSE obj)]
  BY DEF Receive
<1> DEFINE seen == IF res = Invalid THEN None ELSE obj
           x == Holder("raw", res, seen)
<1>2. /\ x \in Holders /\ x # None /\ x.kind = "raw" /\ x.ptr = res
      /\ x.obj = seen
  BY HolderProps DEF Kinds
<1>3. /\ TableType(last_id', objects') /\ res >= Invalid /\ last_id' >= last_id
      /\ \/ objects' = objects /\ (res = Invalid \/ (res = Null /\ obj = None))
         \/ /\ obj # None /\ res > last_id /\ objects[res] = None
            /\ objects' = [objects EXCEPT ![res] = obj]
  BY <1>1, AddProps DEF HandleInv
<1> HIDE DEF x
<1>4. HoldersType(holders')
  BY <1>1, <1>2, <1>3, PutType DEF HandleInv, x
<1>5. ASSUME ~careless PROVE Careful(last_id', objects', holders')
  <2>0. /\ HoldersType(holders) /\ TableType(last_id, objects)
        /\ Careful(last_id, objects, holders) /\ holders[o] = None
    BY <1>5 DEF HandleInv, Receive
  <2>1. last_id' >= 0
    BY <1>3, <2>0, IdsProps DEF Careful, TableType
  <2>2. \A q \in Owners : holders'[q] = IF q = o THEN x ELSE holders[q]
    BY <1>1, <2>0 DEF HoldersType, x
  <2>3. ~Answers(holders, o)
    BY <2>0 DEF Answers
  <2>4. \A q \in Owners \ {o} :
          holders'[q] = holders[q] /\ (Answers(holders', q) <=> Answers(holders, q))
    BY <2>2 DEF Answers
  <2>5. CASE objects' = objects /\ (res = Invalid \/ (res = Null /\ obj = None))
    <3>1. seen = None /\ res \in {Null, Invalid}
      BY <2>5
    <3> HIDE DEF seen
    <3>2. ~Answers(holders', o) /\ holders'[o].ptr \in {Null, Invalid}
      BY <1>2, <2>2, <3>1 DEF Answers
    <3>3. \A q \in Owners : Answers(holders', q) =>
             q # o /\ Answers(holders, q) /\ holders'[q] = holders[q]
      BY <2>4, <3>2
    <3>4. \A q \in Owners : Answers(holders, q) =>
             Answers(holders', q) /\ holders'[q] = holders[q]
      BY <2>3, <2>4
    <3>5. Positive(objects') /\ OwnersKnown(objects', holders')
      BY <2>0, <2>5, <3>4 DEF Careful, Positive, OwnersKnown
    <3>6. OwnedIsThere(objects', holders') /\ OwnedOnce(holders')
      BY <2>0, <2>5, <3>3 DEF Careful, OwnedIsThere, OwnedOnce
    <3>7. EmptyHanded(holders')
      BY <2>0, <2>4, <3>2 DEF Careful, EmptyHanded
    <3> QED
      BY <2>1, <3>5, <3>6, <3>7 DEF Careful
  <2>6. CASE /\ obj # None /\ res > last_id /\ objects[res] = None
             /\ objects' = [objects EXCEPT ![res] = obj]
    <3>1. res > 0 /\ res # Invalid
      BY <2>0, <2>6, IdsProps DEF Careful, TableType, Invalid
    <3>2. seen = obj
      BY <3>1
    <3>3. Answers(holders', o) /\ holders'[o].ptr = res /\ holders'[o].obj = obj
      BY <1>2, <2>2, <2>6, <3>2 DEF Answers
    <3> HIDE DEF seen
    <3>4. \A i \in Ids : objects'[i] = IF i = res THEN obj ELSE objects[i]
      BY <2>0, <2>6 DEF TableType, Tables
    <3>5. \A q \in Owners : Answers(holders, q) => holders[q].ptr \in Ids
      BY <2>0, HeldProps DEF Answers
    <3>6. \A q \in Owners : Answers(holders, q) => holders[q].ptr # res
      BY <2>0, <2>6 DEF Careful, OwnedIsThere, Answers
    <3>7. Positive(objects')
      BY <2>0, <3>1, <3>4 DEF Careful, Positive
    <3>8. OwnersKnown(objects', holders')
      <4> SUFFICES ASSUME NEW i \in Ids, objects'[i] # None
                   PROVE  \E q \in Owners : Answers(holders', q)
                                            /\ holders'[q].ptr = i
        BY DEF OwnersKnown
      <4>1. CASE i = res
        BY <3>3, <4>1
      <4>2. CASE i # res
        <5>1. PICK q \in Owners : Answers(holders, q) /\ holders[q].ptr = i
          BY <2>0, <3>4, <4>2 DEF Careful, OwnersKnown
        <5> QED
          BY <2>3, <2>4, <5>1
      <4> QED
        BY <4>1, <4>2
    <3>9. OwnedIsThere(objects', holders')
      <4> SUFFICES ASSUME NEW q \in Owners, Answers(holders', q)
                   PROVE  holders'[q].ptr > 0
                          /\ objects'[holders'[q].ptr] = holders'[q].obj
        BY DEF OwnedIsThere
      <4>1. CASE q = o
        BY <3>1, <3>3, <3>4, <4>1
      <4>2. CASE q # o
        BY <2>0, <2>4, <3>4, <3>5, <3>6, <4>2 DEF Careful, OwnedIsThere
      <4> QED
        BY <4>1, <4>2
    <3>10. OwnedOnce(holders')
      <4> SUFFICES ASSUME NEW q \in Owners, NEW r \in Owners,
                          Answers(holders', q), Answers(holders', r),
                          holders'[q].ptr = holders'[r].ptr
                   PROVE  q = r
        BY DEF OwnedOnce
      <4> QED
        BY <2>0, <2>4, <3>3, <3>6 DEF Careful, OwnedOnce
    <3>11. EmptyHanded(holders')
      BY <2>0, <2>4, <2>6, <3>3 DEF Careful, EmptyHanded
    <3> QED
      BY <2>1, <3>7, <3>8, <3>9, <3>10, <3>11 DEF Careful
  <2> QED
    BY <1>3, <2>5, <2>6
<1> QED
  BY <1>3, <1>4, <1>5 DEF InvNext, HandleInv, Receive

LEMMA OwnInv == ASSUME HandleInv, NEW o \in Owners, Own(o) PROVE InvNext
<1> DEFINE x == [holders[o] EXCEPT !.kind = "own"]
<1>0. HoldersType(holders) /\ holders[o] # None /\ holders[o].kind = "raw"
  BY DEF HandleInv, Own
<1>1. holders[o] \in Holders /\ holders[o].ptr >= Invalid
  BY <1>0, HeldProps
<1>2. /\ x \in Holders /\ x.kind = "own" /\ x.ptr = holders[o].ptr
      /\ x.obj = holders[o].obj
  BY <1>1 DEF Holders, Kinds
<1>3. holders' = [holders EXCEPT ![o] = x] /\ x # None
  BY <1>2, HandleAssumption DEF Own
<1> HIDE DEF x
<1>4. HoldersType(holders')
  BY <1>0, <1>1, <1>2, <1>3, PutType
<1>5. ~careless => Careful(last_id, objects, holders')
  BY <1>0, <1>2, <1>3, SameCareful DEF HandleInv
<1> QED
  BY <1>4, <1>5 DEF InvNext, HandleInv, Own, NoDrop

LEMMA LendInv ==
  ASSUME HandleInv, NEW o \in Owners, NEW p \in Owners, Lend(o, p)
  PROVE  InvNext
<1> DEFINE x == Holder("lent", holders[o].ptr, holders[o].obj)
<1>0. HoldersType(holders) /\ holders[o] # None /\ holders[p] = None
  BY DEF HandleInv, Lend
<1>1. /\ holders[o].ptr \in Ids /\ holders[o].obj \in Objects \cup {None}
      /\ holders[o].ptr >= Invalid
  BY <1>0, HeldProps
<1>2. x \in Holders /\ x.kind = "lent" /\ x.ptr = holders[o].ptr
  BY <1>1, HolderProps DEF Kinds
<1>3. holders' = [holders EXCEPT ![p] = x]
  BY DEF Lend
<1> HIDE DEF x
<1>4. HoldersType(holders')
  BY <1>0, <1>1, <1>2, <1>3, PutType
<1>5. ~Answers(holders, p)
  BY <1>0 DEF Answers
<1>6. ~careless => Careful(last_id, objects, holders')
  BY <1>0, <1>2, <1>3, <1>5, SameCareful DEF HandleInv
<1> QED
  BY <1>4, <1>6 DEF InvNext, HandleInv, Lend, NoDrop

\* Move, and ReleaseHandle with what becomes of the number.
LEMMA PassType ==
  ASSUME NEW h, HoldersType(h), NEW o \in Owners, NEW p \in Owners,
         h[o] # None, NEW x \in Holders, x.ptr >= Invalid
  PROVE  HoldersType([h EXCEPT ![p] = x, ![o] = Released(h[o])])
<1>1. h[o] \in Holders
  BY HeldProps
<1>2. Released(h[o]) \in Holders /\ Released(h[o]).ptr = Invalid
  BY <1>1, ReleasedProps
<1> QED
  BY <1>2 DEF HoldersType, Invalid

LEMMA MoveInv ==
  ASSUME HandleInv, NEW o \in Owners, NEW p \in Owners, Move(o, p)
  PROVE  InvNext
<1>0. HoldersType(holders) /\ holders[o] # None /\ holders[p] = None /\ o # p
  BY DEF HandleInv, Move, IsWrapper
<1>1. holders[o] \in Holders /\ holders[o].ptr >= Invalid
  BY <1>0, HeldProps
<1>2. holders' = [holders EXCEPT ![p] = holders[o], ![o] = Released(holders[o])]
  BY DEF Move
<1>3. HoldersType(holders')
  BY <1>0, <1>1, <1>2, PassType
<1>4. ~careless => Careful(last_id, objects, holders')
  BY <1>0, <1>1, <1>2, PassCareful DEF HandleInv
<1> QED
  BY <1>3, <1>4 DEF InvNext, HandleInv, Move, NoDrop

LEMMA ReleaseHandleInv ==
  ASSUME HandleInv, NEW o \in Owners, NEW p \in Owners, ReleaseHandle(o, p)
  PROVE  InvNext
<1> DEFINE x == IF holders[o].kind = "own"
                THEN [holders[o] EXCEPT !.kind = "raw"] ELSE holders[o]
<1>0. HoldersType(holders) /\ holders[o] # None /\ holders[p] = None /\ o # p
  BY DEF HandleInv, ReleaseHandle, IsWrapper
<1>1. holders[o] \in Holders /\ holders[o].ptr >= Invalid
  BY <1>0, HeldProps
<1>2. /\ x \in Holders /\ x.ptr = holders[o].ptr /\ x.obj = holders[o].obj
      /\ (x.kind = "lent") = (holders[o].kind = "lent")
  BY <1>1 DEF Holders, Kinds
<1>3. holders' = [holders EXCEPT ![p] = x, ![o] = Released(holders[o])]
  BY DEF ReleaseHandle
<1> HIDE DEF x
<1>4. HoldersType(holders')
  BY <1>0, <1>1, <1>2, <1>3, PassType
<1>5. ~careless => Careful(last_id, objects, holders')
  BY <1>0, <1>2, <1>3, PassCareful DEF HandleInv
<1> QED
  BY <1>4, <1>5 DEF InvNext, HandleInv, ReleaseHandle, NoDrop

\* reset: afterwards p's entry can be forgotten.
LEMMA ResetCareful ==
  ASSUME HandleInv, NEW p \in Owners, IsWrapper(holders[p]),
         Reset(holders[p]), ~careless
  PROVE  Careful(last_id', objects', [holders EXCEPT ![p] = None])
<1>0. /\ TableType(last_id, objects) /\ HoldersType(holders)
      /\ Careful(last_id, objects, holders)
      /\ holders[p] # None /\ holders[p].kind # "raw"
  BY DEF HandleInv, IsWrapper
<1>1. /\ holders[p].ptr \in Ids /\ holders[p].ptr \in Int
      /\ holders[p].ptr >= Invalid /\ holders[p].kind \in Kinds
  BY <1>0, HeldProps
<1>2. CASE holders[p].kind = "own" /\ holders[p].ptr # Null
  <2>1. Drop(holders[p].ptr)
    BY <1>2 DEF Reset
  <2>2. /\ objects' = Erased(objects, holders[p].ptr)
        /\ \/ last_id' = last_id
           \/ holders[p].ptr = last_id /\ last_id' = last_id - 1
    BY <1>0, <1>1, <2>1, DropProps
  <2>3. last_id' >= 0
    BY <1>0, <1>2, <2>2, IdsProps DEF Careful, Null, TableType
  <2>4. objects \in Tables
    BY <1>0 DEF TableType
  <2> QED
    BY <1>0, <1>2, <2>2, <2>3, <2>4, DropCareful
<1>3. CASE ~(holders[p].kind = "own" /\ holders[p].ptr # Null)
  <2>1. NoDrop
    BY <1>3 DEF Reset
  <2>2. CASE ~Answers(holders, p)
    BY <1>0, <2>1, <2>2, ForgetCareful DEF NoDrop
  <2>3. CASE Answers(holders, p)
    <3>1. holders[p].kind # "lent" /\ holders[p].ptr > 0
      BY <1>0, <2>3 DEF Careful, OwnedIsThere, Answers
    <3>2. holders[p].kind = "own" /\ holders[p].ptr # Null
      BY <1>0, <1>1, <3>1 DEF Kinds, Null
    <3> QED
      BY <1>3, <3>2
  <2> QED
    BY <2>2, <2>3
<1> QED
  BY <1>2, <1>3

LEMMA AssignInv ==
  ASSUME HandleInv, NEW o \in Owners, NEW p \in Owners, Assign(o, p)
  PROVE  InvNext
<1> DEFINE h == [holders EXCEPT ![p] = None]
<1>0. /\ HoldersType(holders) /\ TableType(last_id, objects)
      /\ holders[o] # None /\ holders[p] # None /\ o # p
      /\ IsWrapper(holders[p]) /\ Reset(holders[p])
  BY DEF HandleInv, Assign, IsWrapper
<1>1. holders[o] \in Holders /\ holders[o].ptr >= Invalid
  BY <1>0, HeldProps
<1>2. HoldersType(h) /\ h[o] = holders[o] /\ h[p] = None
  BY <1>0 DEF HoldersType
<1>3. holders' = [h EXCEPT ![p] = h[o], ![o] = Released(h[o])]
  BY <1>0, <1>2 DEF Assign, HoldersType
<1>4. TableType(last_id', objects')
  BY <1>0, ResetKeeps
<1>5. ~careless => Careful(last_id', objects', h)
  BY <1>0, ResetCareful
<1> HIDE DEF h
<1>6. HoldersType(holders')
  BY <1>0, <1>1, <1>2, <1>3, PassType
<1>7. ~careless => Careful(last_id', objects', holders')
  BY <1>0, <1>1, <1>2, <1>3, <1>5, PassCareful
<1> QED
  BY <1>4, <1>6, <1>7 DEF InvNext, HandleInv, Assign

LEMMA DestroyInv ==
  ASSUME HandleInv, NEW o \in Owners, Destroy(o)
  PROVE  InvNext
<1>0. /\ HoldersType(holders) /\ TableType(last_id, objects)
      /\ IsWrapper(holders[o]) /\ holders[o] # None /\ Reset(holders[o])
      /\ holders' = [holders EXCEPT ![o] = None]
  BY DEF HandleInv, Destroy, IsWrapper
<1>1. TableType(last_id', objects')
  BY <1>0, ResetKeeps
<1>2. HoldersType(holders')
  BY <1>0, PutType
<1>3. ~careless => Careful(last_id', objects', holders')
  BY <1>0, ResetCareful
<1> QED
  BY <1>1, <1>2, <1>3 DEF InvNext, HandleInv, Destroy

LEMMA ResetContainerInv ==
  ASSUME HandleInv, NEW o \in Owners, ResetContainer(o)
  PROVE  InvNext
<1> DEFINE x == [holders[o] EXCEPT !.obj = None]
<1>0. /\ HoldersType(holders) /\ TableType(last_id, objects)
      /\ IsWrapper(holders[o]) /\ holders[o] # None /\ Reset(holders[o])
  BY DEF HandleInv, ResetContainer, IsWrapper
<1>1. /\ holders[o] \in Holders /\ holders[o].ptr >= Invalid
      /\ holders[o].ptr \in Int /\ holders[o].kind \in Kinds
      /\ holders[o].kind # "raw"
  BY <1>0, HeldProps DEF IsWrapper
<1>2. /\ x \in Holders /\ x.ptr = holders[o].ptr /\ x.kind = holders[o].kind
      /\ x.obj = None
  BY <1>1 DEF Holders
<1>3. holders' = [holders EXCEPT ![o] = x]
  BY <1>0 DEF ResetContainer, HoldersType
<1> HIDE DEF x
<1>4. TableType(last_id', objects')
  BY <1>0, ResetKeeps
<1>5. HoldersType(holders')
  BY <1>0, <1>1, <1>2, <1>3, PutType
<1>6. ASSUME ~careless' PROVE Careful(last_id', objects', holders')
  <2>1. ~careless /\ ~(holders[o].kind = "own" /\ holders[o].ptr > 0)
    BY <1>6 DEF ResetContainer, HandleInv
  <2>2. CASE x.kind = "lent"
    <3>1. NoDrop /\ ~Answers(holders, o)
      BY <1>0, <1>2, <2>2 DEF Reset, Answers
    <3> QED
      BY <1>0, <1>2, <1>3, <2>1, <2>2, <3>1, SameCareful DEF HandleInv, NoDrop
  <2>3. CASE x.kind # "lent"
    <3>1. holders[o].kind = "own" /\ ~(holders[o].ptr > 0)
      BY <1>1, <1>2, <2>1, <2>3 DEF Kinds
    <3>2. ~Answers(holders, o)
      BY <2>1, <3>1 DEF HandleInv, Careful, OwnedIsThere
    <3>3. holders[o].obj = None
      BY <1>0, <3>1, <3>2 DEF Answers
    <3>4. holders[o].ptr \in {Null, Invalid}
      BY <1>0, <2>1, <3>1, <3>3 DEF HandleInv, Careful, EmptyHanded
    <3>5. last_id >= 0 /\ last_id \in Int
      BY <1>0, <2>1, IdsProps DEF HandleInv, Careful, TableType
    <3>6. last_id' = last_id /\ objects' = objects
      BY <3>4, <3>5 DEF Null, Invalid, Reset, NoDrop, Drop, Erased,
         ResetContainer
    <3> QED
      BY <1>0, <1>2, <1>3, <2>1, <3>2, <3>3, <3>6, SameCareful DEF HandleInv
  <2> QED
    BY <2>2, <2>3
<1> QED
  BY <1>4, <1>5, <1>6 DEF InvNext, HandleInv, ResetContainer

LEMMA DropRawInv ==
  ASSUME HandleInv, NEW o \in Owners, DropRaw(o)
  PROVE  InvNext
<1>0. /\ HoldersType(holders) /\ TableType(last_id, objects)
      /\ holders[o] # None /\ holders[o].kind = "raw"
      /\ Drop(holders[o].ptr)
      /\ holders' = [holders EXCEPT ![o] = None]
  BY DEF HandleInv, DropRaw
<1>1. holders[o].ptr \in Ids /\ holders[o].ptr >= Invalid
  BY <1>0, HeldProps
<1>2. /\ TableType(last_id', objects')
      /\ objects' = Erased(objects, holders[o].ptr)
      /\ \/ last_id' = last_id
         \/ holders[o].ptr = last_id /\ last_id' = last_id - 1
  BY <1>0, <1>1, DropProps
<1>3. HoldersType(holders')
  BY <1>0, PutType
<1>4. ASSUME ~careless' PROVE Careful(last_id', objects', holders')
  <2>1. ~careless /\ ~(holders[o].ptr = last_id /\ last_id <= 0)
    BY <1>4 DEF DropRaw, HandleInv
  <2>2. last_id \in Int /\ last_id >= 0 /\ Careful(last_id, objects, holders)
    BY <1>0, <2>1, IdsProps DEF HandleInv, Careful, TableType
  <2>3. last_id' >= 0
    BY <1>2, <2>1, <2>2
  <2>4. objects \in Tables /\ holders[o].kind # "lent"
    BY <1>0 DEF TableType
  <2> QED
    BY <1>0, <1>2, <2>2, <2>3, <2>4, DropCareful
<1> QED
  BY <1>2, <1>3, <1>4 DEF InvNext, HandleInv, DropRaw

LEMMA StepHandles == HandleInv /\ [Next]_vars => InvNext
<1> SUFFICES ASSUME HandleInv, [Next]_vars PROVE InvNext
  OBVIOUS
<1>1. CASE Next
  <2>1. PICK o \in Owners :
          \/ \E obj \in Objects \cup {None} : Receive(o, obj)
          \/ \E p \in Owners :
               Lend(o, p) \/ Move(o, p) \/ ReleaseHandle(o, p) \/ Assign(o, p)
          \/ Own(o) \/ Destroy(o) \/ ResetContainer(o) \/ DropRaw(o)
    BY <1>1 DEF Next
  <2> QED
    BY <2>1, ReceiveInv, LendInv, MoveInv, ReleaseHandleInv, AssignInv, OwnInv,
       DestroyInv, ResetContainerInv, DropRawInv
<1>2. CASE UNCHANGED vars
  BY <1>2 DEF vars, HandleInv, InvNext
<1> QED
  BY <1>1, <1>2

\* Between any two states, whatever mods did.
LEMMA StepKeeps == HandleInv /\ [Next]_vars => Kept(objects, objects')
<1> SUFFICES ASSUME HandleInv, [Next]_vars PROVE Kept(objects, objects')
  OBVIOUS
<1>0. TableType(last_id, objects) /\ HoldersType(holders)
  BY DEF HandleInv
<1>1. ASSUME NEW o \in Owners, NEW obj \in Objects \cup {None}, Receive(o, obj)
      PROVE  Kept(objects, objects')
  <2>1. \E res \in Ids : Add(obj, res)
    BY <1>1 DEF Receive
  <2> QED
    BY <1>0, <2>1, AddKeeps
<1>2. ASSUME NEW o \in Owners, NEW p \in Owners, Assign(o, p)
      PROVE  Kept(objects, objects')
  BY <1>0, <1>2, ResetKeeps DEF Assign, IsWrapper
<1>3. ASSUME NEW o \in Owners, Destroy(o) \/ ResetContainer(o)
      PROVE  Kept(objects, objects')
  BY <1>0, <1>3, ResetKeeps DEF Destroy, ResetContainer, IsWrapper
<1>4. ASSUME NEW o \in Owners, DropRaw(o)
      PROVE  Kept(objects, objects')
  <2>1. holders[o].ptr \in Ids /\ Drop(holders[o].ptr)
    BY <1>0, <1>4, HeldProps DEF DropRaw
  <2> QED
    BY <1>0, <2>1, DropKeeps
<1>5. ASSUME UNCHANGED objects PROVE Kept(objects, objects')
  BY <1>5 DEF Kept
<1>6. ASSUME NEW o \in Owners, NEW p \in Owners,
             Lend(o, p) \/ Move(o, p) \/ ReleaseHandle(o, p) \/ Own(o)
      PROVE  UNCHANGED objects
  BY <1>6 DEF Lend, Move, ReleaseHandle, Own, NoDrop
<1>7. CASE Next
  BY <1>1, <1>2, <1>3, <1>4, <1>5, <1>6, <1>7 DEF Next
<1> QED
  BY <1>5, <1>7 DEF vars

-----------------------------------------------------------------------------
(* Theorems.                                                               *)

LEMMA HandleInvHolds == Spec => []HandleInv
<1>1. HandleInv /\ [Next]_vars => HandleInv'
  BY StepHandles DEF InvNext, HandleInv, TableType, HoldersType, Careful, Tables,
     Positive, OwnersKnown, OwnedIsThere, OwnedOnce, EmptyHanded, Answers
<1> QED
  BY <1>1, InitHandles, PTL DEF Spec

\* However handles are used, careless mods included, all state keeps its type:
\* last_id stays in -2..MaxHandle, and MaxHandle - 1 names no object.
THEOREM TypeCorrect == Spec => []TypeOK
<1>1. HandleInv => TypeOK
  BY DEF HandleInv, TableType, HoldersType, Tables, TypeOK
<1> QED
  BY <1>1, HandleInvHolds, PTL

\* As long as no mod is careless, every owned handle stands for its object and
\* every number in the table has exactly one owner.
THEOREM TableAlwaysOwned == Spec => []TableIsOwned
<1>1. HandleInv => TableIsOwned
  <2> SUFFICES ASSUME HandleInv, ~careless
               PROVE  /\ \A o \in Owners :
                           Owns(o) => get(holders[o].ptr) = holders[o].obj
                      /\ \A i \in Taken : \E o \in Owners :
                           /\ Owns(o) /\ holders[o].ptr = i
                           /\ \A p \in Owners \ {o} :
                                Owns(p) => holders[p].ptr # i
    BY DEF TableIsOwned
  <2>1. /\ HoldersType(holders) /\ OwnersKnown(objects, holders)
        /\ OwnedIsThere(objects, holders) /\ OwnedOnce(holders)
    BY DEF HandleInv, Careful
  <2>2. \A o \in Owners : Owns(o) <=> Answers(holders, o)
    BY DEF Owns, Answers
  <2>3. ASSUME NEW o \in Owners, Owns(o)
        PROVE  get(holders[o].ptr) = holders[o].obj
    <3>1. holders[o].ptr \in Ids
      BY <2>1, <2>3, HeldProps DEF Owns
    <3>2. holders[o].ptr > 0 /\ objects[holders[o].ptr] = holders[o].obj
      BY <2>1, <2>2, <2>3 DEF OwnedIsThere
    <3> QED
      BY <3>1, <3>2 DEF get, Null
  <2>4. ASSUME NEW i \in Taken
        PROVE  \E o \in Owners :
                 /\ Owns(o) /\ holders[o].ptr = i
                 /\ \A p \in Owners \ {o} : Owns(p) => holders[p].ptr # i
    <3>1. PICK o \in Owners : Answers(holders, o) /\ holders[o].ptr = i
      BY <2>1, <2>4 DEF Taken, OwnersKnown
    <3>2. \A p \in Owners \ {o} : Owns(p) => holders[p].ptr # i
      BY <2>1, <2>2, <3>1 DEF OwnedOnce
    <3> QED
      BY <2>2, <3>1, <3>2
  <2> QED
    BY <2>3, <2>4
<1> QED
  BY <1>1, HandleInvHolds, PTL

\* "FFI unique handle (like unique_ptr)" is true of every program that makes
\* neither of the two calls: the reset of a container that owns a number, and
\* the drop of a number that is none, while last_id stands there.
THEOREM CarefulMeansUnique == Spec => [](~careless => LikeUniquePtr)
<1>1. TableIsOwned => (~careless => LikeUniquePtr)
  BY DEF TableIsOwned, LikeUniquePtr
<1> QED
  BY <1>1, TableAlwaysOwned, PTL

\* A number in the table is never given to a second object, whatever the mods
\* do with the numbers they have.
THEOREM NumbersStay == Spec => NeverReassigned
<1>1. HandleInv /\ [Next]_vars =>
        [\A i \in Taken : objects'[i] \in {objects[i], None}]_vars
  <2> SUFFICES ASSUME HandleInv, [Next]_vars
               PROVE  \A i \in Taken : objects'[i] \in {objects[i], None}
    OBVIOUS
  <2> QED
    BY StepKeeps DEF Kept, Taken
<1>2. Spec => [][\A i \in Taken : objects'[i] \in {objects[i], None}]_vars
  BY <1>1, HandleInvHolds, PTL DEF Spec
<1> QED
  BY <1>2 DEF NeverReassigned
=============================================================================
