--------------------------- MODULE GattServerProofs ---------------------------
(***************************************************************************)
(* Who owns the objects of a GATT service, for every number of objects,    *)
(* services and every width of the counts.  The invariant is stated of a   *)
(* heap, a builder and a list of services that are parameters, so that a   *)
(* command, which hands down, creates and deletes in one step, is followed *)
(* through the heaps in between.  Then, that the stack is told what was    *)
(* declared: handing down changes nothing of what a service looks like.    *)
(***************************************************************************)
EXTENDS GattServer, TLAPS

Sound(h, b, services) ==
  /\ ListsOfKind(h)
  /\ RootsOfKind(h, b, services)
  /\ ListedOnce(h)
  /\ RootsHeldOnce(h, b, services)

RootsOf(b, services) == Held(b) \cup Elements(services)

Covered(h, b, services) ==
  \A o \in DOMAIN h :
    o \in RootsOf(b, services) \/ \E p \in DOMAIN h : o \in Elements(h[p].list)

BuilderOrNull(b) == b \in Builder \cup {NULL}

-----------------------------------------------------------------------------
(* Lists                                                                   *)

(* A list is a sequence of objects.                                        *)
LEMMA ListType ==
  ASSUME NEW h, Heap(h), NEW o \in DOMAIN h
  PROVE  /\ h[o].list \in Seq(Object)
         /\ Len(h[o].list) \in Nat
         /\ DOMAIN h[o].list = 1 .. Len(h[o].list)
         /\ Elements(h[o].list) \subseteq Object
<1>1. h[o] \in GattAttribute
  BY DEF Heap
<1>2. h[o].list \in Seq(Object)
  BY <1>1 DEF GattAttribute
<1> QED
  BY <1>2 DEF Elements

(* What is in a list after an element was appended.                        *)
LEMMA AppendElements ==
  ASSUME NEW S, NEW list \in Seq(S), NEW x \in S
  PROVE  /\ Append(list, x) \in Seq(S)
         /\ DOMAIN Append(list, x) = DOMAIN list \cup {Len(list) + 1}
         /\ Len(list) + 1 \notin DOMAIN list
         /\ \A i \in DOMAIN list : Append(list, x)[i] = list[i]
         /\ Append(list, x)[Len(list) + 1] = x
         /\ Elements(Append(list, x)) = Elements(list) \cup {x}
<1>1. /\ Append(list, x) \in Seq(S)
      /\ DOMAIN Append(list, x) = DOMAIN list \cup {Len(list) + 1}
      /\ Len(list) + 1 \notin DOMAIN list
      /\ \A i \in DOMAIN list : Append(list, x)[i] = list[i]
      /\ Append(list, x)[Len(list) + 1] = x
  OBVIOUS
<1>2. Elements(Append(list, x)) = Elements(list) \cup {x}
  BY <1>1, Zenon DEF Elements
<1> QED
  BY <1>1, <1>2

(* addCharacteristic() and addDescriptor() change one list.                *)
LEMMA AddChanges ==
  ASSUME NEW h, Heap(h), NEW parent, parent \in DOMAIN h, NEW child, child \in DOMAIN h
  PROVE  /\ Heap(Add(h, parent, child))
         /\ DOMAIN Add(h, parent, child) = DOMAIN h
         /\ \A o \in DOMAIN h :
              /\ Add(h, parent, child)[o].kind = h[o].kind
              /\ Add(h, parent, child)[o].len = h[o].len
              /\ Add(h, parent, child)[o].lenMax = h[o].lenMax
              /\ o # parent => Add(h, parent, child)[o] = h[o]
         /\ Wraps(h[parent].list) => Add(h, parent, child)[parent].list = <<>>
         /\ ~Wraps(h[parent].list) =>
              Add(h, parent, child)[parent].list = Append(h[parent].list, child)
<1> DEFINE new == IF Wraps(h[parent].list) THEN <<>> ELSE Append(h[parent].list, child)
           g == Add(h, parent, child)
<1>1. /\ h[parent] \in GattAttribute
      /\ child \in Object
      /\ \A o \in DOMAIN h : h[o] \in GattAttribute
  BY DEF Heap
<1>2. new \in Seq(Object)
  BY <1>1, ListType
<1>3. g = [h EXCEPT ![parent] = [h[parent] EXCEPT !.list = new]]
  BY DEF Add
<1>4. [h[parent] EXCEPT !.list = new] \in GattAttribute
  BY <1>1, <1>2 DEF GattAttribute
<1>5. [h[parent] EXCEPT !.list = new].list = new
  BY <1>1 DEF GattAttribute
<1>6. /\ [h[parent] EXCEPT !.list = new].kind = h[parent].kind
      /\ [h[parent] EXCEPT !.list = new].len = h[parent].len
      /\ [h[parent] EXCEPT !.list = new].lenMax = h[parent].lenMax
  BY <1>1 DEF GattAttribute
<1>7. /\ DOMAIN g = DOMAIN h
      /\ g \in [DOMAIN h -> GattAttribute]
      /\ \A o \in DOMAIN h : o # parent => g[o] = h[o]
      /\ g[parent] = [h[parent] EXCEPT !.list = new]
  <2> HIDE DEF new
  <2> QED
    BY <1>1, <1>3, <1>4 DEF Heap
<1>8. Heap(g)
  BY <1>7 DEF Heap
<1> QED
  BY <1>5, <1>6, <1>7, <1>8

(* A list that gets a new member, or wraps.                                *)
LEMMA AddLists ==
  ASSUME NEW h, Heap(h), NEW parent, parent \in DOMAIN h, NEW child, child \in DOMAIN h
  PROVE  /\ \A o \in DOMAIN h :
              Elements(Add(h, parent, child)[o].list) \subseteq Elements(h[o].list) \cup {child}
         /\ \A o \in DOMAIN h :
              o # parent => Elements(Add(h, parent, child)[o].list) = Elements(h[o].list)
         /\ ~Wraps(h[parent].list) =>
              Elements(Add(h, parent, child)[parent].list) = Elements(h[parent].list) \cup {child}
<1> DEFINE g == Add(h, parent, child)
<1>1. child \in Object /\ h[parent].list \in Seq(Object)
  BY ListType DEF Heap
<1>2. Elements(Append(h[parent].list, child)) = Elements(h[parent].list) \cup {child}
  BY <1>1, AppendElements
<1>3. Elements(<<>>) = {}
  BY DEF Elements
<1>4. \A o \in DOMAIN h : o # parent => g[o].list = h[o].list
  <2>1. \A o \in DOMAIN h : o # parent => g[o] = h[o]
    BY AddChanges
  <2> QED
    BY <2>1
<1>5. g[parent].list = <<>> \/ g[parent].list = Append(h[parent].list, child)
  BY AddChanges
<1>6. ~Wraps(h[parent].list) => g[parent].list = Append(h[parent].list, child)
  BY AddChanges
<1> HIDE DEF g
<1>7. \A o \in DOMAIN h : Elements(g[o].list) \subseteq Elements(h[o].list) \cup {child}
  <2> TAKE o \in DOMAIN h
  <2>1. CASE o = parent
    <3>1. CASE g[parent].list = <<>>
      BY <2>1, <3>1, <1>3
    <3>2. CASE g[parent].list = Append(h[parent].list, child)
      BY <2>1, <3>2, <1>2
    <3> QED
      BY <3>1, <3>2, <1>5
  <2>2. CASE o # parent
    BY <2>2, <1>4
  <2> QED
    BY <2>1, <2>2
<1>8. \A o \in DOMAIN h : o # parent => Elements(g[o].list) = Elements(h[o].list)
  BY <1>4
<1>9. ~Wraps(h[parent].list) =>
        Elements(g[parent].list) = Elements(h[parent].list) \cup {child}
  BY <1>6, <1>2
<1> QED
  BY <1>7, <1>8, <1>9 DEF g

(* The lists still hold objects of the right kind, and each once, if what is added is
   of the right kind and was in none.                                      *)
LEMMA AddKeepsLists ==
  ASSUME NEW h, Heap(h), ListsOfKind(h), ListedOnce(h),
         NEW parent \in DOMAIN h, NEW child \in DOMAIN h,
         \/ h[parent].kind = "service" /\ h[child].kind = "characteristic"
         \/ h[parent].kind = "characteristic" /\ h[child].kind = "descriptor",
         \A o \in DOMAIN h : child \notin Elements(h[o].list)
  PROVE  ListsOfKind(Add(h, parent, child)) /\ ListedOnce(Add(h, parent, child))
<1> DEFINE g == Add(h, parent, child)
           n == Len(h[parent].list) + 1
<1>1. child \in Object /\ h[parent].list \in Seq(Object)
  BY ListType DEF Heap
<1>2. /\ DOMAIN g = DOMAIN h
      /\ \A o \in DOMAIN h : g[o].kind = h[o].kind
      /\ \A o \in DOMAIN h : o # parent => g[o].list = h[o].list
      /\ g[parent].list = <<>> \/ g[parent].list = Append(h[parent].list, child)
  <2>1. g[parent].list = <<>> \/ g[parent].list = Append(h[parent].list, child)
    BY AddChanges
  <2>2. /\ DOMAIN g = DOMAIN h
        /\ \A o \in DOMAIN h : g[o].kind = h[o].kind
        /\ \A o \in DOMAIN h : o # parent => g[o] = h[o]
    BY AddChanges
  <2> HIDE DEF g
  <2> QED
    BY <2>1, <2>2
<1>3. \A o \in DOMAIN g : \A i \in DOMAIN g[o].list :
        \/ i \in DOMAIN h[o].list /\ g[o].list[i] = h[o].list[i]
        \/ o = parent /\ i = n /\ g[o].list[i] = child
  <2> HIDE DEF g
  <2> TAKE o \in DOMAIN g
  <2> TAKE i \in DOMAIN g[o].list
  <2>1. CASE o # parent
    BY <2>1, <1>2
  <2>2. CASE o = parent /\ g[parent].list = <<>>
    BY <2>2
  <2>3. CASE o = parent /\ g[parent].list = Append(h[parent].list, child)
    BY <2>3, <1>1, AppendElements
  <2> QED
    BY <2>1, <2>2, <2>3, <1>2
<1>4. \A o \in DOMAIN h : \A i \in DOMAIN h[o].list : h[o].list[i] # child
  BY DEF Elements
<1> HIDE DEF g, n
<1>5. ListsOfKind(g)
  <2> SUFFICES ASSUME NEW o \in DOMAIN g, NEW i \in DOMAIN g[o].list
               PROVE  \/ g[o].kind = "service" /\ OfKind(g, g[o].list[i], "characteristic")
                      \/ g[o].kind = "characteristic" /\ OfKind(g, g[o].list[i], "descriptor")
    BY Zenon DEF ListsOfKind
  <2>1. CASE i \in DOMAIN h[o].list /\ g[o].list[i] = h[o].list[i]
    BY <2>1, <1>2 DEF ListsOfKind, OfKind
  <2>2. CASE o = parent /\ g[o].list[i] = child
    BY <2>2, <1>2 DEF OfKind
  <2> QED
    BY <2>1, <2>2, <1>3
<1>6. ListedOnce(g)
  <2> SUFFICES ASSUME NEW o \in DOMAIN g, NEW p \in DOMAIN g,
                      NEW i \in DOMAIN g[o].list, NEW j \in DOMAIN g[p].list,
                      g[o].list[i] = g[p].list[j]
               PROVE  o = p /\ i = j
    BY Zenon DEF ListedOnce
  <2>1. CASE i \in DOMAIN h[o].list /\ g[o].list[i] = h[o].list[i]
    <3>1. g[p].list[j] # child
      BY <2>1, <1>2, <1>4
    <3>2. j \in DOMAIN h[p].list /\ g[p].list[j] = h[p].list[j]
      BY <3>1, <1>3
    <3>3. o \in DOMAIN h /\ p \in DOMAIN h /\ h[o].list[i] = h[p].list[j]
      BY <2>1, <3>2, <1>2
    <3>4. \A x \in DOMAIN h[o].list, y \in DOMAIN h[p].list :
            h[o].list[x] = h[p].list[y] => o = p /\ x = y
      BY <3>3, Zenon DEF ListedOnce
    <3> QED
      BY <2>1, <3>2, <3>3, <3>4
  <2>2. CASE o = parent /\ i = n /\ g[o].list[i] = child
    <3>1. p = parent /\ j = n
      BY <2>2, <1>2, <1>3, <1>4
    <3> QED
      BY <2>2, <3>1
  <2> QED
    BY <2>1, <2>2, <1>3
<1> QED
  BY <1>5, <1>6 DEF g

-----------------------------------------------------------------------------
(* Heaps that differ in nothing an owner looks at                          *)

SameShape(h, g) ==
  /\ DOMAIN g = DOMAIN h
  /\ \A o \in DOMAIN h : g[o].kind = h[o].kind /\ g[o].list = h[o].list

(* The setters and releaseAttributesValue() touch values only.             *)
LEMMA SameShapeIsSound ==
  ASSUME NEW h, NEW g, SameShape(h, g), NEW b, NEW services
  PROVE  /\ Sound(h, b, services) => Sound(g, b, services)
         /\ Covered(h, b, services) => Covered(g, b, services)
<1>1. \A o, kind : OfKind(h, o, kind) => OfKind(g, o, kind)
  BY DEF SameShape, OfKind
<1>2. ListsOfKind(h) => ListsOfKind(g)
  BY <1>1 DEF SameShape, ListsOfKind
<1>3. RootsOfKind(h, b, services) => RootsOfKind(g, b, services)
  BY <1>1 DEF RootsOfKind
<1>4. ListedOnce(h) => ListedOnce(g)
  BY DEF SameShape, ListedOnce
<1>5. RootsHeldOnce(h, b, services) => RootsHeldOnce(g, b, services)
  BY DEF SameShape, RootsHeldOnce
<1>6. Covered(h, b, services) => Covered(g, b, services)
  BY DEF SameShape, Covered
<1> QED
  BY <1>2, <1>3, <1>4, <1>5, <1>6 DEF Sound

-----------------------------------------------------------------------------
(* What the commands do to a heap                                          *)

(* What is in a list is in the heap.                                       *)
LEMMA ListedIsLive ==
  ASSUME NEW h, ListsOfKind(h), NEW o \in DOMAIN h
  PROVE  Elements(h[o].list) \subseteq DOMAIN h
BY DEF ListsOfKind, OfKind, Elements

(* What a root points to is in the heap.                                   *)
LEMMA RootIsLive ==
  ASSUME NEW h, NEW b, NEW services, RootsOfKind(h, b, services)
  PROVE  /\ Held(b) \subseteq DOMAIN h
         /\ Elements(services) \subseteq DOMAIN h
BY DEF RootsOfKind, OfKind, Held, Elements

(* The builder hands an object that it held down to a list.                *)
LEMMA HandDown ==
  ASSUME NEW h, Heap(h), NEW b, NEW services, Sound(h, b, services),
         NEW parent \in DOMAIN h, NEW child \in DOMAIN h,
         \/ h[parent].kind = "service" /\ h[child].kind = "characteristic"
         \/ h[parent].kind = "characteristic" /\ h[child].kind = "descriptor",
         NEW rest, child \in Held(b), Held(rest) = Held(b) \ {child},
         RootsOfKind(h, rest, services)
  PROVE  /\ Sound(Add(h, parent, child), rest, services)
         /\ Covered(h, b, services) /\ ~Wraps(h[parent].list) =>
              Covered(Add(h, parent, child), rest, services)
<1> DEFINE g == Add(h, parent, child)
<1>1. \A o \in DOMAIN h : Elements(h[o].list) \cap RootsOf(b, services) = {}
  BY DEF Sound, RootsHeldOnce, RootsOf
<1>2. \A o \in DOMAIN h : child \notin Elements(h[o].list)
  BY <1>1 DEF RootsOf
<1>3. ListsOfKind(g) /\ ListedOnce(g)
  BY <1>2, AddKeepsLists DEF Sound
<1>4. DOMAIN g = DOMAIN h /\ \A o \in DOMAIN h : g[o].kind = h[o].kind
  BY AddChanges
<1>5. RootsOfKind(g, rest, services)
  <2> HIDE DEF g
  <2>1. \A o, kind : OfKind(h, o, kind) => OfKind(g, o, kind)
    BY <1>4 DEF OfKind
  <2> QED
    BY <2>1 DEF RootsOfKind
<1>6. \A o \in DOMAIN h : Elements(g[o].list) \subseteq Elements(h[o].list) \cup {child}
  BY AddLists
<1>7. child \notin RootsOf(rest, services) /\ RootsOf(rest, services) \subseteq RootsOf(b, services)
  BY DEF RootsOf, Sound, RootsHeldOnce
<1>8. RootsHeldOnce(g, rest, services)
  <2> HIDE DEF g
  <2>1. \A o \in DOMAIN g : Elements(g[o].list) \cap (Held(rest) \cup Elements(services)) = {}
    BY <1>1, <1>4, <1>6, <1>7 DEF RootsOf
  <2>2. Held(rest) \cap Elements(services) = {}
    BY DEF Sound, RootsHeldOnce
  <2> QED
    BY <2>1, <2>2 DEF Sound, RootsHeldOnce
<1>9. ASSUME Covered(h, b, services), ~Wraps(h[parent].list)
      PROVE  Covered(g, rest, services)
  <2>1. Elements(g[parent].list) = Elements(h[parent].list) \cup {child}
    BY <1>9, AddLists
  <2>2. \A o \in DOMAIN h : o # parent => Elements(g[o].list) = Elements(h[o].list)
    BY AddLists
  <2> HIDE DEF g
  <2>3. \A o \in DOMAIN h : Elements(h[o].list) \subseteq Elements(g[o].list)
    BY <2>1, <2>2
  <2> SUFFICES ASSUME NEW o \in DOMAIN h, o \notin RootsOf(rest, services)
               PROVE  \E p \in DOMAIN h : o \in Elements(g[p].list)
    BY <1>4 DEF Covered
  <2>4. CASE o = child
    BY <2>1, <2>4
  <2>5. CASE o # child
    <3>1. o \notin RootsOf(b, services)
      BY <2>5 DEF RootsOf
    <3>2. PICK p \in DOMAIN h : o \in Elements(h[p].list)
      BY <1>9, <3>1 DEF Covered
    <3> QED
      BY <3>2, <2>3
  <2> QED
    BY <2>4, <2>5
<1> QED
  BY <1>3, <1>5, <1>8, <1>9 DEF Sound, g

(* new: an object with an empty list.                                      *)
LEMMA NewObjectIn ==
  ASSUME NEW h, Heap(h), NEW o, o \in Object, o \notin DOMAIN h,
         NEW kind, kind \in {"service", "characteristic", "descriptor"}, NEW u, u \in UUID
  PROVE  /\ Heap(With(h, o, NewObject(kind, u)))
         /\ DOMAIN With(h, o, NewObject(kind, u)) = DOMAIN h \cup {o}
         /\ \A x \in DOMAIN h : With(h, o, NewObject(kind, u))[x] = h[x]
         /\ With(h, o, NewObject(kind, u))[o] = NewObject(kind, u)
<1> DEFINE new == NewObject(kind, u)
           g == With(h, o, new)
<1>1. new \in GattAttribute
  <2>1. <<>> \in Seq(Object)
    OBVIOUS
  <2> QED
    BY <2>1, SettingAssumption DEF NewObject, GattAttribute
<1> HIDE DEF new
<1>2. /\ DOMAIN g = DOMAIN h \cup {o}
      /\ \A x \in DOMAIN h : g[x] = h[x]
      /\ g[o] = new
  BY DEF With
<1>3. Heap(g)
  BY <1>1 DEF Heap, With
<1> QED
  BY <1>2, <1>3 DEF new

(* It has the kind it was created with, and nothing else changes kind.     *)
LEMMA NewObjectOfKind ==
  ASSUME NEW h, Heap(h), NEW o, o \in Object, o \notin DOMAIN h,
         NEW kind, kind \in {"service", "characteristic", "descriptor"}, NEW u, u \in UUID
  PROVE  /\ OfKind(With(h, o, NewObject(kind, u)), o, kind)
         /\ \A x, k : OfKind(h, x, k) => OfKind(With(h, o, NewObject(kind, u)), x, k)
<1> DEFINE g == With(h, o, NewObject(kind, u))
<1>1. /\ DOMAIN g = DOMAIN h \cup {o}
      /\ \A x \in DOMAIN h : g[x] = h[x]
      /\ g[o] = NewObject(kind, u)
  BY NewObjectIn
<1>2. NewObject(kind, u).kind = kind
  BY DEF NewObject
<1> HIDE DEF g
<1> QED
  BY <1>1, <1>2 DEF OfKind, g

(* The builder gets a new object.                                          *)
LEMMA NewRoot ==
  ASSUME NEW h, Heap(h), NEW b, NEW services, Sound(h, b, services),
         NEW o \in Object \ DOMAIN h,
         NEW kind \in {"service", "characteristic", "descriptor"}, NEW u \in UUID,
         NEW more, Held(more) = Held(b) \cup {o},
         RootsOfKind(With(h, o, NewObject(kind, u)), more, services)
  PROVE  /\ Sound(With(h, o, NewObject(kind, u)), more, services)
         /\ Covered(h, b, services) => Covered(With(h, o, NewObject(kind, u)), more, services)
<1> DEFINE g == With(h, o, NewObject(kind, u))
<1>1. /\ DOMAIN g = DOMAIN h \cup {o}
      /\ \A x \in DOMAIN h : g[x] = h[x]
      /\ g[o].list = <<>>
  <2>1. /\ DOMAIN With(h, o, NewObject(kind, u)) = DOMAIN h \cup {o}
        /\ \A x \in DOMAIN h : With(h, o, NewObject(kind, u))[x] = h[x]
        /\ With(h, o, NewObject(kind, u))[o] = NewObject(kind, u)
    BY NewObjectIn
  <2>2. NewObject(kind, u).list = <<>>
    BY DEF NewObject
  <2> QED
    BY <2>1, <2>2
<1>2. /\ ListsOfKind(h) /\ ListedOnce(h)
      /\ RootsOfKind(h, b, services) /\ RootsHeldOnce(h, b, services)
  BY DEF Sound
<1>3. RootsOfKind(g, more, services)
  OBVIOUS
<1> HIDE DEF g
<1>4. \A x \in DOMAIN g : \A i \in DOMAIN g[x].list :
        x \in DOMAIN h /\ i \in DOMAIN h[x].list /\ g[x].list[i] = h[x].list[i]
  BY <1>1
<1>5. ListsOfKind(g)
  <2>1. \A x, k : OfKind(h, x, k) => OfKind(g, x, k)
    BY <1>1 DEF OfKind
  <2> QED
    BY <1>1, <1>2, <1>4, <2>1 DEF ListsOfKind
<1>6. ListedOnce(g)
  BY <1>2, <1>4 DEF ListedOnce
<1>7. \A x \in DOMAIN g : Elements(g[x].list) \subseteq DOMAIN h
  <2> TAKE x \in DOMAIN g
  <2>1. CASE x = o
    BY <2>1, <1>1 DEF Elements
  <2>2. CASE x # o
    BY <2>2, <1>1, <1>2, ListedIsLive
  <2> QED
    BY <2>1, <2>2
<1>8. RootsHeldOnce(g, more, services)
  <2>1. Elements(services) \subseteq DOMAIN h /\ o \notin DOMAIN h
    BY <1>2, RootIsLive
  <2>2. \A x \in DOMAIN g : Elements(g[x].list) \cap (Held(more) \cup Elements(services)) = {}
    <3> TAKE x \in DOMAIN g
    <3>1. CASE x = o
      BY <3>1, <1>1 DEF Elements
    <3>2. CASE x # o
      BY <3>2, <1>1, <1>2, <1>7, <2>1 DEF RootsHeldOnce
    <3> QED
      BY <3>1, <3>2
  <2>3. Held(more) \cap Elements(services) = {}
    BY <1>2, <2>1 DEF RootsHeldOnce
  <2> QED
    BY <1>2, <2>2, <2>3 DEF RootsHeldOnce
<1>9. Covered(h, b, services) => Covered(g, more, services)
  BY <1>1 DEF Covered, RootsOf
<1> QED
  BY <1>3, <1>5, <1>6, <1>8, <1>9 DEF Sound, g

(* A list of a list is one of descriptors, which have none.                *)
LEMMA ListsAreShort ==
  ASSUME NEW h, ListsOfKind(h), NEW o \in DOMAIN h, NEW p \in Elements(h[o].list),
         NEW q \in DOMAIN h, q \in Elements(h[p].list)
  PROVE  DOMAIN h[q].list = {}
<1>1. OfKind(h, p, "characteristic") \/ OfKind(h, p, "descriptor")
  BY DEF ListsOfKind, Elements
<1>2. OfKind(h, q, "descriptor")
  BY <1>1 DEF ListsOfKind, Elements, OfKind
<1> QED
  BY <1>2 DEF ListsOfKind, OfKind

(* delete, of some of the roots: they go with all they own and with nothing else. *)
LEMMA DeleteRoots ==
  ASSUME NEW h, Heap(h), NEW b, NEW services, Sound(h, b, services),
         NEW roots, roots \subseteq RootsOf(b, services),
         NEW b1, NEW s1, RootsOf(b1, s1) = RootsOf(b, services) \ roots,
         RootsOfKind(h, b1, s1), RootsHeldOnce(h, b1, s1)
  PROVE  /\ Heap(Without(h, Deleted(h, roots)))
         /\ DOMAIN Without(h, Deleted(h, roots)) \subseteq DOMAIN h
         /\ \A o \in DOMAIN Without(h, Deleted(h, roots)) :
              Without(h, Deleted(h, roots))[o] = h[o]
         /\ Sound(Without(h, Deleted(h, roots)), b1, s1)
         /\ Covered(h, b, services) => Covered(Without(h, Deleted(h, roots)), b1, s1)
<1> DEFINE listed == Listed(h, roots)
           below == Listed(h, listed)
           dead == Deleted(h, roots)
           g == Without(h, dead)
<1>1. /\ DOMAIN g = DOMAIN h \ dead
      /\ \A o \in DOMAIN g : g[o] = h[o]
      /\ Heap(g)
  <2> HIDE DEF dead
  <2> QED
    BY DEF Without, Heap
<1>2. dead = roots \cup listed \cup below
  BY DEF Deleted
<1>3. \A x : x \in listed <=> \E p \in roots : x \in Elements(h[p].list)
  BY DEF Listed
<1>4. \A x : x \in below <=> \E p \in listed : x \in Elements(h[p].list)
  BY DEF Listed
<1> HIDE DEF g, dead, below, listed
<1>5. /\ ListsOfKind(h) /\ ListedOnce(h)
      /\ RootsOfKind(h, b, services) /\ RootsHeldOnce(h, b, services)
  BY DEF Sound
<1>6. roots \subseteq DOMAIN h /\ RootsOf(b, services) \subseteq DOMAIN h
  BY <1>5, RootIsLive DEF RootsOf
<1>7. listed \subseteq DOMAIN h /\ below \subseteq DOMAIN h
  BY <1>3, <1>4, <1>5, <1>6, ListedIsLive
<1>8. \A o \in DOMAIN h : Elements(h[o].list) \cap RootsOf(b, services) = {}
  BY <1>5 DEF RootsHeldOnce, RootsOf
<1>9. \A o, p \in DOMAIN h : \A x : x \in Elements(h[o].list) /\ x \in Elements(h[p].list) => o = p
  BY <1>5 DEF ListedOnce, Elements
<1>10. \A x \in RootsOf(b1, s1) : x \in DOMAIN g
  <2> TAKE x \in RootsOf(b1, s1)
  <2>1. x \in RootsOf(b, services) /\ x \notin roots
    OBVIOUS
  <2>2. x \notin listed /\ x \notin below
    BY <2>1, <1>3, <1>4, <1>6, <1>7, <1>8
  <2> QED
    BY <2>1, <2>2, <1>1, <1>2, <1>6
<1>11. \A o \in DOMAIN g : Elements(h[o].list) \subseteq DOMAIN g
  <2> SUFFICES ASSUME NEW o \in DOMAIN g, NEW x \in Elements(h[o].list)
               PROVE  x \in DOMAIN g
    OBVIOUS
  <2>1. o \in DOMAIN h /\ o \notin roots /\ o \notin listed
    BY <1>1, <1>2
  <2>2. x \in DOMAIN h
    BY <2>1, <1>5, ListedIsLive
  <2>3. x \notin roots
    BY <2>1, <1>8
  <2>4. x \notin listed
    BY <2>1, <1>3, <1>6, <1>9
  <2>5. x \notin below
    BY <2>1, <1>4, <1>7, <1>9
  <2> QED
    BY <2>2, <2>3, <2>4, <2>5, <1>1, <1>2
<1>12. ListsOfKind(g)
  <2> SUFFICES ASSUME NEW o \in DOMAIN g, NEW i \in DOMAIN g[o].list
               PROVE  \/ g[o].kind = "service" /\ OfKind(g, g[o].list[i], "characteristic")
                      \/ g[o].kind = "characteristic" /\ OfKind(g, g[o].list[i], "descriptor")
    BY Zenon DEF ListsOfKind
  <2>1. o \in DOMAIN h /\ g[o] = h[o] /\ h[o].list[i] \in DOMAIN g
    BY <1>1, <1>11 DEF Elements
  <2> QED
    BY <2>1, <1>1, <1>5 DEF ListsOfKind, OfKind
<1>13. RootsOfKind(g, b1, s1)
  <2>1. \A x, kind : x \in DOMAIN g /\ OfKind(h, x, kind) => OfKind(g, x, kind)
    BY <1>1 DEF OfKind
  <2>2. \A i \in DOMAIN s1 : OfKind(g, s1[i], "service")
    BY <2>1, <1>10 DEF RootsOf, Elements, RootsOfKind
  <2>3. ASSUME b1 # NULL
        PROVE  /\ OfKind(g, b1.service, "service")
               /\ b1.characteristic # NULL => OfKind(g, b1.characteristic, "characteristic")
               /\ b1.descriptor # NULL =>
                    b1.characteristic # NULL /\ OfKind(g, b1.descriptor, "descriptor")
    <3>1. \A x \in {b1.service, b1.characteristic, b1.descriptor} : x # NULL => x \in DOMAIN g
      BY <2>3, <1>10 DEF RootsOf, Held
    <3>2. /\ OfKind(h, b1.service, "service")
          /\ b1.characteristic # NULL => OfKind(h, b1.characteristic, "characteristic")
          /\ b1.descriptor # NULL =>
               b1.characteristic # NULL /\ OfKind(h, b1.descriptor, "descriptor")
      BY <2>3 DEF RootsOfKind
    <3>3. b1.service # NULL
      BY <3>2, NullAssumption DEF OfKind, Heap
    <3> QED
      BY <3>1, <3>2, <3>3, <2>1
  <2> QED
    BY <2>2, <2>3 DEF RootsOfKind
<1>14. ListedOnce(g)
  BY <1>1, <1>5 DEF ListedOnce
<1>15. RootsHeldOnce(g, b1, s1)
  BY <1>1 DEF RootsHeldOnce
<1>16. ASSUME Covered(h, b, services)
       PROVE  Covered(g, b1, s1)
  <2> SUFFICES ASSUME NEW o \in DOMAIN g, o \notin RootsOf(b1, s1)
               PROVE  \E p \in DOMAIN g : o \in Elements(g[p].list)
    BY DEF Covered
  <2>1. o \in DOMAIN h /\ o \notin roots /\ o \notin listed /\ o \notin below
    BY <1>1, <1>2
  <2>2. PICK p \in DOMAIN h : o \in Elements(h[p].list)
    BY <2>1, <1>16 DEF Covered
  <2>3. p \notin roots /\ p \notin listed
    BY <2>1, <2>2, <1>3, <1>4
  <2>4. p \notin below
    <3> SUFFICES ASSUME p \in below
                 PROVE  FALSE
      OBVIOUS
    <3>1. PICK q \in listed : p \in Elements(h[q].list)
      BY <1>4
    <3>2. PICK r \in roots : q \in Elements(h[r].list)
      BY <1>3
    <3>3. DOMAIN h[p].list = {}
      BY <3>1, <3>2, <1>5, <1>6, ListsAreShort
    <3> QED
      BY <3>3, <2>2 DEF Elements
  <2> QED
    BY <2>2, <2>3, <2>4, <1>1, <1>2
<1> QED
  BY <1>1, <1>12, <1>13, <1>14, <1>15, <1>16 DEF Sound, g, dead

(* Without roots there is nothing.                                         *)
LEMMA NothingWithoutRoots ==
  ASSUME NEW h, NEW b, NEW services, Sound(h, b, services), Covered(h, b, services),
         RootsOf(b, services) = {}
  PROVE  DOMAIN h = {}
<1> SUFFICES ASSUME NEW o \in DOMAIN h
             PROVE  FALSE
  OBVIOUS
<1>1. PICK p \in DOMAIN h : o \in Elements(h[p].list)
  BY DEF Covered
<1>2. PICK q \in DOMAIN h : p \in Elements(h[q].list)
  BY DEF Covered
<1>3. PICK r \in DOMAIN h : q \in Elements(h[r].list)
  BY DEF Covered
<1>4. DOMAIN h[p].list = {}
  BY <1>2, <1>3, ListsAreShort DEF Sound
<1> QED
  BY <1>1, <1>4 DEF Elements

-----------------------------------------------------------------------------
(* commit() of the builder                                                 *)

Fits(h) == \A o \in DOMAIN h : h[o].len <= h[o].lenMax

(* What a builder holds, which are different objects.                      *)
LEMMA BuilderHolds ==
  ASSUME NEW h, Heap(h), NEW b \in Builder, NEW services, RootsOfKind(h, b, services)
  PROVE  /\ b # NULL
         /\ b.service \in DOMAIN h /\ h[b.service].kind = "service" /\ b.service # NULL
         /\ b.characteristic # NULL =>
              b.characteristic \in DOMAIN h /\ h[b.characteristic].kind = "characteristic"
         /\ b.descriptor # NULL =>
              /\ b.descriptor \in DOMAIN h /\ h[b.descriptor].kind = "descriptor"
              /\ b.characteristic # NULL
         /\ Held(b) = {b.service, b.characteristic, b.descriptor} \ {NULL}
<1>1. b # NULL
  BY NullAssumption
<1>2. b.service # NULL
  BY <1>1, NullAssumption DEF RootsOfKind, OfKind, Heap
<1> QED
  BY <1>1, <1>2 DEF RootsOfKind, OfKind, Held

(* The descriptor goes to the characteristic.                              *)
LEMMA DescriptorHandedDown ==
  ASSUME NEW h, Heap(h), NEW b \in Builder, NEW services, Sound(h, b, services)
  PROVE  /\ Heap(DescriptorAdded(h, b))
         /\ DOMAIN DescriptorAdded(h, b) = DOMAIN h
         /\ \A o \in DOMAIN h : DescriptorAdded(h, b)[o].kind = h[o].kind
         /\ \A o \in DOMAIN h :
              o # b.characteristic => DescriptorAdded(h, b)[o] = h[o]
         /\ Fits(h) => Fits(DescriptorAdded(h, b))
         /\ [b EXCEPT !.descriptor = NULL] \in Builder
         /\ Sound(DescriptorAdded(h, b), [b EXCEPT !.descriptor = NULL], services)
         /\ \/ ~Covered(h, b, services)
            \/ b.descriptor # NULL /\ Wraps(h[b.characteristic].list)
            \/ Covered(DescriptorAdded(h, b), [b EXCEPT !.descriptor = NULL], services)
<1> DEFINE rest == [b EXCEPT !.descriptor = NULL]
<1>1. RootsOfKind(h, b, services)
  BY DEF Sound
<1>2. rest \in Builder /\ rest.service = b.service /\ rest.characteristic = b.characteristic
      /\ rest.descriptor = NULL
  BY DEF Builder
<1>3. CASE b.descriptor = NULL
  <2>1. rest = b
    BY <1>3 DEF Builder
  <2>2. DescriptorAdded(h, b) = h
    BY <1>3 DEF DescriptorAdded
  <2> QED
    BY <1>2, <2>1, <2>2
<1>4. CASE b.descriptor # NULL
  <2>1. DescriptorAdded(h, b) = Add(h, b.characteristic, b.descriptor)
    BY <1>4 DEF DescriptorAdded
  <2>2. /\ b.characteristic \in DOMAIN h /\ h[b.characteristic].kind = "characteristic"
        /\ b.descriptor \in DOMAIN h /\ h[b.descriptor].kind = "descriptor"
        /\ b.descriptor \in Held(b)
        /\ h[b.service].kind = "service"
        /\ Held(b) = {b.service, b.characteristic, b.descriptor} \ {NULL}
    BY <1>1, <1>4, BuilderHolds
  <2>3. rest # NULL
    BY <1>2, NullAssumption
  <2>4. Held(rest) = {b.service, b.characteristic} \ {NULL}
    <3> HIDE DEF rest
    <3> QED
      BY <1>2, <2>3 DEF Held
  <2>5. Held(rest) = Held(b) \ {b.descriptor}
    BY <2>2, <2>4
  <2>6. RootsOfKind(h, rest, services)
    <3>1. b # NULL
      BY NullAssumption
    <3> HIDE DEF rest
    <3> QED
      BY <1>1, <1>2, <2>3, <3>1 DEF RootsOfKind
  <2>7. /\ Heap(Add(h, b.characteristic, b.descriptor))
        /\ DOMAIN Add(h, b.characteristic, b.descriptor) = DOMAIN h
        /\ \A o \in DOMAIN h :
             /\ Add(h, b.characteristic, b.descriptor)[o].kind = h[o].kind
             /\ Add(h, b.characteristic, b.descriptor)[o].len = h[o].len
             /\ Add(h, b.characteristic, b.descriptor)[o].lenMax = h[o].lenMax
             /\ o # b.characteristic => Add(h, b.characteristic, b.descriptor)[o] = h[o]
    <3>1. \A o \in DOMAIN h :
            o # b.characteristic => Add(h, b.characteristic, b.descriptor)[o] = h[o]
      BY <2>2, AddChanges
    <3> QED
      BY <2>2, <3>1, AddChanges
  <2>8. Fits(h) => Fits(Add(h, b.characteristic, b.descriptor))
    BY <2>7 DEF Fits
  <2> HIDE DEF rest
  <2>9. /\ Sound(Add(h, b.characteristic, b.descriptor), rest, services)
        /\ Covered(h, b, services) /\ ~Wraps(h[b.characteristic].list) =>
             Covered(Add(h, b.characteristic, b.descriptor), rest, services)
    BY <2>2, <2>5, <2>6, HandDown
  <2> QED
    BY <1>2, <1>4, <2>1, <2>7, <2>8, <2>9 DEF rest
<1> QED
  BY <1>3, <1>4

(* Then the characteristic goes to the service.                            *)
LEMMA Committed ==
  ASSUME NEW h, Heap(h), NEW b \in Builder, NEW services, Sound(h, b, services)
  PROVE  /\ Heap(committed(h, b))
         /\ DOMAIN committed(h, b) = DOMAIN h
         /\ Fits(h) => Fits(committed(h, b))
         /\ afterCommit(b) \in Builder
         /\ afterCommit(b).service = b.service
         /\ afterCommit(b).characteristic = NULL /\ afterCommit(b).descriptor = NULL
         /\ Sound(committed(h, b), afterCommit(b), services)
         /\ Covered(h, b, services) /\ ~CommitWraps(h, b) =>
              Covered(committed(h, b), afterCommit(b), services)
<1> DEFINE rest == afterCommit(b)
           half == [b EXCEPT !.descriptor = NULL]
           h1 == DescriptorAdded(h, b)
<1>1. RootsOfKind(h, b, services)
  BY DEF Sound
<1>2. /\ rest \in Builder /\ rest.service = b.service
      /\ rest.characteristic = NULL /\ rest.descriptor = NULL
  BY DEF Builder, afterCommit
<1>3. CASE b.characteristic = NULL
  <2>1. b.descriptor = NULL
    BY <1>1, <1>3, BuilderHolds
  <2>2. rest = b
    BY <1>3, <2>1 DEF Builder, afterCommit
  <2>3. committed(h, b) = h
    BY <1>3 DEF committed
  <2> QED
    BY <1>2, <2>2, <2>3
<1>4. CASE b.characteristic # NULL
  <2>1. committed(h, b) = Add(h1, b.service, b.characteristic)
    BY <1>4 DEF committed
  <2>2. /\ half \in Builder /\ half.service = b.service
        /\ half.characteristic = b.characteristic /\ half.descriptor = NULL
    BY DEF Builder
  <2>3. /\ Heap(h1) /\ DOMAIN h1 = DOMAIN h
        /\ \A o \in DOMAIN h : h1[o].kind = h[o].kind
        /\ \A o \in DOMAIN h : o # b.characteristic => h1[o] = h[o]
        /\ Fits(h) => Fits(h1)
        /\ Sound(h1, half, services)
        /\ \/ ~Covered(h, b, services)
           \/ b.descriptor # NULL /\ Wraps(h[b.characteristic].list)
           \/ Covered(h1, half, services)
    BY DescriptorHandedDown
  <2> HIDE DEF h1, half, rest
  <2>4. RootsOfKind(h1, half, services)
    BY <2>3 DEF Sound
  <2>5. /\ b.service \in DOMAIN h1 /\ h1[b.service].kind = "service" /\ b.service # NULL
        /\ b.characteristic \in DOMAIN h1 /\ h1[b.characteristic].kind = "characteristic"
        /\ Held(half) = {b.service, b.characteristic} \ {NULL}
    <3>1. /\ half.service \in DOMAIN h1 /\ h1[half.service].kind = "service" /\ half.service # NULL
          /\ half.characteristic # NULL =>
               half.characteristic \in DOMAIN h1 /\ h1[half.characteristic].kind = "characteristic"
          /\ Held(half) = {half.service, half.characteristic, half.descriptor} \ {NULL}
      BY <2>2, <2>3, <2>4, BuilderHolds
    <3> QED
      BY <1>4, <2>2, <3>1
  <2>6. rest # NULL
    BY <1>2, NullAssumption
  <2>7. Held(rest) = {b.service}
    BY <1>2, <2>5, <2>6 DEF Held
  <2>8. Held(rest) = Held(half) \ {b.characteristic} /\ b.characteristic \in Held(half)
    BY <1>4, <2>5, <2>7
  <2>9. RootsOfKind(h1, rest, services)
    <3>1. half # NULL
      BY <2>2, NullAssumption
    <3> QED
      BY <1>2, <2>2, <2>4, <2>6, <3>1 DEF RootsOfKind
  <2>10. /\ Heap(Add(h1, b.service, b.characteristic))
         /\ DOMAIN Add(h1, b.service, b.characteristic) = DOMAIN h1
         /\ \A o \in DOMAIN h1 :
              /\ Add(h1, b.service, b.characteristic)[o].len = h1[o].len
              /\ Add(h1, b.service, b.characteristic)[o].lenMax = h1[o].lenMax
    BY <2>3, <2>5, AddChanges
  <2>11. Fits(h) => Fits(Add(h1, b.service, b.characteristic))
    BY <2>3, <2>10 DEF Fits
  <2>12. /\ Sound(Add(h1, b.service, b.characteristic), rest, services)
         /\ Covered(h1, half, services) /\ ~Wraps(h1[b.service].list) =>
              Covered(Add(h1, b.service, b.characteristic), rest, services)
    BY <2>3, <2>5, <2>8, <2>9, HandDown
  <2>13. h1[b.service] = h[b.service]
    BY <2>3, <2>5
  <2>14. Covered(h, b, services) /\ ~CommitWraps(h, b) =>
           Covered(Add(h1, b.service, b.characteristic), rest, services)
    BY <1>4, <2>3, <2>12, <2>13 DEF CommitWraps
  <2> QED
    BY <1>2, <2>1, <2>3, <2>10, <2>11, <2>12, <2>14 DEF rest
<1> QED
  BY <1>3, <1>4

-----------------------------------------------------------------------------
(* What the stack is told                                                  *)

(* A function of the indices of a list is a sequence.                      *)
LEMMA MappedList ==
  ASSUME NEW T, NEW list \in Seq(T), NEW S, NEW f, f \in [DOMAIN list -> S]
  PROVE  f \in Seq(S)
<1>1. DOMAIN list = 1 .. Len(list) /\ Len(list) \in Nat
  OBVIOUS
<1>2. f \in [1 .. Len(list) -> S]
  BY <1>1
<1> QED
  BY <1>1, <1>2

(* A service of the heap has its type.                                     *)
LEMMA ServiceType ==
  ASSUME NEW h, Heap(h), ListsOfKind(h), NEW service, service \in DOMAIN h
  PROVE  Service(h, service) \in ToldService
<1> DEFINE list == h[service].list
           Descriptors(c) == [j \in DOMAIN h[c].list |-> Attribute(h[h[c].list[j]])]
           Characteristic(c) == [value |-> Attribute(h[c]), descriptors |-> Descriptors(c)]
           characteristics == [i \in DOMAIN list |-> Characteristic(list[i])]
           Told == [value : ToldAttribute, descriptors : Seq(ToldAttribute)]
<1>1. \A o \in DOMAIN h : Attribute(h[o]) \in ToldAttribute
  BY DEF Heap, GattAttribute, Attribute, ToldAttribute
<1>2. \A o \in DOMAIN h : h[o].list \in Seq(Object)
                          /\ \A i \in DOMAIN h[o].list : h[o].list[i] \in DOMAIN h
  BY ListType DEF ListsOfKind, OfKind
<1>3. \A c \in DOMAIN h : Descriptors(c) \in Seq(ToldAttribute)
  <2> TAKE c \in DOMAIN h
  <2>1. Descriptors(c) \in [DOMAIN h[c].list -> ToldAttribute]
    BY <1>1, <1>2
  <2> HIDE DEF Descriptors
  <2> QED
    BY <1>2, <2>1, MappedList
<1>4. \A c \in DOMAIN h : Characteristic(c) \in Told
  <2> HIDE DEF Descriptors
  <2> QED
    BY <1>1, <1>3
<1>5. characteristics \in Seq(Told)
  <2> HIDE DEF Characteristic, Told
  <2>1. characteristics \in [DOMAIN list -> Told]
    BY <1>2, <1>4
  <2> HIDE DEF characteristics
  <2> QED
    BY <1>2, <2>1, MappedList
<1>6. h[service].uuid \in UUID
  BY DEF Heap, GattAttribute
<1>7. Service(h, service) = [uuid |-> h[service].uuid, characteristics |-> characteristics]
  BY DEF Service
<1> HIDE DEF characteristics
<1> QED
  BY <1>5, <1>6, <1>7 DEF ToldService

-----------------------------------------------------------------------------
(* The inductive invariant                                                 *)

HeapInv(h, b, services, w) ==
  /\ Heap(h) /\ Fits(h)
  /\ b \in Builder \cup {NULL} /\ services \in Seq(Object)
  /\ Sound(h, b, services)
  /\ w \in BOOLEAN /\ (w \/ Covered(h, b, services))

FlagsInv ==
  /\ cleanupRegistered \in BOOLEAN /\ initialized \in BOOLEAN
  /\ onShutdown = IF cleanupRegistered THEN 1 ELSE 0
  /\ serviceBuilder # NULL \/ gattServices # <<>> => cleanupRegistered

DatabaseInv ==
  /\ database \in Seq([service : Object, told : ToldService])
  /\ DOMAIN database = DOMAIN gattServices
  /\ \A i \in DOMAIN database : database[i].service = gattServices[i]

Inv == HeapInv(heap, serviceBuilder, gattServices, wrapped) /\ FlagsInv /\ DatabaseInv

(* new, in the three commands that declare something.                      *)
LEMMA Declared ==
  ASSUME NEW h, NEW b, NEW services, NEW w, HeapInv(h, b, services, w),
         NEW kind, kind \in {"service", "characteristic", "descriptor"}, NEW u, u \in UUID,
         NEW o, o \in Object, o \notin DOMAIN h,
         NEW more, more \in Builder, Held(more) = Held(b) \cup {o},
         RootsOfKind(With(h, o, NewObject(kind, u)), more, services)
  PROVE  HeapInv(With(h, o, NewObject(kind, u)), more, services, w)
<1> DEFINE g == With(h, o, NewObject(kind, u))
<1>1. Heap(h) /\ Fits(h) /\ Sound(h, b, services)
  BY DEF HeapInv
<1>2. /\ Sound(g, more, services)
      /\ Covered(h, b, services) => Covered(g, more, services)
  BY <1>1, NewRoot
<1>3. /\ Heap(g)
      /\ DOMAIN g = DOMAIN h \cup {o}
      /\ \A x \in DOMAIN h : g[x] = h[x]
      /\ g[o] = NewObject(kind, u)
  BY <1>1, NewObjectIn
<1>4. NewObject(kind, u).len = 0 /\ NewObject(kind, u).lenMax = 0
  BY DEF NewObject
<1> HIDE DEF g
<1>5. Fits(g)
  BY <1>1, <1>3, <1>4 DEF Fits
<1> QED
  BY <1>2, <1>3, <1>5 DEF HeapInv, g

(* Every heap that differs in values only.                                 *)
LEMMA ValuesChanged ==
  ASSUME NEW h, NEW b, NEW services, NEW w, HeapInv(h, b, services, w),
         NEW g, SameShape(h, g), Heap(g), Fits(g)
  PROVE  HeapInv(g, b, services, w)
BY SameShapeIsSound DEF HeapInv

(* A command that sets something of what is being declared.                *)
LEMMA SetKeeps ==
  ASSUME Inv, NEW o, o \in DOMAIN heap, Set(o)
  PROVE  /\ HeapInv(heap', serviceBuilder', gattServices', wrapped')
         /\ UNCHANGED <<serviceBuilder, gattServices, cleanupRegistered, stack, wrapped>>
<1>1. heap \in [DOMAIN heap -> GattAttribute] /\ DOMAIN heap \subseteq Object /\ Fits(heap)
  BY DEF Inv, HeapInv, Heap
<1>2. heap[o] \in GattAttribute
  BY <1>1
<1>3. \A n \in Length \cup {0} : n \in Nat
  BY LengthAssumption
<1>4. ASSUME NEW a, a \in GattAttribute, a.kind = heap[o].kind, a.list = heap[o].list,
             a.len <= a.lenMax, Change(o, a)
      PROVE  /\ HeapInv(heap', serviceBuilder', gattServices', wrapped')
             /\ UNCHANGED <<serviceBuilder, gattServices, cleanupRegistered, stack, wrapped>>
  <2>1. /\ heap' = [heap EXCEPT ![o] = a]
        /\ UNCHANGED <<serviceBuilder, gattServices, cleanupRegistered, stack, wrapped>>
    BY <1>4 DEF Change
  <2>2. Heap(heap') /\ DOMAIN heap' = DOMAIN heap /\ heap'[o] = a
        /\ \A x \in DOMAIN heap : x # o => heap'[x] = heap[x]
    BY <1>1, <1>4, <2>1 DEF Heap
  <2>3. SameShape(heap, heap') /\ Fits(heap')
    BY <1>1, <1>4, <2>2 DEF SameShape, Fits
  <2>4. HeapInv(heap', serviceBuilder, gattServices, wrapped)
    BY <2>2, <2>3, ValuesChanged DEF Inv
  <2> QED
    BY <2>1, <2>4
<1>5. ASSUME NEW n \in Length, Change(o, setValue(heap[o], n))
      PROVE  /\ HeapInv(heap', serviceBuilder', gattServices', wrapped')
             /\ UNCHANGED <<serviceBuilder, gattServices, cleanupRegistered, stack, wrapped>>
  <2>1. n \in Nat
    BY <1>3
  <2>2. /\ setValue(heap[o], n) \in GattAttribute
        /\ setValue(heap[o], n).kind = heap[o].kind /\ setValue(heap[o], n).list = heap[o].list
        /\ setValue(heap[o], n).len <= setValue(heap[o], n).lenMax
    <3> DEFINE max == IF heap[o].lenMax < n THEN n ELSE heap[o].lenMax
    <3>1. max \in Nat /\ n <= max
      BY <1>2, <2>1 DEF GattAttribute
    <3>2. setValue(heap[o], n) = [heap[o] EXCEPT !.len = n, !.lenMax = max]
      BY DEF setValue
    <3> HIDE DEF max
    <3> QED
      BY <1>2, <2>1, <3>1, <3>2 DEF GattAttribute
  <2> QED
    BY <1>4, <1>5, <2>2
<1>6. ASSUME NEW n \in Length \cup {0}, AcceptsMaxLength(heap[o], n),
             Change(o, [heap[o] EXCEPT !.lenMax = n])
      PROVE  /\ HeapInv(heap', serviceBuilder', gattServices', wrapped')
             /\ UNCHANGED <<serviceBuilder, gattServices, cleanupRegistered, stack, wrapped>>
  <2>1. n \in Nat /\ heap[o].len <= heap[o].lenMax /\ heap[o].len \in Nat /\ heap[o].lenMax \in Nat
    BY <1>1, <1>2, <1>3 DEF Fits, GattAttribute
  <2>2. heap[o].len <= n
    BY <1>6, <2>1 DEF AcceptsMaxLength
  <2>3. /\ [heap[o] EXCEPT !.lenMax = n] \in GattAttribute
        /\ [heap[o] EXCEPT !.lenMax = n].kind = heap[o].kind
        /\ [heap[o] EXCEPT !.lenMax = n].list = heap[o].list
        /\ [heap[o] EXCEPT !.lenMax = n].len <= [heap[o] EXCEPT !.lenMax = n].lenMax
    BY <1>2, <2>1, <2>2 DEF GattAttribute
  <2> QED
    BY <1>4, <1>6, <2>3
<1>7. ASSUME NEW s \in Setting, Change(o, [heap[o] EXCEPT !.setting = s])
      PROVE  /\ HeapInv(heap', serviceBuilder', gattServices', wrapped')
             /\ UNCHANGED <<serviceBuilder, gattServices, cleanupRegistered, stack, wrapped>>
  <2>1. heap[o].len <= heap[o].lenMax
    BY <1>1 DEF Fits
  <2>2. /\ [heap[o] EXCEPT !.setting = s] \in GattAttribute
        /\ [heap[o] EXCEPT !.setting = s].kind = heap[o].kind
        /\ [heap[o] EXCEPT !.setting = s].list = heap[o].list
        /\ [heap[o] EXCEPT !.setting = s].len <= [heap[o] EXCEPT !.setting = s].lenMax
    BY <1>2, <2>1 DEF GattAttribute
  <2> QED
    BY <1>4, <1>7, <2>2
<1> QED
  BY <1>5, <1>6, <1>7 DEF Set

-----------------------------------------------------------------------------
(* The commands and the stack                                              *)

LEMMA declareServiceKeeps ==
  ASSUME Inv, NEW u \in UUID, declareService(u)
  PROVE  Inv'
<1>1. PICK o \in Object \ DOMAIN heap :
        /\ heap' = With(heap, o, NewObject("service", u))
        /\ serviceBuilder' = [service |-> o, characteristic |-> NULL, descriptor |-> NULL]
  BY DEF declareService
<1>2. /\ serviceBuilder = NULL
      /\ gattServices' = gattServices /\ initialized' = initialized
      /\ database' = database /\ wrapped' = wrapped
      /\ cleanupRegistered' = TRUE
      /\ onShutdown' = IF cleanupRegistered THEN onShutdown ELSE onShutdown + 1
  BY DEF declareService, Register
<1> DEFINE g == With(heap, o, NewObject("service", u))
           more == [service |-> o, characteristic |-> NULL, descriptor |-> NULL]
<1>3. o # NULL
  BY NullAssumption
<1>4. more \in Builder
  BY DEF Builder
<1>5. Held(more) = Held(serviceBuilder) \cup {o}
  <2>1. more # NULL
    BY <1>4, NullAssumption
  <2> QED
    BY <1>2, <1>3, <2>1 DEF Held
<1>6. Heap(heap) /\ RootsOfKind(heap, serviceBuilder, gattServices)
  BY DEF Inv, HeapInv, Sound
<1>7. RootsOfKind(g, more, gattServices)
  <2>1. o \in Object /\ o \notin DOMAIN heap
    OBVIOUS
  <2>2. OfKind(g, o, "service") /\ \A x, k : OfKind(heap, x, k) => OfKind(g, x, k)
    BY <1>6, <2>1, NewObjectOfKind
  <2> HIDE DEF g
  <2> QED
    BY <1>6, <2>2 DEF RootsOfKind
<1>8. HeapInv(g, more, gattServices, wrapped)
  <2>1. HeapInv(heap, serviceBuilder, gattServices, wrapped)
    BY DEF Inv
  <2> HIDE DEF more
  <2> QED
    BY <1>4, <1>5, <1>7, <2>1, Declared
<1>9. HeapInv(heap', serviceBuilder', gattServices', wrapped')
  BY <1>1, <1>2, <1>8
<1>10. FlagsInv'
  BY <1>2 DEF Inv, FlagsInv
<1>11. DatabaseInv'
  BY <1>2 DEF Inv, DatabaseInv
<1> QED
  BY <1>9, <1>10, <1>11 DEF Inv

LEMMA declareCharacteristicKeeps ==
  ASSUME Inv, NEW u \in UUID, declareCharacteristic(u)
  PROVE  Inv'
<1> DEFINE b == serviceBuilder
           h == committed(heap, b)
           b1 == afterCommit(b)
           w == (wrapped \/ CommitWraps(heap, b))
<1>1. PICK o \in Object \ DOMAIN heap :
        /\ heap' = With(h, o, NewObject("characteristic", u))
        /\ serviceBuilder' = [b1 EXCEPT !.characteristic = o]
  BY DEF declareCharacteristic
<1>2. /\ b # NULL /\ wrapped' = w
      /\ UNCHANGED <<gattServices, cleanupRegistered, stack>>
  BY DEF declareCharacteristic
<1>3. /\ Heap(heap) /\ Fits(heap) /\ b \in Builder /\ gattServices \in Seq(Object)
      /\ Sound(heap, b, gattServices)
  BY <1>2 DEF Inv, HeapInv
<1>4. wrapped \in BOOLEAN /\ (wrapped \/ Covered(heap, b, gattServices))
  BY DEF Inv, HeapInv
<1>5. /\ Heap(h) /\ DOMAIN h = DOMAIN heap /\ Fits(h)
      /\ b1 \in Builder /\ b1.characteristic = NULL /\ b1.descriptor = NULL
      /\ Sound(h, b1, gattServices)
      /\ Covered(heap, b, gattServices) /\ ~CommitWraps(heap, b) => Covered(h, b1, gattServices)
  BY <1>3, Committed
<1> HIDE DEF b1, h
<1>6. HeapInv(h, b1, gattServices, w)
  BY <1>3, <1>4, <1>5, Zenon DEF HeapInv
<1> DEFINE g == With(h, o, NewObject("characteristic", u))
           more == [b1 EXCEPT !.characteristic = o]
<1>7. /\ more \in Builder /\ more.service = b1.service
      /\ more.characteristic = o /\ more.descriptor = NULL
  BY <1>5 DEF Builder
<1>8. RootsOfKind(h, b1, gattServices)
  BY <1>5 DEF Sound
<1>9. /\ b1.service # NULL /\ b1.service \in DOMAIN h /\ h[b1.service].kind = "service"
      /\ Held(b1) = {b1.service}
  <2>1. /\ b1.service # NULL /\ b1.service \in DOMAIN h /\ h[b1.service].kind = "service"
        /\ Held(b1) = {b1.service, b1.characteristic, b1.descriptor} \ {NULL}
    BY <1>5, <1>8, BuilderHolds
  <2> QED
    BY <1>5, <2>1
<1>10. more # NULL /\ o # NULL
  BY <1>7, NullAssumption
<1>11. Held(more) = Held(b1) \cup {o}
  <2> HIDE DEF more
  <2> QED
    BY <1>7, <1>9, <1>10 DEF Held
<1>12. RootsOfKind(g, more, gattServices)
  <2>1. o \in Object /\ o \notin DOMAIN h
    BY <1>5
  <2>2. OfKind(g, o, "characteristic") /\ \A x, k : OfKind(h, x, k) => OfKind(g, x, k)
    BY <1>5, <2>1, NewObjectOfKind
  <2>3. OfKind(h, b1.service, "service")
    BY <1>9 DEF OfKind
  <2> HIDE DEF g, more
  <2> QED
    BY <1>7, <1>8, <2>2, <2>3 DEF RootsOfKind
<1>13. HeapInv(g, more, gattServices, w)
  <2> HIDE DEF more, w
  <2>1. o \in Object /\ o \notin DOMAIN h
    BY <1>5
  <2> QED
    BY <1>6, <1>7, <1>11, <1>12, <2>1, Declared
<1>14. HeapInv(heap', serviceBuilder', gattServices', wrapped')
  <2> HIDE DEF w
  <2> QED
    BY <1>1, <1>2, <1>13
<1>15. FlagsInv'
  BY <1>2 DEF Inv, FlagsInv, stack
<1>16. DatabaseInv'
  BY <1>2 DEF Inv, DatabaseInv, stack
<1> QED
  BY <1>14, <1>15, <1>16 DEF Inv

LEMMA declareDescriptorKeeps ==
  ASSUME Inv, NEW u \in UUID, declareDescriptor(u)
  PROVE  Inv'
<1> DEFINE b == serviceBuilder
           h == DescriptorAdded(heap, b)
           b1 == [b EXCEPT !.descriptor = NULL]
           wraps == b.descriptor # NULL /\ Wraps(heap[b.characteristic].list)
           w == (wrapped \/ wraps)
<1>1. PICK o \in Object \ DOMAIN heap :
        /\ heap' = With(h, o, NewObject("descriptor", u))
        /\ serviceBuilder' = [b EXCEPT !.descriptor = o]
  BY DEF declareDescriptor
<1>2. /\ b # NULL /\ b.characteristic # NULL /\ wrapped' = w
      /\ UNCHANGED <<gattServices, cleanupRegistered, stack>>
  BY DEF declareDescriptor
<1>3. /\ Heap(heap) /\ Fits(heap) /\ b \in Builder /\ gattServices \in Seq(Object)
      /\ Sound(heap, b, gattServices)
  BY <1>2 DEF Inv, HeapInv
<1>4. wrapped \in BOOLEAN /\ (wrapped \/ Covered(heap, b, gattServices))
  BY DEF Inv, HeapInv
<1>5. /\ Heap(h) /\ DOMAIN h = DOMAIN heap /\ Fits(h)
      /\ b1 \in Builder
      /\ Sound(h, b1, gattServices)
      /\ ~Covered(heap, b, gattServices) \/ wraps \/ Covered(h, b1, gattServices)
  BY <1>3, DescriptorHandedDown
<1>6. /\ b1.descriptor = NULL /\ b1.characteristic = b.characteristic /\ b1.service = b.service
  BY <1>3 DEF Builder
<1> HIDE DEF b1, h, wraps
<1>7. HeapInv(h, b1, gattServices, w)
  BY <1>3, <1>4, <1>5, Zenon DEF HeapInv
<1> DEFINE g == With(h, o, NewObject("descriptor", u))
           more == [b EXCEPT !.descriptor = o]
<1>8. /\ more \in Builder /\ more.service = b1.service
      /\ more.characteristic = b1.characteristic /\ more.descriptor = o
  BY <1>3, <1>6 DEF Builder
<1>9. RootsOfKind(h, b1, gattServices)
  BY <1>5 DEF Sound
<1>10. /\ b1.service # NULL /\ b1.service \in DOMAIN h /\ h[b1.service].kind = "service"
       /\ b1.characteristic \in DOMAIN h /\ h[b1.characteristic].kind = "characteristic"
       /\ Held(b1) = {b1.service, b1.characteristic}
  <2>1. /\ b1.service # NULL /\ b1.service \in DOMAIN h /\ h[b1.service].kind = "service"
        /\ b1.characteristic # NULL =>
             b1.characteristic \in DOMAIN h /\ h[b1.characteristic].kind = "characteristic"
        /\ Held(b1) = {b1.service, b1.characteristic, b1.descriptor} \ {NULL}
    BY <1>5, <1>9, BuilderHolds
  <2> QED
    BY <1>2, <1>6, <2>1
<1>11. more # NULL /\ o # NULL
  BY <1>8, NullAssumption
<1>12. Held(more) = Held(b1) \cup {o}
  <2> HIDE DEF more
  <2> QED
    BY <1>2, <1>6, <1>8, <1>10, <1>11 DEF Held
<1>13. RootsOfKind(g, more, gattServices)
  <2>1. o \in Object /\ o \notin DOMAIN h
    BY <1>5
  <2>2. OfKind(g, o, "descriptor") /\ \A x, k : OfKind(h, x, k) => OfKind(g, x, k)
    BY <1>5, <2>1, NewObjectOfKind
  <2>3. OfKind(h, b1.service, "service") /\ OfKind(h, b1.characteristic, "characteristic")
    BY <1>10 DEF OfKind
  <2> HIDE DEF g, more
  <2> QED
    BY <1>2, <1>6, <1>8, <1>9, <2>2, <2>3 DEF RootsOfKind
<1>14. HeapInv(g, more, gattServices, w)
  <2> HIDE DEF more, w
  <2>1. o \in Object /\ o \notin DOMAIN h
    BY <1>5
  <2> QED
    BY <1>7, <1>8, <1>12, <1>13, <2>1, Declared
<1>15. HeapInv(heap', serviceBuilder', gattServices', wrapped')
  <2> HIDE DEF w
  <2> QED
    BY <1>1, <1>2, <1>14
<1>16. FlagsInv'
  BY <1>2 DEF Inv, FlagsInv, stack
<1>17. DatabaseInv'
  BY <1>2 DEF Inv, DatabaseInv, stack
<1> QED
  BY <1>15, <1>16, <1>17 DEF Inv

(* The builder that has handed down all it can holds the service only.     *)
LEMMA AfterCommitHolds ==
  ASSUME NEW h, Heap(h), NEW b \in Builder, b.characteristic = NULL, b.descriptor = NULL,
         NEW services, RootsOfKind(h, b, services)
  PROVE  /\ b.service \in DOMAIN h /\ h[b.service].kind = "service"
         /\ Held(b) = {b.service}
<1>1. /\ b.service # NULL /\ b.service \in DOMAIN h /\ h[b.service].kind = "service"
      /\ Held(b) = {b.service, b.characteristic, b.descriptor} \ {NULL}
  BY BuilderHolds
<1> QED
  BY <1>1

(* releaseAttributesValue()                                                *)
LEMMA ReleaseKeepsShape ==
  ASSUME NEW h, Heap(h), Fits(h), NEW service
  PROVE  /\ SameShape(h, releaseAttributesValue(h, service))
         /\ Heap(releaseAttributesValue(h, service))
         /\ Fits(releaseAttributesValue(h, service))
<1> DEFINE g == releaseAttributesValue(h, service)
<1>1. DOMAIN g = DOMAIN h /\ DOMAIN h \subseteq Object
  BY DEF releaseAttributesValue, Heap
<1>2. \A o \in DOMAIN h : g[o] = h[o] \/ g[o] = [h[o] EXCEPT !.len = 0]
  BY DEF releaseAttributesValue
<1>3. \A o \in DOMAIN h : h[o] \in GattAttribute
  BY DEF Heap
<1>4. \A o \in DOMAIN h :
        /\ g[o] \in GattAttribute /\ g[o].kind = h[o].kind /\ g[o].list = h[o].list
        /\ g[o].len <= g[o].lenMax
  <2> HIDE DEF g
  <2> TAKE o \in DOMAIN h
  <2>1. CASE g[o] = h[o]
    BY <2>1, <1>3 DEF Fits
  <2>2. CASE g[o] = [h[o] EXCEPT !.len = 0]
    <3>1. h[o] \in GattAttribute
      BY <1>3
    <3> QED
      BY <2>2, <3>1 DEF GattAttribute
  <2> QED
    BY <2>1, <2>2, <1>2
<1>5. g = [o \in DOMAIN h |-> g[o]]
  BY DEF releaseAttributesValue
<1> HIDE DEF g
<1>6. g \in [DOMAIN h -> GattAttribute]
  BY <1>4, <1>5
<1> QED
  BY <1>1, <1>4, <1>6 DEF SameShape, Heap, Fits, g

(* The service moves from the builder to gattServices.                     *)
LEMMA ServiceMoves ==
  ASSUME NEW h, Heap(h), NEW b \in Builder, b.characteristic = NULL, b.descriptor = NULL,
         NEW services, services \in Seq(Object), Sound(h, b, services)
  PROVE  /\ Sound(h, NULL, Append(services, b.service))
         /\ Covered(h, b, services) => Covered(h, NULL, Append(services, b.service))
<1> DEFINE more == Append(services, b.service)
<1>1. RootsOfKind(h, b, services) /\ RootsHeldOnce(h, b, services)
      /\ ListsOfKind(h) /\ ListedOnce(h)
  BY DEF Sound
<1>2. b.service \in DOMAIN h /\ h[b.service].kind = "service" /\ Held(b) = {b.service}
  BY <1>1, AfterCommitHolds
<1>3. b.service \in Object
  BY <1>2 DEF Heap
<1>4. /\ DOMAIN more = DOMAIN services \cup {Len(services) + 1}
      /\ \A i \in DOMAIN services : more[i] = services[i]
      /\ more[Len(services) + 1] = b.service
      /\ Elements(more) = Elements(services) \cup {b.service}
  BY <1>3, AppendElements
<1> HIDE DEF more
<1>5. Held(NULL) = {}
  BY DEF Held
<1>6. RootsOf(NULL, more) = RootsOf(b, services)
  BY <1>2, <1>4, <1>5 DEF RootsOf
<1>7. RootsOfKind(h, NULL, more)
  <2>1. OfKind(h, b.service, "service")
    BY <1>2 DEF OfKind
  <2> QED
    BY <1>1, <1>4, <2>1 DEF RootsOfKind
<1>8. RootsHeldOnce(h, NULL, more)
  <2>1. \A o \in DOMAIN h : Elements(h[o].list) \cap (Held(NULL) \cup Elements(more)) = {}
    BY <1>1, <1>6 DEF RootsHeldOnce, RootsOf
  <2>2. \A i \in DOMAIN services : services[i] # b.service
    BY <1>1, <1>2 DEF RootsHeldOnce, Elements
  <2>3. \A i, j \in DOMAIN services : services[i] = services[j] => i = j
    BY <1>1 DEF RootsHeldOnce
  <2>4. \A i, j \in DOMAIN more : more[i] = more[j] => i = j
    BY <1>4, <2>2, <2>3
  <2> QED
    BY <1>5, <2>1, <2>4 DEF RootsHeldOnce
<1>9. Covered(h, b, services) => Covered(h, NULL, more)
  BY <1>6 DEF Covered
<1> QED
  BY <1>1, <1>7, <1>8, <1>9 DEF Sound, more

(* What is deleted with some of the roots, when the builder goes.          *)
LEMMA DeletedRootsKeep ==
  ASSUME NEW h, NEW b, NEW services, NEW w, HeapInv(h, b, services, w),
         NEW roots, NEW s1, s1 \in Seq(Object),
         \/ roots = Held(b) /\ s1 = services
         \/ roots = RootsOf(b, services) /\ s1 = <<>>
  PROVE  HeapInv(Without(h, Deleted(h, roots)), NULL, s1, w)
<1> DEFINE g == Without(h, Deleted(h, roots))
<1>1. Heap(h) /\ Fits(h) /\ Sound(h, b, services)
  BY DEF HeapInv
<1>2. RootsOfKind(h, b, services) /\ RootsHeldOnce(h, b, services)
  BY <1>1 DEF Sound
<1>3. Held(NULL) = {} /\ Elements(<<>>) = {}
  BY DEF Held, Elements
<1>4. roots \subseteq RootsOf(b, services)
  BY DEF RootsOf
<1>5. RootsOf(NULL, s1) = RootsOf(b, services) \ roots
  BY <1>2, <1>3 DEF RootsOf, RootsHeldOnce
<1>6. RootsOfKind(h, NULL, s1) /\ RootsHeldOnce(h, NULL, s1)
  <2>1. CASE s1 = services
    BY <2>1, <1>2, <1>3 DEF RootsOfKind, RootsHeldOnce
  <2>2. CASE s1 = <<>>
    BY <2>2, <1>3 DEF RootsOfKind, RootsHeldOnce
  <2> QED
    BY <2>1, <2>2
<1>7. /\ Heap(g)
      /\ DOMAIN g \subseteq DOMAIN h
      /\ \A o \in DOMAIN g : g[o] = h[o]
      /\ Sound(g, NULL, s1)
      /\ Covered(h, b, services) => Covered(g, NULL, s1)
  BY <1>1, <1>4, <1>5, <1>6, DeleteRoots
<1> HIDE DEF g
<1>8. Fits(g)
  BY <1>1, <1>7 DEF Fits
<1> QED
  BY <1>7, <1>8 DEF HeapInv, g

LEMMA commitServiceKeeps ==
  ASSUME Inv, commitService
  PROVE  Inv'
<1> DEFINE b == serviceBuilder
           h == committed(heap, b)
           b1 == afterCommit(b)
           service == b.service
           told == Service(h, service)
           w == (wrapped \/ CommitWraps(heap, b))
           left == Deleted(h, leftInBuilder(b))
           released == releaseAttributesValue(h, service)
<1>1. b # NULL
  BY DEF commitService
<1>2. /\ serviceBuilder' = NULL /\ wrapped' = w
      /\ UNCHANGED <<cleanupRegistered, initialized, onShutdown>>
  BY DEF commitService
<1>3. \/ /\ database' = Append(database, [service |-> service, told |-> told])
         /\ gattServices' = Append(gattServices, service)
         /\ heap' = Without(released, left)
      \/ /\ heap' = Without(h, left \cup Deleted(h, refused(b)))
         /\ UNCHANGED <<gattServices, database>>
  BY DEF commitService
<1>4. /\ Heap(heap) /\ Fits(heap) /\ b \in Builder /\ gattServices \in Seq(Object)
      /\ Sound(heap, b, gattServices)
  BY <1>1 DEF Inv, HeapInv
<1>5. wrapped \in BOOLEAN /\ (wrapped \/ Covered(heap, b, gattServices))
  BY DEF Inv, HeapInv
<1>6. /\ Heap(h) /\ Fits(h)
      /\ b1 \in Builder /\ b1.service = service
      /\ b1.characteristic = NULL /\ b1.descriptor = NULL
      /\ Sound(h, b1, gattServices)
      /\ Covered(heap, b, gattServices) /\ ~CommitWraps(heap, b) => Covered(h, b1, gattServices)
  BY <1>4, Committed
<1>7. leftInBuilder(b) = Held(b1) \ {service} /\ refused(b) = {service}
  BY DEF leftInBuilder, refused
<1>8. database \in Seq([service : Object, told : ToldService]) /\ DatabaseInv
  BY DEF Inv, DatabaseInv
<1> HIDE DEF h, b1, service
<1>9. RootsOfKind(h, b1, gattServices) /\ ListsOfKind(h)
  BY <1>6 DEF Sound
<1>10. service \in DOMAIN h /\ Held(b1) = {service} /\ service \in Object
  <2>1. b1.service \in DOMAIN h /\ Held(b1) = {b1.service}
    BY <1>6, <1>9, AfterCommitHolds
  <2> QED
    BY <1>6, <2>1 DEF Heap
<1>11. HeapInv(h, b1, gattServices, w)
  BY <1>4, <1>5, <1>6, Zenon DEF HeapInv
<1>12. left = {}
  <2>1. leftInBuilder(b) = {}
    BY <1>7, <1>10
  <2> QED
    BY <2>1 DEF Deleted, Listed
<1> HIDE DEF left, w, told, released, b
<1>13. CASE /\ database' = Append(database, [service |-> service, told |-> told])
            /\ gattServices' = Append(gattServices, service)
            /\ heap' = Without(released, left)
  <2>1. HeapInv(h, NULL, Append(gattServices, service), w)
    <3>1. /\ Sound(h, NULL, Append(gattServices, service))
          /\ Covered(h, b1, gattServices) => Covered(h, NULL, Append(gattServices, service))
      BY <1>4, <1>6, ServiceMoves
    <3>2. Append(gattServices, service) \in Seq(Object)
      BY <1>4, <1>10
    <3> QED
      BY <1>11, <3>1, <3>2, Zenon DEF HeapInv
  <2>2. HeapInv(released, NULL, Append(gattServices, service), w)
    <3>1. SameShape(h, released) /\ Heap(released) /\ Fits(released)
      BY <1>6, ReleaseKeepsShape DEF released
    <3> QED
      BY <2>1, <3>1, ValuesChanged
  <2>3. heap' = released
    <3>1. released = [x \in DOMAIN released |-> released[x]]
      BY <2>2 DEF HeapInv, Heap
    <3> QED
      BY <1>12, <1>13, <3>1 DEF Without
  <2>4. HeapInv(heap', serviceBuilder', gattServices', wrapped')
    BY <1>2, <1>13, <2>2, <2>3
  <2>5. FlagsInv'
    <3>1. cleanupRegistered
      BY <1>1 DEF Inv, FlagsInv, b
    <3> QED
      BY <1>2, <3>1 DEF Inv, FlagsInv
  <2>6. [service |-> service, told |-> told] \in [service : Object, told : ToldService]
    <3>1. told \in ToldService
      BY <1>6, <1>9, <1>10, ServiceType DEF told
    <3> QED
      BY <1>10, <3>1
  <2>7. DatabaseInv'
    <3> DEFINE e == [service |-> service, told |-> told]
               E == [service : Object, told : ToldService]
    <3>1. e \in E /\ e.service = service
      BY <2>6
    <3> HIDE DEF e, E
    <3>2. database \in Seq(E)
      BY <1>8 DEF E
    <3>3. /\ Append(database, e) \in Seq(E)
          /\ DOMAIN Append(database, e) = DOMAIN database \cup {Len(database) + 1}
          /\ \A i \in DOMAIN database : Append(database, e)[i] = database[i]
          /\ Append(database, e)[Len(database) + 1] = e
      BY <3>1, <3>2, AppendElements
    <3>4. /\ DOMAIN Append(gattServices, service) = DOMAIN gattServices \cup {Len(gattServices) + 1}
          /\ \A i \in DOMAIN gattServices : Append(gattServices, service)[i] = gattServices[i]
          /\ Append(gattServices, service)[Len(gattServices) + 1] = service
      BY <1>4, <1>10, AppendElements
    <3>5. Len(database) = Len(gattServices)
      <4>1. /\ DOMAIN database = 1 .. Len(database) /\ Len(database) \in Nat
            /\ DOMAIN gattServices = 1 .. Len(gattServices) /\ Len(gattServices) \in Nat
        BY <1>4, <3>2
      <4>2. 1 .. Len(database) = 1 .. Len(gattServices)
        BY <1>8, <4>1 DEF DatabaseInv
      <4>3. \A m, n \in Nat : 1 .. m = 1 .. n => m <= n
        OBVIOUS
      <4>4. Len(database) <= Len(gattServices) /\ Len(gattServices) <= Len(database)
        BY <4>1, <4>2, <4>3
      <4>5. \A m, n \in Nat : m <= n /\ n <= m => m = n
        OBVIOUS
      <4> QED
        BY <4>1, <4>4, <4>5, Zenon
    <3>6. DOMAIN database = DOMAIN gattServices
          /\ \A i \in DOMAIN database : database[i].service = gattServices[i]
      BY <1>8 DEF DatabaseInv
    <3>7. database' = Append(database, e)
      BY <1>13 DEF e
    <3> QED
      BY <1>13, <3>1, <3>3, <3>4, <3>5, <3>6, <3>7 DEF DatabaseInv, E
  <2> QED
    BY <2>4, <2>5, <2>7 DEF Inv
<1>14. CASE /\ heap' = Without(h, left \cup Deleted(h, refused(b)))
            /\ UNCHANGED <<gattServices, database>>
  <2>1. heap' = Without(h, Deleted(h, Held(b1)))
    BY <1>7, <1>10, <1>12, <1>14
  <2>2. HeapInv(heap', NULL, gattServices, w)
    BY <1>4, <1>11, <2>1, DeletedRootsKeep
  <2>3. HeapInv(heap', serviceBuilder', gattServices', wrapped')
    BY <1>2, <1>14, <2>2
  <2>4. FlagsInv'
    BY <1>2, <1>14 DEF Inv, FlagsInv
  <2>5. DatabaseInv'
    BY <1>8, <1>14 DEF DatabaseInv
  <2> QED
    BY <2>3, <2>4, <2>5 DEF Inv
<1> QED
  BY <1>3, <1>13, <1>14

LEMMA cancelServiceDeclarationKeeps ==
  ASSUME Inv, cancelServiceDeclaration
  PROVE  Inv'
<1>1. /\ heap' = Without(heap, Deleted(heap, Held(serviceBuilder)))
      /\ serviceBuilder' = NULL
      /\ UNCHANGED <<gattServices, cleanupRegistered, stack, wrapped>>
  BY DEF cancelServiceDeclaration
<1>2. HeapInv(heap', NULL, gattServices, wrapped)
  <2>1. HeapInv(heap, serviceBuilder, gattServices, wrapped) /\ gattServices \in Seq(Object)
    BY DEF Inv, HeapInv
  <2> QED
    BY <1>1, <2>1, DeletedRootsKeep
<1>3. HeapInv(heap', serviceBuilder', gattServices', wrapped')
  BY <1>1, <1>2
<1>4. FlagsInv' /\ DatabaseInv'
  BY <1>1 DEF Inv, FlagsInv, DatabaseInv, stack
<1> QED
  BY <1>3, <1>4 DEF Inv

(* whenShutdown, if there is anything for it to do.                        *)
LEMMA ShutdownKeeps ==
  ASSUME Inv, shutdown
  PROVE  /\ Inv'
         /\ DOMAIN heap' = {} \/ wrapped
         /\ serviceBuilder' = NULL /\ gattServices' = <<>> /\ database' = <<>>
<1>1. /\ cleanupRegistered' = registeredAfterShutdown
      /\ onShutdown' = 0 /\ initialized' = FALSE /\ database' = <<>> /\ wrapped' = wrapped
  BY DEF shutdown
<1>2. /\ HeapInv(heap, serviceBuilder, gattServices, wrapped)
      /\ Sound(heap, serviceBuilder, gattServices)
  BY DEF Inv, HeapInv
<1>3. <<>> \in Seq(Object)
  OBVIOUS
<1>4. RootsOf(NULL, <<>>) = {}
  BY DEF RootsOf, Held, Elements
<1>5. /\ HeapInv(heap', NULL, <<>>, wrapped)
      /\ serviceBuilder' = NULL /\ gattServices' = <<>> /\ cleanupRegistered' = FALSE
  <2>1. CASE onShutdown > 0
    <3>1. /\ heap' = Without(heap, Deleted(heap, RootsOf(serviceBuilder, gattServices)))
          /\ serviceBuilder' = NULL /\ gattServices' = <<>>
      BY <2>1 DEF shutdown, RootsOf
    <3>2. HeapInv(heap', NULL, <<>>, wrapped)
      BY <1>2, <1>3, <3>1, DeletedRootsKeep
    <3>3. cleanupRegistered' = FALSE
      BY <1>1, <2>1 DEF registeredAfterShutdown
    <3> QED
      BY <3>1, <3>2, <3>3
  <2>2. CASE onShutdown = 0
    <3>1. ~cleanupRegistered /\ serviceBuilder = NULL /\ gattServices = <<>>
      BY <2>2 DEF Inv, FlagsInv
    <3>2. UNCHANGED <<heap, serviceBuilder, gattServices>>
      BY <2>2 DEF shutdown
    <3>3. cleanupRegistered' = FALSE
      BY <1>1, <2>2, <3>1 DEF registeredAfterShutdown
    <3> QED
      BY <1>2, <3>1, <3>2, <3>3
  <2> QED
    BY <2>1, <2>2 DEF shutdown
<1>6. HeapInv(heap', serviceBuilder', gattServices', wrapped')
  BY <1>1, <1>5
<1>7. FlagsInv'
  BY <1>1, <1>5 DEF FlagsInv
<1>8. DatabaseInv'
  <2>1. <<>> \in Seq([service : Object, told : ToldService]) /\ DOMAIN <<>> = {}
    OBVIOUS
  <2> QED
    BY <1>1, <1>5, <2>1 DEF DatabaseInv
<1>9. DOMAIN heap' = {} \/ wrapped
  <2>1. Sound(heap', NULL, <<>>) /\ (wrapped \/ Covered(heap', NULL, <<>>))
    BY <1>5 DEF HeapInv
  <2> QED
    BY <1>4, <2>1, NothingWithoutRoots
<1> QED
  BY <1>1, <1>5, <1>6, <1>7, <1>8, <1>9 DEF Inv

-----------------------------------------------------------------------------
(* The theorems                                                            *)

LEMMA InitInv == Init => Inv
<1> SUFFICES ASSUME Init
             PROVE  Inv
  OBVIOUS
<1>1. /\ DOMAIN heap = {} /\ heap = [o \in {} |-> NULL]
      /\ serviceBuilder = NULL /\ gattServices = <<>>
      /\ cleanupRegistered = FALSE /\ initialized = FALSE /\ onShutdown = 0
      /\ database = <<>> /\ wrapped = FALSE
  BY DEF Init
<1>2. Heap(heap) /\ Fits(heap)
  BY <1>1 DEF Heap, Fits
<1>3. Held(NULL) = {} /\ Elements(<<>>) = {} /\ DOMAIN <<>> = {}
  BY DEF Held, Elements
<1>4. Sound(heap, NULL, <<>>) /\ Covered(heap, NULL, <<>>)
  BY <1>1, <1>3 DEF Sound, Covered, ListsOfKind, RootsOfKind, ListedOnce, RootsHeldOnce
<1>5. <<>> \in Seq(Object)
  OBVIOUS
<1>6. HeapInv(heap, serviceBuilder, gattServices, wrapped)
  BY <1>1, <1>2, <1>4, <1>5 DEF HeapInv
<1>7. FlagsInv
  BY <1>1 DEF FlagsInv
<1>8. DatabaseInv
  <2>1. <<>> \in Seq([service : Object, told : ToldService])
    OBVIOUS
  <2> QED
    BY <1>1, <1>3, <2>1 DEF DatabaseInv
<1> QED
  BY <1>6, <1>7, <1>8 DEF Inv

LEMMA NextInv == Inv /\ [Next]_vars => Inv'
<1> SUFFICES ASSUME Inv, [Next]_vars
             PROVE  Inv'
  OBVIOUS
<1>1. CASE \E u \in UUID : declareService(u)
  BY <1>1, declareServiceKeeps
<1>2. CASE \E u \in UUID : declareCharacteristic(u)
  BY <1>2, declareCharacteristicKeeps
<1>3. CASE \E u \in UUID : declareDescriptor(u)
  BY <1>3, declareDescriptorKeeps
<1>4. CASE setCharacteristic \/ setDescriptor
  <2>1. /\ serviceBuilder \in Builder
        /\ serviceBuilder.characteristic # NULL
        /\ \/ Set(serviceBuilder.characteristic)
           \/ serviceBuilder.descriptor # NULL /\ Set(serviceBuilder.descriptor)
    BY <1>4 DEF setCharacteristic, setDescriptor, Inv, HeapInv
  <2>2. Heap(heap) /\ RootsOfKind(heap, serviceBuilder, gattServices)
    BY DEF Inv, HeapInv, Sound
  <2>3. /\ serviceBuilder.characteristic \in DOMAIN heap
        /\ serviceBuilder.descriptor # NULL => serviceBuilder.descriptor \in DOMAIN heap
    BY <2>1, <2>2, BuilderHolds
  <2>4. /\ HeapInv(heap', serviceBuilder', gattServices', wrapped')
        /\ UNCHANGED <<serviceBuilder, gattServices, cleanupRegistered, stack, wrapped>>
    BY <2>1, <2>3, SetKeeps
  <2>5. FlagsInv' /\ DatabaseInv'
    BY <2>4 DEF Inv, FlagsInv, DatabaseInv, stack
  <2> QED
    BY <2>4, <2>5 DEF Inv
<1>5. CASE commitService
  BY <1>5, commitServiceKeeps
<1>6. CASE cancelServiceDeclaration
  BY <1>6, cancelServiceDeclarationKeeps
<1>7. CASE init
  <2>1. /\ initialized' = TRUE
        /\ UNCHANGED <<heap, serviceBuilder, gattServices, cleanupRegistered, onShutdown,
                        database, wrapped>>
    BY <1>7 DEF init
  <2>2. FlagsInv' /\ DatabaseInv'
    BY <2>1 DEF Inv, FlagsInv, DatabaseInv
  <2>3. HeapInv(heap', serviceBuilder', gattServices', wrapped')
    BY <2>1 DEF Inv
  <2> QED
    BY <2>2, <2>3 DEF Inv
<1>8. CASE shutdown
  BY <1>8, ShutdownKeeps
<1>9. CASE UNCHANGED vars
  <2>1. /\ UNCHANGED <<heap, serviceBuilder, gattServices, cleanupRegistered, wrapped>>
        /\ UNCHANGED <<initialized, onShutdown, database>>
    BY <1>9 DEF vars, stack
  <2>2. FlagsInv' /\ DatabaseInv'
    BY <2>1 DEF Inv, FlagsInv, DatabaseInv
  <2>3. HeapInv(heap', serviceBuilder', gattServices', wrapped')
    BY <2>1 DEF Inv
  <2> QED
    BY <2>2, <2>3 DEF Inv
<1> QED
  BY <1>1, <1>2, <1>3, <1>4, <1>5, <1>6, <1>7, <1>8, <1>9 DEF Next

(* The invariant holds.                                                    *)
LEMMA Invariant == Spec => []Inv
BY InitInv, NextInv, PTL DEF Spec

(* The objects, pointers and flags of GattServerCommands.cpp have their types and no
   value is longer than its maximum.                                       *)
THEOREM TypeCorrect == Spec => []TypeOK
<1>1. Inv => TypeOK
  <2> SUFFICES ASSUME Inv
               PROVE  TypeOK
    OBVIOUS
  <2>1. /\ Heap(heap) /\ \A o \in DOMAIN heap : heap[o].len <= heap[o].lenMax
        /\ serviceBuilder \in Builder \cup {NULL} /\ gattServices \in Seq(Object)
    BY DEF Inv, HeapInv, Fits
  <2>2. {cleanupRegistered, initialized, wrapped} \subseteq BOOLEAN
    BY DEF Inv, HeapInv, FlagsInv
  <2>3. onShutdown \in Nat
    BY DEF Inv, FlagsInv
  <2>4. database \in Seq([service : Object, told : ToldService])
    BY DEF Inv, DatabaseInv
  <2> QED
    BY <2>1, <2>2, <2>3, <2>4 DEF TypeOK
<1> QED
  BY <1>1, Invariant, PTL

(* No pointer of the builder, of gattServices or of an object's list dangles, and no
   object has two owners: it is deleted once, and never in use.            *)
THEOREM ObjectsOwnedOnce == Spec => []OwnedOnce
<1>1. Inv => OwnedOnce
  BY DEF Inv, HeapInv, Sound, OwnedOnce
<1> QED
  BY <1>1, Invariant, PTL

(* Unless a list got too long, every object is reached from the builder or from
   gattServices: the commands leave nothing behind.                        *)
THEOREM NoLeak == Spec => []NothingLeaks
<1>1. Inv => NothingLeaks
  BY DEF Inv, HeapInv, Covered, RootsOf, Roots, NothingLeaks
<1> QED
  BY <1>1, Invariant, PTL

(* The services the stack knows are those of gattServices, and are alive.  *)
THEOREM StackServicesLive == Spec => []StackRefersToServices
<1>1. Inv => StackRefersToServices
  BY DEF Inv, HeapInv, DatabaseInv, Sound, RootsOfKind, OfKind, StackRefersToServices
<1> QED
  BY <1>1, Invariant, PTL

(* A shutdown of the stack, at any moment of a declaration, deletes all that was
   declared and committed, and the next declaration starts anew.           *)
THEOREM ShutdownDeletes == Spec => ShutdownCleansUp
<1>1. Inv /\ [Next]_vars => [ShutdownDeletesAll]_vars
  <2> SUFFICES ASSUME Inv, Next, initialized, ~initialized'
               PROVE  /\ DOMAIN heap' = {} \/ wrapped
                      /\ serviceBuilder' = NULL /\ gattServices' = <<>> /\ database' = <<>>
    BY DEF ShutdownDeletesAll
  <2>1. CASE shutdown
    BY <2>1, ShutdownKeeps
  <2>2. CASE init
    BY <2>2 DEF init
  <2>3. CASE ~shutdown /\ ~init
    <3>1. initialized' = initialized
      BY <2>3 DEF Next, declareService, declareCharacteristic, declareDescriptor,
                  setCharacteristic, setDescriptor, Set, Change, commitService,
                  cancelServiceDeclaration, stack
    <3> QED
      BY <3>1
  <2> QED
    BY <2>1, <2>2, <2>3
<1> QED
  BY <1>1, Invariant, PTL DEF Spec, ShutdownCleansUp

-----------------------------------------------------------------------------
(* What a service looks like, to who declares it and to the stack          *)

Descriptors(h, c) == [j \in DOMAIN h[c].list |-> Attribute(h[h[c].list[j]])]
Characteristic(h, c) == [value |-> Attribute(h[c]), descriptors |-> Descriptors(h, c)]
Characteristics(h, s) == [i \in DOMAIN h[s].list |-> Characteristic(h, h[s].list[i])]

(* The descriptor, and the characteristic, that were not handed down yet.  *)
Latest(h, b) == IF b.descriptor = NULL THEN <<>> ELSE <<Attribute(h[b.descriptor])>>
Current(h, b) ==
  [value |-> Attribute(h[b.characteristic]),
   descriptors |-> Descriptors(h, b.characteristic) \o Latest(h, b)]
AllDeclared(h, b) ==
  IF b.characteristic = NULL THEN Characteristics(h, b.service)
  ELSE Append(Characteristics(h, b.service), Current(h, b))

ToldCharacteristic == [value : ToldAttribute, descriptors : Seq(ToldAttribute)]

(* What Declaration says, part by part.                                    *)
LEMMA DeclarationIs ==
  ASSUME NEW h, NEW b
  PROVE  /\ Service(h, b.service) =
              [uuid |-> h[b.service].uuid, characteristics |-> Characteristics(h, b.service)]
         /\ Declaration(h, b) =
              [uuid |-> h[b.service].uuid, characteristics |-> AllDeclared(h, b)]
<1>1. Service(h, b.service) =
        [uuid |-> h[b.service].uuid, characteristics |-> Characteristics(h, b.service)]
  BY DEF Service, Characteristics, Characteristic, Descriptors
<1>2. Declaration(h, b) =
        [Service(h, b.service) EXCEPT !.characteristics =
           IF b.characteristic = NULL THEN @ ELSE Append(@, Current(h, b))]
  BY DEF Declaration, Current, Descriptors, Latest
<1> QED
  BY <1>1, <1>2 DEF AllDeclared

(* An attribute, and the list of a characteristic, have their types.       *)
LEMMA AttributeType ==
  ASSUME NEW h, Heap(h), NEW o \in DOMAIN h
  PROVE  Attribute(h[o]) \in ToldAttribute
BY DEF Heap, GattAttribute, Attribute, ToldAttribute

LEMMA DescriptorsType ==
  ASSUME NEW h, Heap(h), ListsOfKind(h), NEW c \in DOMAIN h
  PROVE  /\ Descriptors(h, c) \in Seq(ToldAttribute)
         /\ Len(Descriptors(h, c)) = Len(h[c].list)
         /\ Characteristic(h, c) \in ToldCharacteristic
<1>1. /\ h[c].list \in Seq(Object)
      /\ \A j \in DOMAIN h[c].list : h[c].list[j] \in DOMAIN h
  BY ListType DEF ListsOfKind, OfKind
<1>2. \A j \in DOMAIN h[c].list : Attribute(h[h[c].list[j]]) \in ToldAttribute
  BY <1>1, AttributeType
<1>3. Descriptors(h, c) \in [DOMAIN h[c].list -> ToldAttribute]
  BY <1>2 DEF Descriptors
<1>4. Descriptors(h, c) \in Seq(ToldAttribute)
  BY <1>1, <1>3, MappedList
<1>5. Len(Descriptors(h, c)) = Len(h[c].list)
  BY <1>1, <1>3, <1>4
<1> QED
  BY <1>4, <1>5, AttributeType DEF Characteristic, ToldCharacteristic

LEMMA CharacteristicsType ==
  ASSUME NEW h, Heap(h), ListsOfKind(h), NEW s \in DOMAIN h
  PROVE  /\ Characteristics(h, s) \in Seq(ToldCharacteristic)
         /\ Len(Characteristics(h, s)) = Len(h[s].list)
<1>1. /\ h[s].list \in Seq(Object)
      /\ \A j \in DOMAIN h[s].list : h[s].list[j] \in DOMAIN h
  BY ListType DEF ListsOfKind, OfKind
<1>2. \A j \in DOMAIN h[s].list : Characteristic(h, h[s].list[j]) \in ToldCharacteristic
  BY <1>1, DescriptorsType
<1>3. Characteristics(h, s) \in [DOMAIN h[s].list -> ToldCharacteristic]
  BY <1>2 DEF Characteristics
<1>4. Characteristics(h, s) \in Seq(ToldCharacteristic)
  BY <1>1, <1>3, MappedList
<1> QED
  BY <1>1, <1>3, <1>4

LEMMA DeclaredType ==
  ASSUME NEW h, Heap(h), ListsOfKind(h), NEW b \in Builder, NEW services,
         RootsOfKind(h, b, services)
  PROVE  /\ Characteristics(h, b.service) \in Seq(ToldCharacteristic)
         /\ b.characteristic # NULL =>
              /\ Descriptors(h, b.characteristic) \in Seq(ToldAttribute)
              /\ Latest(h, b) \in Seq(ToldAttribute)
              /\ Current(h, b) \in ToldCharacteristic
         /\ AllDeclared(h, b) \in Seq(ToldCharacteristic)
         /\ Declaration(h, b) \in ToldService
         /\ Declaration(h, b) # NULL
<1>1. /\ b.service \in DOMAIN h
      /\ b.characteristic # NULL => b.characteristic \in DOMAIN h
      /\ b.descriptor # NULL => b.descriptor \in DOMAIN h
  BY BuilderHolds
<1>2. Characteristics(h, b.service) \in Seq(ToldCharacteristic)
  BY <1>1, CharacteristicsType
<1>3. Latest(h, b) \in Seq(ToldAttribute)
  <2>1. CASE b.descriptor = NULL
    BY <2>1 DEF Latest
  <2>2. CASE b.descriptor # NULL
    <3>1. Attribute(h[b.descriptor]) \in ToldAttribute
      BY <1>1, <2>2, AttributeType
    <3> QED
      BY <2>2, <3>1 DEF Latest
  <2> QED
    BY <2>1, <2>2
<1>4. ASSUME b.characteristic # NULL
      PROVE  /\ Descriptors(h, b.characteristic) \in Seq(ToldAttribute)
             /\ Current(h, b) \in ToldCharacteristic
  <2>1. /\ Descriptors(h, b.characteristic) \in Seq(ToldAttribute)
        /\ Attribute(h[b.characteristic]) \in ToldAttribute
    BY <1>1, <1>4, DescriptorsType, AttributeType
  <2>2. Descriptors(h, b.characteristic) \o Latest(h, b) \in Seq(ToldAttribute)
    BY <1>3, <2>1
  <2> QED
    BY <2>1, <2>2 DEF Current, ToldCharacteristic
<1>5. AllDeclared(h, b) \in Seq(ToldCharacteristic)
  BY <1>2, <1>4 DEF AllDeclared
<1>6. h[b.service].uuid \in UUID
  BY <1>1 DEF Heap, GattAttribute
<1>7. Declaration(h, b) \in ToldService
  <2>1. Declaration(h, b) = [uuid |-> h[b.service].uuid, characteristics |-> AllDeclared(h, b)]
    BY DeclarationIs, Zenon
  <2> QED
    BY <1>5, <1>6, <2>1 DEF ToldService, ToldCharacteristic
<1> QED
  BY <1>2, <1>3, <1>4, <1>5, <1>7, NullAssumption

-----------------------------------------------------------------------------
(* What is not touched looks the same                                      *)

LEMMA SameDescriptors ==
  ASSUME NEW h, NEW g, NEW c, g[c].list = h[c].list,
         \A d \in Elements(h[c].list) : Attribute(g[d]) = Attribute(h[d])
  PROVE  Descriptors(g, c) = Descriptors(h, c)
<1>1. \A j \in DOMAIN h[c].list :
        Attribute(g[g[c].list[j]]) = Attribute(h[h[c].list[j]])
  BY DEF Elements
<1> QED
  BY <1>1 DEF Descriptors

LEMMA SameCharacteristics ==
  ASSUME NEW h, NEW g, NEW s, g[s].list = h[s].list,
         \A c \in Elements(h[s].list) : Characteristic(g, c) = Characteristic(h, c)
  PROVE  Characteristics(g, s) = Characteristics(h, s)
<1>1. \A i \in DOMAIN h[s].list :
        Characteristic(g, g[s].list[i]) = Characteristic(h, h[s].list[i])
  BY DEF Elements
<1> QED
  BY <1>1 DEF Characteristics

(* The heaps differ in an object at most, and that is in no list.          *)
DiffersIn(h, g, root) ==
  /\ \A o \in DOMAIN h : root \notin Elements(h[o].list)
  /\ \A o \in DOMAIN h : o # root => g[o] = h[o]

(* Then no list looks another.                                             *)
LEMMA DescriptorsStay ==
  ASSUME NEW h, ListsOfKind(h), NEW g, NEW root, DiffersIn(h, g, root),
         NEW c \in DOMAIN h, g[c].list = h[c].list
  PROVE  Descriptors(g, c) = Descriptors(h, c)
<1>1. \A x \in Elements(h[c].list) : x \in DOMAIN h /\ g[x] = h[x]
  BY ListedIsLive DEF DiffersIn
<1> QED
  BY <1>1, SameDescriptors

LEMMA CharacteristicsStay ==
  ASSUME NEW h, ListsOfKind(h), NEW g, NEW root, DiffersIn(h, g, root),
         NEW s \in DOMAIN h, g[s].list = h[s].list
  PROVE  Characteristics(g, s) = Characteristics(h, s)
<1>1. \A x \in Elements(h[s].list) : x \in DOMAIN h /\ g[x] = h[x]
  BY ListedIsLive DEF DiffersIn
<1>2. \A x \in Elements(h[s].list) : Descriptors(g, x) = Descriptors(h, x)
  BY <1>1, DescriptorsStay
<1>3. \A x \in Elements(h[s].list) : Characteristic(g, x) = Characteristic(h, x)
  BY <1>1, <1>2 DEF Characteristic
<1> QED
  BY <1>3, SameCharacteristics

(* A list that gets one more.                                              *)
LEMMA MappedAppend ==
  ASSUME NEW S, NEW T, NEW list \in Seq(S), NEW x \in S, NEW f, NEW e, e \in [S -> T],
         f = [i \in DOMAIN Append(list, x) |-> e[Append(list, x)[i]]]
  PROVE  f = Append([i \in DOMAIN list |-> e[list[i]]], e[x])
OBVIOUS

-----------------------------------------------------------------------------
(* commit() changes nothing of what was declared                           *)

(* A characteristic that gets one descriptor more.                         *)
LEMMA DescriptorAppended ==
  ASSUME NEW h, Heap(h), ListsOfKind(h), NEW g,
         NEW c \in DOMAIN h, NEW d \in DOMAIN h,
         g[c].list = Append(h[c].list, d),
         \A o \in DOMAIN h : Attribute(g[o]) = Attribute(h[o])
  PROVE  Descriptors(g, c) = Append(Descriptors(h, c), Attribute(h[d]))
<1> DEFINE e == [o \in DOMAIN h |-> Attribute(h[o])]
<1>1. /\ h[c].list \in Seq(Object)
      /\ \A j \in DOMAIN h[c].list : h[c].list[j] \in DOMAIN h
  BY ListType DEF ListsOfKind, OfKind
<1>2. h[c].list \in Seq(DOMAIN h)
  BY <1>1
<1>3. e \in [DOMAIN h -> ToldAttribute]
  BY AttributeType
<1>4. Append(h[c].list, d) \in Seq(DOMAIN h)
  BY <1>2
<1>5. \A j \in DOMAIN Append(h[c].list, d) : Append(h[c].list, d)[j] \in DOMAIN h
  BY <1>4
<1>6. Descriptors(g, c) = [j \in DOMAIN Append(h[c].list, d) |-> e[Append(h[c].list, d)[j]]]
  BY <1>5 DEF Descriptors
<1>7. Descriptors(h, c) = [j \in DOMAIN h[c].list |-> e[h[c].list[j]]]
  BY <1>1 DEF Descriptors
<1>8. e[d] = Attribute(h[d])
  OBVIOUS
<1> HIDE DEF e
<1> QED
  BY <1>2, <1>3, <1>6, <1>7, <1>8, MappedAppend

(* A service that gets one characteristic more.                            *)
LEMMA CharacteristicAppended ==
  ASSUME NEW h, Heap(h), ListsOfKind(h), NEW g,
         NEW s \in DOMAIN h, NEW c \in DOMAIN h,
         g[s].list = Append(h[s].list, c),
         \A o \in Elements(h[s].list) \cup {c} : Characteristic(g, o) = Characteristic(h, o)
  PROVE  Characteristics(g, s) = Append(Characteristics(h, s), Characteristic(h, c))
<1> DEFINE e == [o \in DOMAIN h |-> Characteristic(h, o)]
<1>1. /\ h[s].list \in Seq(Object)
      /\ \A j \in DOMAIN h[s].list : h[s].list[j] \in DOMAIN h
  BY ListType DEF ListsOfKind, OfKind
<1>2. h[s].list \in Seq(DOMAIN h)
  BY <1>1
<1>3. e \in [DOMAIN h -> ToldCharacteristic]
  BY DescriptorsType
<1>4. Elements(Append(h[s].list, c)) = Elements(h[s].list) \cup {c}
  BY <1>2, AppendElements
<1>5. \A j \in DOMAIN Append(h[s].list, c) :
        /\ Append(h[s].list, c)[j] \in DOMAIN h
        /\ Append(h[s].list, c)[j] \in Elements(h[s].list) \cup {c}
  <2>1. Append(h[s].list, c) \in Seq(DOMAIN h)
    BY <1>2
  <2> QED
    BY <2>1, <1>4 DEF Elements
<1>6. Characteristics(g, s) =
        [j \in DOMAIN Append(h[s].list, c) |-> e[Append(h[s].list, c)[j]]]
  BY <1>5 DEF Characteristics
<1>7. Characteristics(h, s) = [j \in DOMAIN h[s].list |-> e[h[s].list[j]]]
  BY <1>1 DEF Characteristics
<1>8. e[c] = Characteristic(h, c)
  OBVIOUS
<1> HIDE DEF e
<1> QED
  BY <1>2, <1>3, <1>6, <1>7, <1>8, MappedAppend

(* The list gets the new member, and no other object changes.              *)
LEMMA AddAppends ==
  ASSUME NEW h, Heap(h), NEW parent, parent \in DOMAIN h, NEW child, child \in DOMAIN h,
         ~Wraps(h[parent].list)
  PROVE  /\ Add(h, parent, child)[parent].list = Append(h[parent].list, child)
         /\ \A o \in DOMAIN h : o # parent => Add(h, parent, child)[o] = h[o]
<1>1. Add(h, parent, child)[parent].list = Append(h[parent].list, child)
  BY AddChanges
<1>2. \A o \in DOMAIN h : o # parent => Add(h, parent, child)[o] = h[o]
  BY AddChanges
<1> QED
  BY <1>1, <1>2

(* addCharacteristic() and addDescriptor() change no attribute.            *)
LEMMA AddKeepsAttributes ==
  ASSUME NEW h, Heap(h), NEW parent \in DOMAIN h, NEW child \in DOMAIN h
  PROVE  \A o \in DOMAIN h :
           /\ Attribute(Add(h, parent, child)[o]) = Attribute(h[o])
           /\ Add(h, parent, child)[o].uuid = h[o].uuid
<1> DEFINE new == IF Wraps(h[parent].list) THEN <<>> ELSE Append(h[parent].list, child)
           g == Add(h, parent, child)
<1>1. g = [h EXCEPT ![parent] = [h[parent] EXCEPT !.list = new]]
  BY DEF Add
<1> HIDE DEF new
<1>2. /\ h[parent] \in GattAttribute
      /\ DOMAIN h = DOMAIN h /\ h = [o \in DOMAIN h |-> h[o]]
  BY DEF Heap
<1>3. /\ g[parent] = [h[parent] EXCEPT !.list = new]
      /\ \A o \in DOMAIN h : o # parent => g[o] = h[o]
  BY <1>1, <1>2
<1>4. /\ g[parent].uuid = h[parent].uuid /\ g[parent].setting = h[parent].setting
      /\ g[parent].len = h[parent].len /\ g[parent].lenMax = h[parent].lenMax
  BY <1>2, <1>3 DEF GattAttribute
<1> HIDE DEF g
<1> QED
  BY <1>3, <1>4 DEF Attribute, g

(* The descriptor that the characteristic gets is still its last.          *)
LEMMA DescriptorStays ==
  ASSUME NEW h, Heap(h), NEW b \in Builder, NEW services, Sound(h, b, services),
         b.descriptor # NULL => ~Wraps(h[b.characteristic].list)
  PROVE  AllDeclared(DescriptorAdded(h, b), [b EXCEPT !.descriptor = NULL]) = AllDeclared(h, b)
<1> DEFINE rest == [b EXCEPT !.descriptor = NULL]
           c == b.characteristic
           d == b.descriptor
           g == DescriptorAdded(h, b)
<1>1. /\ rest.service = b.service /\ rest.characteristic = c /\ rest.descriptor = NULL
  BY DEF Builder
<1>2. CASE d = NULL
  <2>1. rest = b
    BY <1>2 DEF Builder
  <2>2. g = h
    BY <1>2 DEF DescriptorAdded
  <2> QED
    BY <2>1, <2>2
<1>3. CASE d # NULL
  <2>1. RootsOfKind(h, b, services) /\ ListsOfKind(h) /\ RootsHeldOnce(h, b, services)
    BY DEF Sound
  <2>2. /\ b.service \in DOMAIN h /\ h[b.service].kind = "service"
        /\ c # NULL /\ c \in DOMAIN h /\ h[c].kind = "characteristic"
        /\ d \in DOMAIN h
        /\ c \in Held(b)
    BY <1>3, <2>1, BuilderHolds
  <2>3. g = Add(h, c, d)
    BY <1>3 DEF DescriptorAdded
  <2>4. /\ g[c].list = Append(h[c].list, d)
        /\ \A o \in DOMAIN h : o # c => g[o] = h[o]
    <3>1. ~Wraps(h[c].list)
      BY <1>3
    <3> HIDE DEF g, c, d
    <3>2. /\ Add(h, c, d)[c].list = Append(h[c].list, d)
          /\ \A o \in DOMAIN h : o # c => Add(h, c, d)[o] = h[o]
      BY <2>2, <3>1, AddAppends
    <3> QED
      BY <2>3, <3>2
  <2>5. \A o \in DOMAIN h : Attribute(g[o]) = Attribute(h[o])
    BY <2>2, <2>3, AddKeepsAttributes
  <2>6. \A o \in DOMAIN h : c \notin Elements(h[o].list)
    BY <2>1, <2>2 DEF RootsHeldOnce
  <2> HIDE DEF g, c, d, rest
  <2>7. g[b.service].list = h[b.service].list
    BY <2>2, <2>4
  <2>8. Characteristics(g, b.service) = Characteristics(h, b.service)
    <3> DEFINE s == b.service
    <3>1. s \in DOMAIN h /\ g[s].list = h[s].list
      BY <2>2, <2>7
    <3> HIDE DEF s
    <3>2. DiffersIn(h, g, c)
      BY <2>4, <2>6 DEF DiffersIn
    <3>3. Characteristics(g, s) = Characteristics(h, s)
      BY <2>1, <3>1, <3>2, CharacteristicsStay
    <3> QED
      BY <3>3 DEF s
  <2>9. Descriptors(g, c) = Append(Descriptors(h, c), Attribute(h[d]))
    BY <2>1, <2>2, <2>4, <2>5, DescriptorAppended
  <2>10. Descriptors(h, c) \in Seq(ToldAttribute) /\ Attribute(h[d]) \in ToldAttribute
    BY <2>1, <2>2, DescriptorsType, AttributeType
  <2>11. Descriptors(g, c) \o <<>> = Descriptors(h, c) \o <<Attribute(h[d])>>
    <3>1. \A list \in Seq(ToldAttribute), x \in ToldAttribute :
            Append(list, x) \o <<>> = list \o <<x>>
      OBVIOUS
    <3> QED
      BY <2>9, <2>10, <3>1, Zenon
  <2>12. Current(g, rest) = Current(h, b)
    <3>1. Latest(g, rest) = <<>> /\ Latest(h, b) = <<Attribute(h[d])>>
      BY <1>1, <1>3 DEF Latest, d
    <3>2. Attribute(g[c]) = Attribute(h[c])
      BY <2>2, <2>5
    <3> QED
      BY <1>1, <2>11, <3>1, <3>2, Zenon DEF Current, c
  <2> QED
    BY <1>1, <2>2, <2>8, <2>12 DEF AllDeclared, rest, g, c
<1> QED
  BY <1>2, <1>3

(* The service that was handed all is told as it was declared.             *)
LEMMA CommittedIsDeclared ==
  ASSUME NEW h, Heap(h), NEW b \in Builder, NEW services, Sound(h, b, services),
         ~CommitWraps(h, b)
  PROVE  /\ Service(committed(h, b), b.service) = Declaration(h, b)
         /\ Characteristics(committed(h, b), b.service) = AllDeclared(h, b)
         /\ committed(h, b)[b.service].uuid = h[b.service].uuid
<1> DEFINE c == b.characteristic
           h1 == DescriptorAdded(h, b)
           half == [b EXCEPT !.descriptor = NULL]
           g == committed(h, b)
<1> SUFFICES /\ Characteristics(g, b.service) = AllDeclared(h, b)
             /\ g[b.service].uuid = h[b.service].uuid
  <2>1. /\ Service(g, b.service) =
              [uuid |-> g[b.service].uuid, characteristics |-> Characteristics(g, b.service)]
        /\ Declaration(h, b) = [uuid |-> h[b.service].uuid, characteristics |-> AllDeclared(h, b)]
    BY DeclarationIs, Zenon
  <2> QED
    BY <2>1
<1>1. CASE c = NULL
  BY <1>1 DEF committed, AllDeclared
<1>2. CASE c # NULL
  <2>1. /\ Heap(h1) /\ DOMAIN h1 = DOMAIN h
        /\ \A o \in DOMAIN h : o # c => h1[o] = h[o]
        /\ half \in Builder
        /\ Sound(h1, half, services)
    BY DescriptorHandedDown
  <2>2. /\ half.service = b.service /\ half.characteristic = c /\ half.descriptor = NULL
    BY DEF Builder
  <2>3. AllDeclared(h1, half) = AllDeclared(h, b)
    BY <1>2, DescriptorStays DEF CommitWraps
  <2>4. g = Add(h1, b.service, c)
    BY <1>2 DEF committed
  <2> HIDE DEF h1, half, g
  <2>5. RootsOfKind(h1, half, services) /\ ListsOfKind(h1) /\ RootsHeldOnce(h1, half, services)
    BY <2>1 DEF Sound
  <2>6. /\ b.service \in DOMAIN h1 /\ h1[b.service].kind = "service"
        /\ c \in DOMAIN h1 /\ h1[c].kind = "characteristic"
        /\ b.service \in Held(half)
    <3>1. /\ half.service \in DOMAIN h1 /\ h1[half.service].kind = "service" /\ half.service # NULL
          /\ half.characteristic # NULL =>
               half.characteristic \in DOMAIN h1 /\ h1[half.characteristic].kind = "characteristic"
          /\ Held(half) = {half.service, half.characteristic, half.descriptor} \ {NULL}
      BY <2>1, <2>5, BuilderHolds
    <3> QED
      BY <1>2, <2>2, <3>1
  <2>7. h1[b.service] = h[b.service]
    <3>1. c \in DOMAIN h /\ h[c].kind = "characteristic"
          /\ b.service \in DOMAIN h /\ h[b.service].kind = "service"
      BY <1>2, BuilderHolds DEF Sound
    <3> QED
      BY <2>1, <3>1
  <2>8. /\ g[b.service].list = Append(h1[b.service].list, c)
        /\ \A o \in DOMAIN h1 : o # b.service => g[o] = h1[o]
        /\ g[b.service].uuid = h1[b.service].uuid
    <3>1. ~Wraps(h1[b.service].list)
      BY <1>2, <2>7 DEF CommitWraps
    <3>2. /\ g[b.service].list = Append(h1[b.service].list, c)
          /\ \A o \in DOMAIN h1 : o # b.service => g[o] = h1[o]
      <4>1. /\ Add(h1, b.service, c)[b.service].list = Append(h1[b.service].list, c)
            /\ \A o \in DOMAIN h1 : o # b.service => Add(h1, b.service, c)[o] = h1[o]
        BY <2>1, <2>6, <3>1, AddAppends
      <4> QED
        BY <2>4, <4>1
    <3>3. g[b.service].uuid = h1[b.service].uuid
      BY <2>1, <2>4, <2>6, AddKeepsAttributes
    <3> QED
      BY <3>2, <3>3
  <2>9. \A o \in DOMAIN h1 : b.service \notin Elements(h1[o].list)
    BY <2>5, <2>6 DEF RootsHeldOnce
  <2>10. \A o \in DOMAIN h1 : o # b.service => Characteristic(g, o) = Characteristic(h1, o)
    <3>1. \A o \in DOMAIN h1 : o # b.service => Descriptors(g, o) = Descriptors(h1, o)
      <4>1. DiffersIn(h1, g, b.service)
        BY <2>8, <2>9 DEF DiffersIn
      <4> QED
        BY <2>5, <2>8, <4>1, DescriptorsStay
    <3> QED
      BY <2>8, <3>1 DEF Characteristic
  <2>11. \A o \in Elements(h1[b.service].list) \cup {c} :
           Characteristic(g, o) = Characteristic(h1, o)
    <3>1. Elements(h1[b.service].list) \subseteq DOMAIN h1
      BY <2>5, <2>6, ListedIsLive
    <3>2. b.service \notin Elements(h1[b.service].list) \cup {c}
      BY <2>6, <2>9
    <3> QED
      BY <2>6, <2>10, <3>1, <3>2
  <2>12. Characteristics(g, b.service) =
           Append(Characteristics(h1, b.service), Characteristic(h1, c))
    BY <2>1, <2>5, <2>6, <2>8, <2>11, CharacteristicAppended
  <2>13. Current(h1, half) = Characteristic(h1, c)
    <3>1. Latest(h1, half) = <<>>
      BY <2>2 DEF Latest
    <3>2. Descriptors(h1, c) \in Seq(ToldAttribute)
      BY <2>1, <2>5, <2>6, DescriptorsType
    <3>3. Descriptors(h1, c) \o <<>> = Descriptors(h1, c)
      BY <3>2
    <3> QED
      BY <2>2, <3>1, <3>3 DEF Current, Characteristic
  <2> QED
    BY <1>2, <2>2, <2>3, <2>7, <2>8, <2>12, <2>13 DEF AllDeclared
<1> QED
  BY <1>1, <1>2

-----------------------------------------------------------------------------
(* What the commands do to what is declared                                *)

(* The last of a list, and the list with another.                          *)
LEMMA LastOfList ==
  ASSUME NEW S, NEW list \in Seq(S), NEW x \in S, NEW y \in S
  PROVE  /\ Append(list, x) # <<>>
         /\ Abstract!Last(Append(list, x)) = x
         /\ Abstract!WithLast(Append(list, x), y) = Append(list, y)
<1>1. /\ Append(list, x) \in Seq(S) /\ Append(list, y) \in Seq(S)
      /\ Len(Append(list, x)) = Len(list) + 1 /\ Len(Append(list, y)) = Len(list) + 1
      /\ Len(list) \in Nat
      /\ Append(list, x)[Len(list) + 1] = x
  OBVIOUS
<1>2. [Append(list, x) EXCEPT ![Len(list) + 1] = y] = Append(list, y)
  <2> DEFINE L == Append(list, x)
             M == Append(list, y)
             n == Len(list) + 1
  <2>1. n \in Nat /\ n \in 1 .. n
    OBVIOUS
  <2>2. /\ L \in [1 .. n -> S] /\ M \in [1 .. n -> S]
        /\ M[n] = y
    <3>1. \A s \in Seq(S) : s \in [1 .. Len(s) -> S]
      OBVIOUS
    <3>2. L \in Seq(S) /\ Len(L) = n /\ M \in Seq(S) /\ Len(M) = n /\ M[n] = y
      BY <1>1, AppendElements
    <3> HIDE DEF L, M, n
    <3>3. L \in [1 .. Len(L) -> S] /\ M \in [1 .. Len(M) -> S]
      BY <3>1, <3>2
    <3> QED
      BY <3>2, <3>3
  <2>3. \A i \in 1 .. n : i # n => L[i] = M[i]
    <3>1. \A i \in 1 .. n : i # n => i \in DOMAIN list
      OBVIOUS
    <3>2. \A i \in DOMAIN list : L[i] = list[i] /\ M[i] = list[i]
      BY AppendElements
    <3> QED
      BY <3>1, <3>2
  <2> HIDE DEF L, M, n
  <2>4. [L EXCEPT ![n] = y] \in [1 .. n -> S]
    BY <2>1, <2>2
  <2>5. \A i \in 1 .. n : [L EXCEPT ![n] = y][i] = M[i]
    BY <2>1, <2>2, <2>3
  <2>6. [L EXCEPT ![n] = y] = M
    BY <2>2, <2>4, <2>5
  <2> QED
    BY <2>6 DEF L, M, n
<1> QED
  BY <1>1, <1>2 DEF Abstract!Last, Abstract!WithLast

(* setValue() of the object is that of its attribute.                      *)
LEMMA SetAttribute ==
  ASSUME NEW x \in GattAttribute
  PROVE  \A n, m : [Attribute(x) EXCEPT !.len = n, !.lenMax = m] =
                     Attribute([x EXCEPT !.len = n, !.lenMax = m])
<1> TAKE n, m
<1> DEFINE R(l, k) == [uuid |-> x.uuid, setting |-> x.setting, len |-> l, lenMax |-> k]
<1>1. Attribute(x) = R(x.len, x.lenMax)
  BY DEF Attribute
<1>2. [R(x.len, x.lenMax) EXCEPT !.len = n] = R(n, x.lenMax)
  OBVIOUS
<1>3. [R(n, x.lenMax) EXCEPT !.lenMax = m] = R(n, m)
  OBVIOUS
<1>4. Attribute([x EXCEPT !.len = n, !.lenMax = m]) = R(n, m)
  <2> DEFINE y == [x EXCEPT !.len = n, !.lenMax = m]
  <2>1. y.uuid = x.uuid /\ y.setting = x.setting /\ y.len = n /\ y.lenMax = m
    BY DEF GattAttribute
  <2> HIDE DEF y
  <2>2. Attribute(y) = R(n, m)
    BY <2>1 DEF Attribute
  <2> QED
    BY <2>2 DEF y
<1> HIDE DEF R
<1>5. [Attribute(x) EXCEPT !.len = n, !.lenMax = m] =
        [[Attribute(x) EXCEPT !.len = n] EXCEPT !.lenMax = m]
  OBVIOUS
<1> QED
  BY <1>1, <1>2, <1>3, <1>4, <1>5

(* A setter's value, of a characteristic or of a descriptor.               *)
LEMMA SetterChanges ==
  ASSUME NEW x \in GattAttribute, x.len <= x.lenMax
  PROVE  /\ \A n \in Length : Attribute(setValue(x, n)) \in Abstract!Changed(Attribute(x))
         /\ \A n \in Length \cup {0} : AcceptsMaxLength(x, n) =>
              Attribute([x EXCEPT !.lenMax = n]) \in Abstract!Changed(Attribute(x))
         /\ \A s \in Setting :
              Attribute([x EXCEPT !.setting = s]) \in Abstract!Changed(Attribute(x))
<1>1. /\ x.len \in Nat /\ x.lenMax \in Nat
      /\ \A n \in Length \cup {0} : n \in Nat
  BY LengthAssumption DEF GattAttribute
<1>2. ASSUME NEW n \in Length
      PROVE  Attribute(setValue(x, n)) \in Abstract!Changed(Attribute(x))
  <2> DEFINE max == IF x.lenMax < n THEN n ELSE x.lenMax
  <2>1. setValue(x, n) = [x EXCEPT !.len = n, !.lenMax = max]
    BY DEF setValue
  <2>2. [Attribute(x) EXCEPT !.len = n, !.lenMax = IF @ < n THEN n ELSE @] =
          [Attribute(x) EXCEPT !.len = n, !.lenMax = max]
    BY DEF Attribute
  <2>3. [Attribute(x) EXCEPT !.len = n, !.lenMax = IF @ < n THEN n ELSE @]
          \in Abstract!Changed(Attribute(x))
    BY Zenon DEF Abstract!Changed
  <2> HIDE DEF max
  <2>4. [Attribute(x) EXCEPT !.len = n, !.lenMax = max] =
          Attribute([x EXCEPT !.len = n, !.lenMax = max])
    <3>1. \A k, m : [Attribute(x) EXCEPT !.len = k, !.lenMax = m] =
                       Attribute([x EXCEPT !.len = k, !.lenMax = m])
      BY SetAttribute
    <3> QED
      BY <3>1
  <2> QED
    BY <2>1, <2>2, <2>3, <2>4, Zenon
<1>3. ASSUME NEW n \in Length \cup {0}, AcceptsMaxLength(x, n)
      PROVE  Attribute([x EXCEPT !.lenMax = n]) \in Abstract!Changed(Attribute(x))
  <2>1. n >= x.len
    BY <1>1, <1>3 DEF AcceptsMaxLength
  <2>2. Attribute(x).len = x.len
    BY DEF Attribute
  <2>3. Attribute([x EXCEPT !.lenMax = n]) = [Attribute(x) EXCEPT !.lenMax = n]
    BY DEF Attribute, GattAttribute
  <2> QED
    BY <2>1, <2>2, <2>3 DEF Abstract!Changed
<1>4. ASSUME NEW s \in Setting
      PROVE  Attribute([x EXCEPT !.setting = s]) \in Abstract!Changed(Attribute(x))
  <2>1. Attribute([x EXCEPT !.setting = s]) = [Attribute(x) EXCEPT !.setting = s]
    BY DEF Attribute, GattAttribute
  <2> QED
    BY <2>1 DEF Abstract!Changed
<1> QED
  BY <1>2, <1>3, <1>4

(* What new returns is in no list.                                         *)
LEMMA NewIsElsewhere ==
  ASSUME NEW h, Heap(h), ListsOfKind(h), NEW o, o \in Object, o \notin DOMAIN h,
         NEW kind, kind \in {"service", "characteristic", "descriptor"}, NEW u, u \in UUID
  PROVE  /\ DiffersIn(h, With(h, o, NewObject(kind, u)), o)
         /\ \A x \in DOMAIN h : With(h, o, NewObject(kind, u))[x] = h[x]
         /\ Attribute(With(h, o, NewObject(kind, u))[o]) = Abstract!NewAttribute(u)
         /\ With(h, o, NewObject(kind, u))[o].list = <<>>
<1>1. /\ \A x \in DOMAIN h : With(h, o, NewObject(kind, u))[x] = h[x]
      /\ With(h, o, NewObject(kind, u))[o] = NewObject(kind, u)
  BY DEF With
<1>2. \A x \in DOMAIN h : o \notin Elements(h[x].list)
  BY ListedIsLive
<1>3. /\ Attribute(NewObject(kind, u)) = Abstract!NewAttribute(u)
      /\ NewObject(kind, u).list = <<>>
  BY DEF Attribute, NewObject, Abstract!NewAttribute
<1> QED
  BY <1>1, <1>2, <1>3 DEF DiffersIn

(* A characteristic is declared, and what was handed down before it stays. *)
LEMMA CharacteristicDeclared ==
  ASSUME NEW h, Heap(h), NEW b \in Builder, NEW services, Sound(h, b, services),
         b.characteristic = NULL, b.descriptor = NULL,
         NEW o, o \in Object, o \notin DOMAIN h, NEW u \in UUID
  PROVE  /\ AllDeclared(With(h, o, NewObject("characteristic", u)), [b EXCEPT !.characteristic = o])
              \in Abstract!Characteristics(AllDeclared(h, b))
         /\ With(h, o, NewObject("characteristic", u))[b.service] = h[b.service]
<1> DEFINE g == With(h, o, NewObject("characteristic", u))
           more == [b EXCEPT !.characteristic = o]
<1>1. more.service = b.service /\ more.characteristic = o /\ more.descriptor = NULL
  BY DEF Builder
<1>2. ListsOfKind(h) /\ RootsOfKind(h, b, services)
  BY DEF Sound
<1>3. /\ DiffersIn(h, g, o)
      /\ \A x \in DOMAIN h : g[x] = h[x]
      /\ Attribute(g[o]) = Abstract!NewAttribute(u)
      /\ g[o].list = <<>>
  BY <1>2, NewIsElsewhere
<1>4. b.service \in DOMAIN h
  BY <1>2, BuilderHolds
<1>5. o # NULL
  BY NullAssumption
<1> HIDE DEF g, more
<1>6. Characteristics(g, b.service) = Characteristics(h, b.service)
  <2> DEFINE s == b.service
  <2>1. s \in DOMAIN h /\ g[s].list = h[s].list
    BY <1>3, <1>4
  <2> HIDE DEF s
  <2>2. Characteristics(g, s) = Characteristics(h, s)
    BY <1>2, <1>3, <2>1, CharacteristicsStay
  <2> QED
    BY <2>2 DEF s
<1>7. Current(g, more) = [value |-> Abstract!NewAttribute(u), descriptors |-> <<>>]
  <2>1. Descriptors(g, o) = <<>>
    BY <1>3 DEF Descriptors
  <2>2. Latest(g, more) = <<>>
    BY <1>1 DEF Latest
  <2>3. <<>> \o <<>> = <<>>
    OBVIOUS
  <2> QED
    BY <1>1, <1>3, <2>1, <2>2, <2>3 DEF Current
<1>8. AllDeclared(g, more) =
        Append(AllDeclared(h, b), [value |-> Abstract!NewAttribute(u), descriptors |-> <<>>])
  BY <1>1, <1>5, <1>6, <1>7 DEF AllDeclared
<1>9. AllDeclared(g, more) \in Abstract!Characteristics(AllDeclared(h, b))
  BY <1>8, Zenon DEF Abstract!Characteristics
<1> QED
  BY <1>3, <1>4, <1>9 DEF g, more

(* The last characteristic is another.                                     *)
LEMMA LastIsAnother ==
  ASSUME NEW list \in Seq(ToldCharacteristic), NEW c \in ToldCharacteristic,
         NEW d \in ToldCharacteristic,
         \/ \E v \in Abstract!Changed(c.value) : d = [c EXCEPT !.value = v]
         \/ \E u \in UUID :
              d = [c EXCEPT !.descriptors = Append(@, Abstract!NewAttribute(u))]
         \/ /\ c.descriptors # <<>>
            /\ \E v \in Abstract!Changed(Abstract!Last(c.descriptors)) :
                 d = [c EXCEPT !.descriptors = Abstract!WithLast(@, v)]
  PROVE  Append(list, d) \in Abstract!Characteristics(Append(list, c))
<1>1. /\ Append(list, c) # <<>>
      /\ Abstract!Last(Append(list, c)) = c
      /\ Abstract!WithLast(Append(list, c), d) = Append(list, d)
  BY LastOfList
<1>2. CASE \E v \in Abstract!Changed(c.value) : d = [c EXCEPT !.value = v]
  BY <1>1, <1>2, Zenon DEF Abstract!Characteristics
<1>3. CASE \E u \in UUID : d = [c EXCEPT !.descriptors = Append(@, Abstract!NewAttribute(u))]
  BY <1>1, <1>3, Zenon DEF Abstract!Characteristics
<1>4. CASE /\ c.descriptors # <<>>
           /\ \E v \in Abstract!Changed(Abstract!Last(c.descriptors)) :
                d = [c EXCEPT !.descriptors = Abstract!WithLast(@, v)]
  BY <1>1, <1>4, Zenon DEF Abstract!Characteristics
<1> QED
  BY <1>2, <1>3, <1>4

(* The two fields of a characteristic.                                     *)
LEMMA FieldSet ==
  ASSUME NEW x, NEW v, NEW ds, x = [value |-> v, descriptors |-> ds]
  PROVE  /\ x.value = v /\ x.descriptors = ds
         /\ \A w : [x EXCEPT !.value = w] = [value |-> w, descriptors |-> ds]
         /\ \A es : [x EXCEPT !.descriptors = es] = [value |-> v, descriptors |-> es]
OBVIOUS

(* Only the characteristic that is being declared differs.                 *)
LEMMA CurrentDiffers ==
  ASSUME NEW h, Heap(h), ListsOfKind(h), NEW b \in Builder, NEW services,
         RootsOfKind(h, b, services), b.characteristic # NULL,
         NEW g, NEW b1, b1.service = b.service, b1.characteristic = b.characteristic,
         Characteristics(g, b.service) = Characteristics(h, b.service),
         Current(g, b1) \in ToldCharacteristic,
         \/ \E v \in Abstract!Changed(Current(h, b).value) :
              Current(g, b1) = [Current(h, b) EXCEPT !.value = v]
         \/ \E u \in UUID :
              Current(g, b1) =
                [Current(h, b) EXCEPT !.descriptors = Append(@, Abstract!NewAttribute(u))]
         \/ /\ Current(h, b).descriptors # <<>>
            /\ \E v \in Abstract!Changed(Abstract!Last(Current(h, b).descriptors)) :
                 Current(g, b1) = [Current(h, b) EXCEPT !.descriptors = Abstract!WithLast(@, v)]
  PROVE  AllDeclared(g, b1) \in Abstract!Characteristics(AllDeclared(h, b))
<1>1. /\ Characteristics(h, b.service) \in Seq(ToldCharacteristic)
      /\ Current(h, b) \in ToldCharacteristic
  BY DeclaredType
<1>2. Append(Characteristics(h, b.service), Current(g, b1)) \in
        Abstract!Characteristics(Append(Characteristics(h, b.service), Current(h, b)))
  BY <1>1, LastIsAnother
<1> QED
  BY <1>2 DEF AllDeclared

(* A descriptor is declared.                                               *)
LEMMA DescriptorDeclared ==
  ASSUME NEW h, Heap(h), NEW b \in Builder, NEW services, Sound(h, b, services),
         b.characteristic # NULL, b.descriptor = NULL,
         NEW o, o \in Object, o \notin DOMAIN h, NEW u \in UUID
  PROVE  /\ AllDeclared(With(h, o, NewObject("descriptor", u)), [b EXCEPT !.descriptor = o])
              \in Abstract!Characteristics(AllDeclared(h, b))
         /\ With(h, o, NewObject("descriptor", u))[b.service] = h[b.service]
<1> DEFINE g == With(h, o, NewObject("descriptor", u))
           more == [b EXCEPT !.descriptor = o]
           c == b.characteristic
           new == Abstract!NewAttribute(u)
<1>1. more.service = b.service /\ more.characteristic = c /\ more.descriptor = o
  BY DEF Builder
<1>2. ListsOfKind(h) /\ RootsOfKind(h, b, services)
  BY DEF Sound
<1>3. /\ DiffersIn(h, g, o)
      /\ \A x \in DOMAIN h : g[x] = h[x]
      /\ Attribute(g[o]) = new
  BY <1>2, NewIsElsewhere
<1>4. b.service \in DOMAIN h /\ c \in DOMAIN h
  BY <1>2, BuilderHolds
<1>5. o # NULL
  BY NullAssumption
<1>6. new \in ToldAttribute
  BY SettingAssumption DEF Abstract!NewAttribute, ToldAttribute
<1> HIDE DEF g, more, new
<1>7. Characteristics(g, b.service) = Characteristics(h, b.service)
  <2> DEFINE s == b.service
  <2>1. s \in DOMAIN h /\ g[s].list = h[s].list
    BY <1>3, <1>4
  <2> HIDE DEF s
  <2>2. Characteristics(g, s) = Characteristics(h, s)
    BY <1>2, <1>3, <2>1, CharacteristicsStay
  <2> QED
    BY <2>2 DEF s
<1>8. /\ Current(g, more) = [Current(h, b) EXCEPT !.descriptors = Append(@, new)]
      /\ Current(g, more) \in ToldCharacteristic
  <2>1. Descriptors(g, c) = Descriptors(h, c)
    <3> HIDE DEF c
    <3>1. g[c].list = h[c].list
      BY <1>3, <1>4
    <3> QED
      BY <1>2, <1>3, <1>4, <3>1, DescriptorsStay
  <2>2. Latest(g, more) = <<new>> /\ Latest(h, b) = <<>>
    BY <1>1, <1>3, <1>5 DEF Latest
  <2>3. Descriptors(h, c) \in Seq(ToldAttribute) /\ Attribute(h[c]) \in ToldAttribute
    BY <1>2, <1>4, DescriptorsType, AttributeType
  <2>4. \A list \in Seq(ToldAttribute), x \in ToldAttribute :
          /\ list \o <<x>> = Append(list \o <<>>, x)
          /\ list \o <<x>> \in Seq(ToldAttribute)
    OBVIOUS
  <2>5. /\ Descriptors(h, c) \o <<new>> = Append(Descriptors(h, c) \o <<>>, new)
        /\ Descriptors(h, c) \o <<new>> \in Seq(ToldAttribute)
    BY <1>6, <2>3, <2>4
  <2>6. Current(g, more) =
          [value |-> Attribute(h[c]), descriptors |-> Append(Descriptors(h, c) \o <<>>, new)]
    BY <1>1, <1>3, <1>4, <2>1, <2>2, <2>5 DEF Current
  <2>7. Current(h, b) = [value |-> Attribute(h[c]), descriptors |-> Descriptors(h, c) \o <<>>]
    BY <2>2 DEF Current
  <2> DEFINE ds == Descriptors(h, c) \o <<>>
             es == Append(ds, new)
  <2>8. /\ Current(h, b).descriptors = ds
        /\ [Current(h, b) EXCEPT !.descriptors = es] = [value |-> Attribute(h[c]), descriptors |-> es]
    <3> HIDE DEF ds, es
    <3>1. Current(h, b) = [value |-> Attribute(h[c]), descriptors |-> ds]
      BY <2>7 DEF ds
    <3> QED
      BY <3>1, FieldSet
  <2>9. Current(g, more) = [Current(h, b) EXCEPT !.descriptors = Append(@, new)]
    <3>1. Current(g, more) = [Current(h, b) EXCEPT !.descriptors = es]
      BY <2>6, <2>8
    <3> QED
      BY <2>8, <3>1
  <2>10. Current(g, more) \in ToldCharacteristic
    BY <2>3, <2>5, <2>6 DEF ToldCharacteristic
  <2> QED
    BY <2>9, <2>10
<1>9. AllDeclared(g, more) \in Abstract!Characteristics(AllDeclared(h, b))
  <2>1. \E x \in UUID :
          Current(g, more) = [Current(h, b) EXCEPT !.descriptors = Append(@, Abstract!NewAttribute(x))]
    BY <1>8 DEF new
  <2> QED
    BY <1>1, <1>2, <1>7, <1>8, <2>1, CurrentDiffers
<1> QED
  BY <1>3, <1>4, <1>9 DEF g, more

(* A command sets something of the characteristic that is being declared.  *)
LEMMA CharacteristicChanged ==
  ASSUME NEW h, Heap(h), NEW b \in Builder, NEW services, Sound(h, b, services),
         b.characteristic # NULL,
         NEW g, DiffersIn(h, g, b.characteristic),
         g[b.characteristic].list = h[b.characteristic].list,
         Attribute(g[b.characteristic]) \in Abstract!Changed(Attribute(h[b.characteristic])),
         Attribute(g[b.characteristic]) \in ToldAttribute
  PROVE  /\ AllDeclared(g, b) \in Abstract!Characteristics(AllDeclared(h, b))
         /\ g[b.service] = h[b.service]
<1> DEFINE c == b.characteristic
<1>1. ListsOfKind(h) /\ RootsOfKind(h, b, services)
  BY DEF Sound
<1>2. /\ b.service \in DOMAIN h /\ c \in DOMAIN h /\ b.service # c
      /\ b.descriptor # NULL => b.descriptor \in DOMAIN h /\ b.descriptor # c
  BY <1>1, BuilderHolds
<1>3. \A o \in DOMAIN h : o # c => g[o] = h[o]
  BY DEF DiffersIn
<1> HIDE DEF c
<1>4. Characteristics(g, b.service) = Characteristics(h, b.service)
  <2> DEFINE s == b.service
  <2>1. s \in DOMAIN h /\ g[s].list = h[s].list
    BY <1>2, <1>3
  <2> HIDE DEF s
  <2>2. Characteristics(g, s) = Characteristics(h, s)
    BY <1>1, <2>1, CharacteristicsStay DEF c
  <2> QED
    BY <2>2 DEF s
<1>5. Descriptors(g, c) = Descriptors(h, c)
  BY <1>1, <1>2, DescriptorsStay DEF c
<1>6. Latest(g, b) = Latest(h, b)
  BY <1>2, <1>3 DEF Latest
<1>7. /\ Current(g, b) = [Current(h, b) EXCEPT !.value = Attribute(g[c])]
      /\ Current(h, b).value = Attribute(h[c])
  <2> DEFINE ds == Descriptors(h, c) \o Latest(h, b)
  <2>1. /\ Current(h, b) = [value |-> Attribute(h[c]), descriptors |-> ds]
        /\ Current(g, b) = [value |-> Attribute(g[c]), descriptors |-> ds]
    BY <1>5, <1>6 DEF Current, c
  <2> HIDE DEF ds
  <2>2. /\ [Current(h, b) EXCEPT !.value = Attribute(g[c])] =
             [value |-> Attribute(g[c]), descriptors |-> ds]
        /\ Current(h, b).value = Attribute(h[c])
    BY <2>1, FieldSet
  <2> QED
    BY <2>1, <2>2
<1>8. Current(g, b) \in ToldCharacteristic
  <2>1. Current(h, b) \in ToldCharacteristic
    BY <1>1, DeclaredType
  <2>2. Attribute(g[c]) \in ToldAttribute
    BY DEF c
  <2> QED
    BY <1>7, <2>1, <2>2 DEF ToldCharacteristic
<1>9. \E v \in Abstract!Changed(Current(h, b).value) :
        Current(g, b) = [Current(h, b) EXCEPT !.value = v]
  BY <1>7 DEF c
<1>10. AllDeclared(g, b) \in Abstract!Characteristics(AllDeclared(h, b))
  BY <1>1, <1>4, <1>8, <1>9, CurrentDiffers
<1> QED
  BY <1>2, <1>3, <1>10

(* A command sets something of the descriptor that is being declared.      *)
LEMMA DescriptorChanged ==
  ASSUME NEW h, Heap(h), NEW b \in Builder, NEW services, Sound(h, b, services),
         b.descriptor # NULL,
         NEW g, DiffersIn(h, g, b.descriptor),
         Attribute(g[b.descriptor]) \in Abstract!Changed(Attribute(h[b.descriptor])),
         Attribute(g[b.descriptor]) \in ToldAttribute
  PROVE  /\ AllDeclared(g, b) \in Abstract!Characteristics(AllDeclared(h, b))
         /\ g[b.service] = h[b.service]
<1> DEFINE c == b.characteristic
           d == b.descriptor
           new == Attribute(g[d])
           old == Attribute(h[d])
<1>1. ListsOfKind(h) /\ RootsOfKind(h, b, services)
  BY DEF Sound
<1>2. /\ b.service \in DOMAIN h /\ c \in DOMAIN h /\ d \in DOMAIN h
      /\ b.service # d /\ c # d /\ c # NULL
  BY <1>1, BuilderHolds
<1>3. \A o \in DOMAIN h : o # d => g[o] = h[o]
  BY DEF DiffersIn
<1>4. new \in ToldAttribute /\ old \in ToldAttribute
  BY <1>2, AttributeType
<1>5. new \in Abstract!Changed(old)
  OBVIOUS
<1> HIDE DEF c, new, old
<1>6. Characteristics(g, b.service) = Characteristics(h, b.service)
  <2> DEFINE s == b.service
  <2>1. s \in DOMAIN h /\ g[s].list = h[s].list
    BY <1>2, <1>3
  <2> HIDE DEF s
  <2>2. Characteristics(g, s) = Characteristics(h, s)
    BY <1>1, <2>1, CharacteristicsStay
  <2> QED
    BY <2>2 DEF s
<1>7. Descriptors(g, c) = Descriptors(h, c) /\ g[c] = h[c]
  <2>1. g[c].list = h[c].list
    BY <1>2, <1>3
  <2> QED
    BY <1>1, <1>2, <1>3, <2>1, DescriptorsStay
<1>8. Latest(g, b) = <<new>> /\ Latest(h, b) = <<old>>
  BY DEF Latest, new, old
<1>9. Descriptors(h, c) \in Seq(ToldAttribute) /\ Attribute(h[c]) \in ToldAttribute
  BY <1>1, <1>2, DescriptorsType, AttributeType
<1> DEFINE list == Descriptors(h, c)
<1>10. \A s \in Seq(ToldAttribute), x \in ToldAttribute :
         s \o <<x>> = Append(s, x) /\ Append(s, x) \in Seq(ToldAttribute)
  OBVIOUS
<1>11. /\ list \o <<new>> = Append(list, new) /\ list \o <<old>> = Append(list, old)
       /\ Append(list, new) \in Seq(ToldAttribute)
  BY <1>4, <1>9, <1>10
<1>12. /\ Append(list, old) # <<>>
       /\ Abstract!Last(Append(list, old)) = old
       /\ Abstract!WithLast(Append(list, old), new) = Append(list, new)
  BY <1>4, <1>9, LastOfList
<1> HIDE DEF list
<1>13. Current(h, b) = [value |-> Attribute(h[c]), descriptors |-> Append(list, old)]
  BY <1>8, <1>11 DEF Current, list, c
<1>14. Current(g, b) = [value |-> Attribute(h[c]), descriptors |-> Append(list, new)]
  BY <1>7, <1>8, <1>11 DEF Current, list, c
<1>15. Current(g, b) \in ToldCharacteristic
  BY <1>9, <1>11, <1>14 DEF ToldCharacteristic
<1>16. /\ Current(h, b).descriptors # <<>>
       /\ \E v \in Abstract!Changed(Abstract!Last(Current(h, b).descriptors)) :
            Current(g, b) = [Current(h, b) EXCEPT !.descriptors = Abstract!WithLast(@, v)]
  <2>1. Current(h, b).descriptors = Append(list, old)
    BY <1>13
  <2>2. Current(g, b) = [Current(h, b) EXCEPT !.descriptors = Append(list, new)]
    <3> DEFINE es == Append(list, new)
               ds == Append(list, old)
    <3>1. /\ Current(h, b) = [value |-> Attribute(h[c]), descriptors |-> ds]
          /\ Current(g, b) = [value |-> Attribute(h[c]), descriptors |-> es]
      BY <1>13, <1>14
    <3> HIDE DEF es, ds
    <3>2. [Current(h, b) EXCEPT !.descriptors = es] = [value |-> Attribute(h[c]), descriptors |-> es]
      BY <3>1, FieldSet
    <3>3. Current(g, b) = [Current(h, b) EXCEPT !.descriptors = es]
      BY <3>1, <3>2
    <3> QED
      BY <3>3 DEF es
  <2>3. Current(g, b) =
          [Current(h, b) EXCEPT !.descriptors = Abstract!WithLast(Current(h, b).descriptors, new)]
    BY <1>12, <2>1, <2>2
  <2> QED
    BY <1>5, <1>12, <2>1, <2>3
<1>17. AllDeclared(g, b) \in Abstract!Characteristics(AllDeclared(h, b))
  BY <1>1, <1>2, <1>6, <1>15, <1>16, CurrentDiffers DEF c
<1> QED
  BY <1>2, <1>3, <1>17

-----------------------------------------------------------------------------
(* The steps                                                               *)

(* One more is declared, or the last is another.                           *)
LEMMA StepExtends ==
  ASSUME Inv, serviceBuilder \in Builder, serviceBuilder' \in Builder,
         AllDeclared(heap', serviceBuilder') \in
           Abstract!Characteristics(AllDeclared(heap, serviceBuilder)),
         heap'[serviceBuilder'.service].uuid = heap[serviceBuilder.service].uuid,
         database' = database, wrapped' = wrapped
  PROVE  Abstract!Extend
<1>1. Heap(heap) /\ ListsOfKind(heap) /\ RootsOfKind(heap, serviceBuilder, gattServices)
  BY DEF Inv, HeapInv, Sound
<1>2. Declaration(heap, serviceBuilder) # NULL
  BY <1>1, DeclaredType
<1>3. serviceBuilder # NULL /\ serviceBuilder' # NULL
  BY NullAssumption
<1> DEFINE u == heap[serviceBuilder.service].uuid
           now == AllDeclared(heap, serviceBuilder)
<1>4. Declaration(heap, serviceBuilder) = [uuid |-> u, characteristics |-> now]
  BY DeclarationIs, Zenon
<1>5. PICK list \in Abstract!Characteristics(now) : AllDeclared(heap', serviceBuilder') = list
  OBVIOUS
<1>6. Declaration(heap', serviceBuilder') = [uuid |-> u, characteristics |-> list]
  <2>1. Declaration(heap', serviceBuilder') =
          [uuid |-> heap'[serviceBuilder'.service].uuid,
           characteristics |-> AllDeclared(heap', serviceBuilder')]
    BY DeclarationIs, Zenon
  <2> QED
    BY <1>5, <2>1
<1> HIDE DEF u, now
<1>7. /\ Declaration(heap, serviceBuilder).characteristics = now
      /\ Declaration(heap', serviceBuilder') =
           [Declaration(heap, serviceBuilder) EXCEPT !.characteristics = list]
  BY <1>4, <1>6
<1> QED
  BY <1>2, <1>3, <1>5, <1>7 DEF Abstract!Extend

(* How much is declared, when it will all be handed down.                  *)
LEMMA DeclaredLengths ==
  ASSUME NEW h, Heap(h), ListsOfKind(h), NEW b \in Builder, NEW services,
         RootsOfKind(h, b, services), b.characteristic # NULL
  PROVE  /\ Len(AllDeclared(h, b)) = Len(h[b.service].list) + 1
         /\ Len(h[b.service].list) + 1 \in DOMAIN AllDeclared(h, b)
         /\ AllDeclared(h, b)[Len(h[b.service].list) + 1] = Current(h, b)
         /\ b.descriptor # NULL =>
              Len(Current(h, b).descriptors) = Len(h[b.characteristic].list) + 1
<1> DEFINE s == b.service
           c == b.characteristic
           d == b.descriptor
           H == Characteristics(h, s)
           D == Current(h, b)
<1>1. s \in DOMAIN h /\ c \in DOMAIN h /\ (d # NULL => d \in DOMAIN h)
  BY BuilderHolds
<1>2. H \in Seq(ToldCharacteristic) /\ D \in ToldCharacteristic
  BY DeclaredType
<1>3. AllDeclared(h, b) = Append(H, D)
  BY DEF AllDeclared
<1>4. D.descriptors = Descriptors(h, c) \o Latest(h, b)
  BY DEF Current
<1>5. d # NULL => Latest(h, b) = <<Attribute(h[d])>>
  BY DEF Latest
<1> HIDE DEF s, c, d, D
<1>6. Len(H) = Len(h[s].list)
  BY <1>1, CharacteristicsType
<1> HIDE DEF H
<1>7. /\ Len(Append(H, D)) = Len(H) + 1 /\ Len(H) + 1 \in DOMAIN Append(H, D)
      /\ Append(H, D)[Len(H) + 1] = D
  BY <1>2
<1>8. ASSUME d # NULL
      PROVE  Len(D.descriptors) = Len(h[c].list) + 1
  <2>1. /\ Descriptors(h, c) \in Seq(ToldAttribute)
        /\ Len(Descriptors(h, c)) = Len(h[c].list)
    BY <1>1, DescriptorsType
  <2>2. Attribute(h[d]) \in ToldAttribute
    BY <1>1, <1>8, AttributeType
  <2>3. \A list \in Seq(ToldAttribute), x \in ToldAttribute : Len(list \o <<x>>) = Len(list) + 1
    OBVIOUS
  <2> QED
    BY <1>4, <1>5, <1>8, <2>1, <2>2, <2>3
<1> QED
  BY <1>3, <1>6, <1>7, <1>8 DEF s, c, d, D

(* A list whose count would be 0 is what the promise excludes.             *)
LEMMA WrappingLoses ==
  ASSUME Inv, serviceBuilder \in Builder, serviceBuilder.characteristic # NULL, wrapped',
         \/ Wraps(heap[serviceBuilder.service].list)
         \/ /\ serviceBuilder.descriptor # NULL
            /\ Wraps(heap[serviceBuilder.characteristic].list)
  PROVE  Abstract!Lose
<1> DEFINE b == serviceBuilder
           all == AllDeclared(heap, b)
           last == Len(heap[b.service].list) + 1
<1>1. Heap(heap) /\ ListsOfKind(heap) /\ RootsOfKind(heap, b, gattServices)
  BY DEF Inv, HeapInv, Sound
<1>2. Declaration(heap, b) # NULL /\ b # NULL
  BY <1>1, DeclaredType, BuilderHolds
<1>3. Declaration(heap, b).characteristics = all
  <2>1. Declaration(heap, b) = [uuid |-> heap[b.service].uuid, characteristics |-> all]
    BY DeclarationIs, Zenon
  <2> QED
    BY <2>1
<1>4. /\ Len(all) = last /\ last \in DOMAIN all
      /\ b.descriptor # NULL =>
           Len(all[last].descriptors) = Len(heap[b.characteristic].list) + 1
  BY <1>1, DeclaredLengths
<1>5. CountValues >= CountValues
  BY CountAssumption
<1>6. CASE Wraps(heap[b.service].list)
  <2>1. Len(all) >= CountValues
    BY <1>4, <1>5, <1>6 DEF Wraps
  <2> HIDE DEF all
  <2> QED
    BY <1>2, <1>3, <2>1 DEF Abstract!Lose, Abstract!TooLong
<1>7. CASE b.descriptor # NULL /\ Wraps(heap[b.characteristic].list)
  <2>1. \E i \in DOMAIN all : Len(all[i].descriptors) >= CountValues
    <3> HIDE DEF all, last
    <3> QED
      BY <1>4, <1>5, <1>7 DEF Wraps
  <2> HIDE DEF all
  <2> QED
    BY <1>2, <1>3, <2>1 DEF Abstract!Lose, Abstract!TooLong
<1> QED
  BY <1>6, <1>7

(* Each step of the program, as one of ServiceDeclaration.                 *)
LEMMA declareServiceDeclares ==
  ASSUME Inv, Inv', NEW u \in UUID, declareService(u)
  PROVE  Abstract!Declare(u)
<1>1. PICK o \in Object \ DOMAIN heap :
        /\ heap' = With(heap, o, NewObject("service", u))
        /\ serviceBuilder' = [service |-> o, characteristic |-> NULL, descriptor |-> NULL]
  BY DEF declareService
<1>2. serviceBuilder = NULL /\ UNCHANGED <<database, wrapped>>
  BY DEF declareService
<1> DEFINE b == [service |-> o, characteristic |-> NULL, descriptor |-> NULL]
           g == With(heap, o, NewObject("service", u))
<1>3. b # NULL
  <2>1. b \in Builder
    BY DEF Builder
  <2> QED
    BY <2>1, NullAssumption
<1>4. Declaration(g, b) = [uuid |-> u, characteristics |-> <<>>]
  <2>1. g[o] = NewObject("service", u)
    BY DEF With
  <2>2. g[o].uuid = u /\ g[o].list = <<>>
    BY <2>1 DEF NewObject
  <2> HIDE DEF g
  <2>3. AllDeclared(g, b) = <<>>
    <3>1. Characteristics(g, o) = <<>>
      BY <2>2 DEF Characteristics
    <3> QED
      BY <3>1 DEF AllDeclared
  <2>4. Declaration(g, b) = [uuid |-> g[b.service].uuid, characteristics |-> AllDeclared(g, b)]
    BY DeclarationIs, Zenon
  <2> QED
    BY <2>2, <2>3, <2>4
<1> HIDE DEF b, g
<1>5. serviceBuilder' = b /\ heap' = g
  BY <1>1 DEF b, g
<1> QED
  BY <1>2, <1>3, <1>4, <1>5 DEF Abstract!Declare

LEMMA declareCharacteristicExtends ==
  ASSUME Inv, Inv', NEW u \in UUID, declareCharacteristic(u)
  PROVE  Abstract!Extend \/ Abstract!Lose
<1> DEFINE b == serviceBuilder
           h == committed(heap, b)
           b1 == afterCommit(b)
<1>1. PICK o \in Object \ DOMAIN heap :
        /\ heap' = With(h, o, NewObject("characteristic", u))
        /\ serviceBuilder' = [b1 EXCEPT !.characteristic = o]
  BY DEF declareCharacteristic
<1>2. /\ b # NULL /\ wrapped' = (wrapped \/ CommitWraps(heap, b)) /\ database' = database
  BY DEF declareCharacteristic, stack
<1>3. Heap(heap) /\ b \in Builder /\ Sound(heap, b, gattServices) /\ wrapped \in BOOLEAN
  BY <1>2 DEF Inv, HeapInv
<1>4. CASE CommitWraps(heap, b)
  BY <1>2, <1>3, <1>4, WrappingLoses DEF CommitWraps
<1>5. CASE ~CommitWraps(heap, b)
  <2>1. /\ Heap(h) /\ DOMAIN h = DOMAIN heap /\ b1 \in Builder /\ b1.service = b.service
        /\ b1.characteristic = NULL /\ b1.descriptor = NULL
        /\ Sound(h, b1, gattServices)
    BY <1>3, Committed
  <2>2. /\ Characteristics(h, b.service) = AllDeclared(heap, b)
        /\ h[b.service].uuid = heap[b.service].uuid
    BY <1>3, <1>5, CommittedIsDeclared
  <2> HIDE DEF h, b1
  <2>3. AllDeclared(h, b1) = AllDeclared(heap, b)
    BY <2>1, <2>2 DEF AllDeclared
  <2>4. o \in Object /\ o \notin DOMAIN h
    BY <2>1
  <2>5. /\ AllDeclared(heap', serviceBuilder') \in Abstract!Characteristics(AllDeclared(h, b1))
        /\ heap'[b1.service] = h[b1.service]
    BY <1>1, <2>1, <2>4, CharacteristicDeclared
  <2>6. serviceBuilder' \in Builder /\ serviceBuilder'.service = b.service
    BY <1>1, <2>1 DEF Builder
  <2>7. wrapped' = wrapped
    BY <1>2, <1>3, <1>5
  <2>8. heap'[serviceBuilder'.service].uuid = heap[b.service].uuid
    BY <2>1, <2>2, <2>5, <2>6
  <2> QED
    BY <1>2, <1>3, <2>3, <2>5, <2>6, <2>7, <2>8, StepExtends
<1> QED
  BY <1>4, <1>5

LEMMA declareDescriptorExtends ==
  ASSUME Inv, Inv', NEW u \in UUID, declareDescriptor(u)
  PROVE  Abstract!Extend \/ Abstract!Lose
<1> DEFINE b == serviceBuilder
           h == DescriptorAdded(heap, b)
           b1 == [b EXCEPT !.descriptor = NULL]
           wraps == b.descriptor # NULL /\ Wraps(heap[b.characteristic].list)
<1>1. PICK o \in Object \ DOMAIN heap :
        /\ heap' = With(h, o, NewObject("descriptor", u))
        /\ serviceBuilder' = [b EXCEPT !.descriptor = o]
  BY DEF declareDescriptor
<1>2. /\ b # NULL /\ b.characteristic # NULL
      /\ wrapped' = (wrapped \/ wraps) /\ database' = database
  BY DEF declareDescriptor, stack
<1>3. Heap(heap) /\ b \in Builder /\ Sound(heap, b, gattServices) /\ wrapped \in BOOLEAN
  BY <1>2 DEF Inv, HeapInv
<1>4. CASE wraps
  BY <1>2, <1>3, <1>4, WrappingLoses
<1>5. CASE ~wraps
  <2>1. /\ Heap(h) /\ DOMAIN h = DOMAIN heap /\ b1 \in Builder
        /\ \A x \in DOMAIN heap : x # b.characteristic => h[x] = heap[x]
        /\ Sound(h, b1, gattServices)
    BY <1>3, DescriptorHandedDown
  <2>2. AllDeclared(h, b1) = AllDeclared(heap, b)
    BY <1>3, <1>5, DescriptorStays
  <2>3. /\ b1.service = b.service /\ b1.characteristic = b.characteristic
        /\ b1.descriptor = NULL
        /\ [b EXCEPT !.descriptor = o] = [b1 EXCEPT !.descriptor = o]
    BY <1>3 DEF Builder
  <2> HIDE DEF h, b1, wraps
  <2>4. o \in Object /\ o \notin DOMAIN h
    BY <2>1
  <2>5. /\ AllDeclared(heap', serviceBuilder') \in Abstract!Characteristics(AllDeclared(h, b1))
        /\ heap'[b1.service] = h[b1.service]
    BY <1>1, <1>2, <2>1, <2>3, <2>4, DescriptorDeclared
  <2>6. serviceBuilder' \in Builder /\ serviceBuilder'.service = b.service
    BY <1>1, <1>3 DEF Builder
  <2>7. wrapped' = wrapped
    BY <1>2, <1>3, <1>5
  <2>8. heap'[serviceBuilder'.service].uuid = heap[b.service].uuid
    <3>1. /\ b.service \in DOMAIN heap /\ heap[b.service].kind = "service"
          /\ heap[b.characteristic].kind = "characteristic"
      BY <1>2, <1>3, BuilderHolds DEF Sound
    <3>2. b.service # b.characteristic
      BY <3>1
    <3> QED
      BY <2>1, <2>3, <2>5, <2>6, <3>1, <3>2
  <2> QED
    BY <1>2, <1>3, <2>2, <2>5, <2>6, <2>7, <2>8, StepExtends
<1> QED
  BY <1>4, <1>5

(* What a setter does to the object that is being declared.                *)
LEMMA SetChanges ==
  ASSUME Inv, NEW o, o \in DOMAIN heap, Set(o), o \in Held(serviceBuilder)
  PROVE  /\ DiffersIn(heap, heap', o)
         /\ heap'[o].list = heap[o].list
         /\ Attribute(heap'[o]) \in Abstract!Changed(Attribute(heap[o]))
         /\ Attribute(heap'[o]) \in ToldAttribute
         /\ UNCHANGED <<serviceBuilder, database, wrapped>>
<1>1. /\ heap \in [DOMAIN heap -> GattAttribute] /\ Fits(heap) /\ Heap(heap)
      /\ RootsHeldOnce(heap, serviceBuilder, gattServices)
  BY DEF Inv, HeapInv, Heap, Sound
<1>2. heap[o] \in GattAttribute /\ heap[o].len <= heap[o].lenMax
  BY <1>1 DEF Fits
<1>3. \A x \in DOMAIN heap : o \notin Elements(heap[x].list)
  BY <1>1 DEF RootsHeldOnce
<1>4. PICK a : /\ Change(o, a) /\ a.list = heap[o].list
               /\ Attribute(a) \in Abstract!Changed(Attribute(heap[o]))
  <2>1. ASSUME NEW n \in Length, Change(o, setValue(heap[o], n))
        PROVE  \E a : /\ Change(o, a) /\ a.list = heap[o].list
                      /\ Attribute(a) \in Abstract!Changed(Attribute(heap[o]))
    <3>1. setValue(heap[o], n).list = heap[o].list
      BY <1>2 DEF setValue, GattAttribute
    <3>2. Attribute(setValue(heap[o], n)) \in Abstract!Changed(Attribute(heap[o]))
      BY <1>2, SetterChanges
    <3> QED
      BY <2>1, <3>1, <3>2
  <2>2. ASSUME NEW n \in Length \cup {0}, AcceptsMaxLength(heap[o], n),
               Change(o, [heap[o] EXCEPT !.lenMax = n])
        PROVE  \E a : /\ Change(o, a) /\ a.list = heap[o].list
                      /\ Attribute(a) \in Abstract!Changed(Attribute(heap[o]))
    <3>1. [heap[o] EXCEPT !.lenMax = n].list = heap[o].list
      BY <1>2 DEF GattAttribute
    <3>2. Attribute([heap[o] EXCEPT !.lenMax = n]) \in Abstract!Changed(Attribute(heap[o]))
      BY <1>2, <2>2, SetterChanges
    <3> QED
      BY <2>2, <3>1, <3>2
  <2>3. ASSUME NEW s \in Setting, Change(o, [heap[o] EXCEPT !.setting = s])
        PROVE  \E a : /\ Change(o, a) /\ a.list = heap[o].list
                      /\ Attribute(a) \in Abstract!Changed(Attribute(heap[o]))
    <3>1. [heap[o] EXCEPT !.setting = s].list = heap[o].list
      BY <1>2 DEF GattAttribute
    <3>2. Attribute([heap[o] EXCEPT !.setting = s]) \in Abstract!Changed(Attribute(heap[o]))
      BY <1>2, SetterChanges
    <3> QED
      BY <2>3, <3>1, <3>2
  <2> QED
    BY <2>1, <2>2, <2>3 DEF Set
<1>5. /\ heap' = [heap EXCEPT ![o] = a] /\ UNCHANGED <<serviceBuilder, database, wrapped>>
  BY <1>4 DEF Change, stack
<1>6. heap'[o] = a /\ \A x \in DOMAIN heap : x # o => heap'[x] = heap[x]
  BY <1>1, <1>5
<1>7. DiffersIn(heap, heap', o)
  BY <1>3, <1>6 DEF DiffersIn
<1>8. Attribute(heap'[o]) \in ToldAttribute
  <2>1. Heap(heap') /\ DOMAIN heap' = DOMAIN heap
    <3>1. HeapInv(heap', serviceBuilder', gattServices', wrapped')
      BY SetKeeps
    <3> QED
      BY <1>5, <3>1 DEF HeapInv
  <2> QED
    BY <2>1, AttributeType
<1> QED
  BY <1>4, <1>5, <1>6, <1>7, <1>8

LEMMA settersExtend ==
  ASSUME Inv, setCharacteristic \/ setDescriptor
  PROVE  Abstract!Extend
<1> DEFINE b == serviceBuilder
           c == b.characteristic
           d == b.descriptor
<1>1. /\ b # NULL /\ c # NULL
      /\ Set(c) \/ (d # NULL /\ Set(d))
  BY DEF setCharacteristic, setDescriptor
<1>2. Heap(heap) /\ b \in Builder /\ Sound(heap, b, gattServices)
  BY <1>1 DEF Inv, HeapInv
<1>3. /\ c \in DOMAIN heap /\ c \in Held(b)
      /\ d # NULL => d \in DOMAIN heap /\ d \in Held(b)
  BY <1>1, <1>2, BuilderHolds DEF Sound
<1>4. /\ AllDeclared(heap', b) \in Abstract!Characteristics(AllDeclared(heap, b))
      /\ heap'[b.service] = heap[b.service]
      /\ UNCHANGED <<serviceBuilder, database, wrapped>>
  <2>1. CASE Set(c)
    <3>1. /\ DiffersIn(heap, heap', c)
          /\ heap'[c].list = heap[c].list
          /\ Attribute(heap'[c]) \in Abstract!Changed(Attribute(heap[c]))
          /\ Attribute(heap'[c]) \in ToldAttribute
          /\ UNCHANGED <<serviceBuilder, database, wrapped>>
      BY <1>3, <2>1, SetChanges
    <3> QED
      BY <1>1, <1>2, <3>1, CharacteristicChanged
  <2>2. CASE d # NULL /\ Set(d)
    <3>1. /\ DiffersIn(heap, heap', d)
          /\ Attribute(heap'[d]) \in Abstract!Changed(Attribute(heap[d]))
          /\ Attribute(heap'[d]) \in ToldAttribute
          /\ UNCHANGED <<serviceBuilder, database, wrapped>>
      BY <1>3, <2>2, SetChanges
    <3> QED
      BY <1>2, <2>2, <3>1, DescriptorChanged
  <2> QED
    BY <1>1, <2>1, <2>2
<1> QED
  BY <1>2, <1>4, StepExtends

(* The services that the stack knows, as it was told of them.              *)
LEMMA ToldAppended ==
  ASSUME NEW E, NEW list \in Seq(E), NEW e \in E
  PROVE  [i \in DOMAIN Append(list, e) |-> Append(list, e)[i].told] =
           Append([i \in DOMAIN list |-> list[i].told], e.told)
OBVIOUS

LEMMA commitServiceCommits ==
  ASSUME Inv, Inv', commitService
  PROVE  Abstract!Commit \/ Abstract!Cancel \/ Abstract!Lose
<1> DEFINE b == serviceBuilder
           h == committed(heap, b)
           service == b.service
           D == Declaration(heap, b)
<1>1. /\ b # NULL /\ wrapped' = (wrapped \/ CommitWraps(heap, b)) /\ serviceBuilder' = NULL
  BY DEF commitService
<1>2. \/ database' = Append(database, [service |-> service, told |-> Service(h, service)])
      \/ database' = database
  BY DEF commitService
<1>3. Heap(heap) /\ b \in Builder /\ Sound(heap, b, gattServices) /\ wrapped \in BOOLEAN
  BY <1>1 DEF Inv, HeapInv
<1>4. CASE CommitWraps(heap, b)
  BY <1>1, <1>3, <1>4, WrappingLoses DEF CommitWraps
<1>5. CASE ~CommitWraps(heap, b)
  <2>1. D # NULL /\ D \in ToldService
    BY <1>3, DeclaredType DEF Sound
  <2>2. Service(h, service) = D
    BY <1>3, <1>5, CommittedIsDeclared
  <2>3. wrapped' = wrapped
    BY <1>1, <1>3, <1>5
  <2> HIDE DEF D, h
  <2>4. CASE database' = database
    BY <1>1, <2>1, <2>3, <2>4 DEF Abstract!Cancel, D
  <2>5. CASE database' = Append(database, [service |-> service, told |-> Service(h, service)])
    <3> DEFINE e == [service |-> service, told |-> D]
               E == [service : Object, told : ToldService]
    <3>1. e.told = D
      OBVIOUS
    <3>2. e \in E
      <4>1. service \in Object
        BY <1>3, BuilderHolds DEF Sound, Heap
      <4> QED
        BY <2>1, <4>1
    <3>3. database \in Seq(E)
      BY DEF Inv, DatabaseInv
    <3>4. database' = Append(database, e)
      BY <2>2, <2>5
    <3> HIDE DEF e, E
    <3>5. [i \in DOMAIN database' |-> database'[i].told] =
            Append([i \in DOMAIN database |-> database[i].told], D)
      BY <3>1, <3>2, <3>3, <3>4, ToldAppended
    <3> QED
      BY <1>1, <2>1, <2>3, <3>5 DEF Abstract!Commit, D
  <2> QED
    BY <1>2, <2>4, <2>5
<1> QED
  BY <1>4, <1>5

LEMMA cancelServiceDeclarationCancels ==
  ASSUME Inv, cancelServiceDeclaration
  PROVE  Abstract!Cancel
<1>1. serviceBuilder # NULL /\ serviceBuilder' = NULL /\ UNCHANGED <<database, wrapped>>
  BY DEF cancelServiceDeclaration, stack
<1>2. Declaration(heap, serviceBuilder) # NULL
  BY <1>1, DeclaredType DEF Inv, HeapInv, Sound
<1> QED
  BY <1>1, <1>2 DEF Abstract!Cancel

LEMMA shutdownShutsDown ==
  ASSUME Inv, shutdown
  PROVE  Abstract!Shutdown
<1>1. serviceBuilder' = NULL /\ database' = <<>> /\ wrapped' = wrapped
  BY ShutdownKeeps DEF shutdown
<1>2. [i \in DOMAIN database' |-> database'[i].told] = <<>>
  BY <1>1
<1> QED
  BY <1>1, <1>2 DEF Abstract!Shutdown

(* The commands do to what is declared and to what the stack was told what
   ServiceDeclaration says.                                                *)
LEMMA StepImplements == Inv /\ Inv' /\ [Next]_vars => [Abstract!Next]_(Abstract!vars)
<1> SUFFICES ASSUME Inv, Inv', [Next]_vars
             PROVE  Abstract!Next \/ UNCHANGED Abstract!vars
  OBVIOUS
<1>1. ASSUME NEW u \in UUID, declareService(u)
      PROVE  Abstract!Next
  BY <1>1, declareServiceDeclares DEF Abstract!Next
<1>2. ASSUME NEW u \in UUID, declareCharacteristic(u) \/ declareDescriptor(u)
      PROVE  Abstract!Next
  BY <1>2, declareCharacteristicExtends, declareDescriptorExtends DEF Abstract!Next
<1>3. CASE setCharacteristic \/ setDescriptor
  BY <1>3, settersExtend DEF Abstract!Next
<1>4. CASE commitService
  BY <1>4, commitServiceCommits DEF Abstract!Next
<1>5. CASE cancelServiceDeclaration
  BY <1>5, cancelServiceDeclarationCancels DEF Abstract!Next
<1>6. CASE shutdown
  BY <1>6, shutdownShutsDown DEF Abstract!Next
<1>7. CASE init \/ UNCHANGED vars
  <2>1. UNCHANGED <<heap, serviceBuilder, database, wrapped>>
    BY <1>7 DEF init, vars, stack
  <2> QED
    BY <2>1 DEF Abstract!vars
<1> QED
  BY <1>1, <1>2, <1>3, <1>4, <1>5, <1>6, <1>7 DEF Next

(* What commitService gives the stack, and answers, is what the commands declared:
   each characteristic and each descriptor once, in order, as it was set last.
   Only a list of 256 entries is excepted.                                 *)
THEOREM DeclaredIsCommitted == Spec => ImplementsServiceDeclaration
<1>1. Init => Abstract!Init
  <2> SUFFICES ASSUME Init
               PROVE  Abstract!Init
    OBVIOUS
  <2>1. serviceBuilder = NULL /\ database = <<>> /\ wrapped = FALSE
    BY DEF Init
  <2>2. [i \in DOMAIN database |-> database[i].told] = <<>>
    BY <2>1
  <2> QED
    BY <2>1, <2>2 DEF Abstract!Init
<1>2. Inv /\ Inv' /\ [Next]_vars => [Abstract!Next]_(Abstract!vars)
  BY StepImplements
<1> QED
  BY <1>1, <1>2, Invariant, PTL DEF Spec, ImplementsServiceDeclaration, Abstract!Spec
=============================================================================
