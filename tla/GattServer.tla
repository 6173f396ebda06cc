------------------------------ MODULE GattServer ------------------------------
(***************************************************************************)
(* The commands of source/Commands/GattServerCommands.cpp that declare a   *)
(* GATT service, with the objects they build it from.  A ServiceBuilder    *)
(* holds a service and the characteristic and descriptor that are being    *)
(* declared; it hands them down to the objects that will delete them, and  *)
(* the service to gattServices once the stack knows it.  A shutdown of the *)
(* stack, from any other command, deletes it all.                          *)
(*                                                                         *)
(* heap holds the objects that are allocated.  An object has its list of   *)
(* characteristics or descriptors, and of the attribute it is the length   *)
(* of the value, which is NULL when that is 0, the maximum length, and one *)
(* setting for its properties, security and variable length.  A command    *)
(* that finds nothing to work on fails and changes nothing.                *)
(***************************************************************************)
EXTENDS Integers, Sequences

CONSTANTS
  Object,          \* bound: what new may return
  NULL,            \* no object, or no builder
  UUID,
  Setting, DefaultSetting,
  Length,          \* the lengths of values the user writes
  CountValues,     \* the values of a uint8_t, 2^8
  MaxServices      \* bound: the services that are committed

(* ServiceBuilder: the pointers of what is being declared.                 *)
Builder == [service : Object \cup {NULL}, characteristic : Object \cup {NULL},
            descriptor : Object \cup {NULL}]

(* What the stack is told of a service.                                    *)
ToldAttribute == [uuid : UUID, setting : Setting, len : Nat, lenMax : Nat]
ToldService ==
  [uuid : UUID, characteristics : Seq([value : ToldAttribute, descriptors : Seq(ToldAttribute)])]

ASSUME NullAssumption == NULL \notin Object /\ NULL \notin Builder /\ NULL \notin ToldService
ASSUME SettingAssumption == DefaultSetting \in Setting
ASSUME LengthAssumption == Length \subseteq Nat \ {0}
ASSUME CountAssumption == CountValues \in Nat \ {0}

VARIABLES
  heap,               \* the objects that are allocated, and what is in them
  serviceBuilder,     \* NULL, or the builder's pointers
  gattServices,       \* the services that were committed
  cleanupRegistered,
  initialized,        \* the stack is
  onShutdown,         \* how often whenShutdown is in its list of callbacks
  database,           \* the services it knows, with what it was told of them
  wrapped             \* the count of a list was 255 and is 0

stack == <<initialized, onShutdown, database>>
vars == <<heap, serviceBuilder, gattServices, cleanupRegistered, stack, wrapped>>

Init ==
  /\ heap = [o \in {} |-> NULL]
  /\ serviceBuilder = NULL
  /\ gattServices = <<>>
  /\ cleanupRegistered = FALSE
  /\ initialized = FALSE
  /\ onShutdown = 0
  /\ database = <<>>
  /\ wrapped = FALSE

-----------------------------------------------------------------------------
(* Objects and their lists                                                 *)

Elements(list) == {list[i] : i \in DOMAIN list}

NewObject(kind, u) ==
  [kind |-> kind, list |-> <<>>, uuid |-> u, setting |-> DefaultSetting, len |-> 0, lenMax |-> 0]

With(h, o, new) == [x \in DOMAIN h \cup {o} |-> IF x = o THEN new ELSE h[x]]
Without(h, dead) == [x \in DOMAIN h \ dead |-> h[x]]

(* addCharacteristic(), addDescriptor(): the count is a uint8_t.           *)
Wraps(list) == Len(list) + 1 = CountValues
Add(h, parent, child) ==
  [h EXCEPT ![parent].list = IF Wraps(@) THEN <<>> ELSE Append(@, child)]

(* The destructors: an object takes what is in its list with it.           *)
Listed(h, objects) == UNION {Elements(h[o].list) : o \in objects}
Deleted(h, objects) ==
  objects \cup Listed(h, objects) \cup Listed(h, Listed(h, objects))

setValue(attribute, n) ==
  [attribute EXCEPT !.len = n, !.lenMax = IF @ < n THEN n ELSE @]

(* A characteristic is compared with its maximum, a descriptor with its value. *)
AcceptsMaxLength_Any(attribute, n) == TRUE  \* mutant: shorter than the value
AcceptsMaxLength(attribute, n) ==
  n >= IF attribute.kind = "characteristic" THEN attribute.lenMax ELSE attribute.len

releaseAttributesValue(h, service) ==
  [o \in DOMAIN h |->
     IF o \in Deleted(h, {service}) \ {service} THEN [h[o] EXCEPT !.len = 0] ELSE h[o]]

-----------------------------------------------------------------------------
(* ServiceBuilder                                                          *)

Held(b) == IF b = NULL THEN {} ELSE {b.service, b.characteristic, b.descriptor} \ {NULL}

(* commit(): the descriptor goes to the characteristic, that to the service. *)
DescriptorAdded(h, b) == IF b.descriptor = NULL THEN h ELSE Add(h, b.characteristic, b.descriptor)
committed_WithoutDescriptor(h, b) ==  \* mutant: the last descriptor is forgotten
  IF b.characteristic = NULL THEN h ELSE Add(h, b.service, b.characteristic)
committed(h, b) ==
  IF b.characteristic = NULL THEN h ELSE Add(DescriptorAdded(h, b), b.service, b.characteristic)
CommitWraps(h, b) ==
  /\ b.characteristic # NULL
  /\ \/ Wraps(h[b.service].list)
     \/ b.descriptor # NULL /\ Wraps(h[b.characteristic].list)

afterCommit_KeepsDescriptor(b) == [b EXCEPT !.characteristic = NULL]  \* mutant: not set to NULL
afterCommit(b) == [b EXCEPT !.characteristic = NULL, !.descriptor = NULL]

-----------------------------------------------------------------------------
(* What the stack, and the answer of commitService, read of a service      *)

Attribute(a) == [uuid |-> a.uuid, setting |-> a.setting, len |-> a.len, lenMax |-> a.lenMax]

Service(h, service) ==
  [uuid |-> h[service].uuid,
   characteristics |->
     [i \in DOMAIN h[service].list |->
        LET c == h[h[service].list[i]] IN
        [value |-> Attribute(c),
         descriptors |-> [j \in DOMAIN c.list |-> Attribute(h[c.list[j]])]]]]

-----------------------------------------------------------------------------
(* The commands                                                            *)

(* initServiceBuilder(): whenShutdown is registered once.                  *)
Register == onShutdown' = IF cleanupRegistered THEN onShutdown ELSE onShutdown + 1

declareService(u) ==
  /\ serviceBuilder = NULL
  /\ \E o \in Object \ DOMAIN heap :
       /\ heap' = With(heap, o, NewObject("service", u))
       /\ serviceBuilder' = [service |-> o, characteristic |-> NULL, descriptor |-> NULL]
  /\ Register
  /\ cleanupRegistered' = TRUE
  /\ UNCHANGED <<gattServices, initialized, database, wrapped>>

declareCharacteristic(u) ==
  /\ serviceBuilder # NULL
  /\ \E o \in Object \ DOMAIN heap :
       /\ heap' = With(committed(heap, serviceBuilder), o, NewObject("characteristic", u))
       /\ serviceBuilder' = [afterCommit(serviceBuilder) EXCEPT !.characteristic = o]
  /\ wrapped' = (wrapped \/ CommitWraps(heap, serviceBuilder))
  /\ UNCHANGED <<gattServices, cleanupRegistered, stack>>

declareDescriptor(u) ==
  /\ serviceBuilder # NULL /\ serviceBuilder.characteristic # NULL
  /\ \E o \in Object \ DOMAIN heap :
       /\ heap' = With(DescriptorAdded(heap, serviceBuilder), o, NewObject("descriptor", u))
       /\ serviceBuilder' = [serviceBuilder EXCEPT !.descriptor = o]
  /\ wrapped' = (wrapped \/ (serviceBuilder.descriptor # NULL /\
                              Wraps(heap[serviceBuilder.characteristic].list)))
  /\ UNCHANGED <<gattServices, cleanupRegistered, stack>>

(* The setters of the characteristic, or of the descriptor, being declared. *)
Change(o, attribute) ==
  /\ heap' = [heap EXCEPT ![o] = attribute]
  /\ UNCHANGED <<serviceBuilder, gattServices, cleanupRegistered, stack, wrapped>>

Set(o) ==
  \/ \E n \in Length : Change(o, setValue(heap[o], n))
  \/ \E n \in Length \cup {0} :
       AcceptsMaxLength(heap[o], n) /\ Change(o, [heap[o] EXCEPT !.lenMax = n])
  \/ \E s \in Setting : Change(o, [heap[o] EXCEPT !.setting = s])

setCharacteristic ==
  /\ serviceBuilder # NULL /\ serviceBuilder.characteristic # NULL
  /\ Set(serviceBuilder.characteristic)

setDescriptor ==
  /\ serviceBuilder # NULL /\ serviceBuilder.characteristic # NULL
  /\ serviceBuilder.descriptor # NULL
  /\ Set(serviceBuilder.descriptor)

(* commitService: the builder releases the service, which is deleted if the stack
   refuses it; what else the builder holds is deleted with the builder.    *)
leftInBuilder_All(b) == Held(afterCommit(b))  \* mutant: release() does not forget the service
leftInBuilder(b) == Held(afterCommit(b)) \ {b.service}

refused_Kept(b) == {}  \* mutant: a service that is refused is not deleted
refused(b) == {b.service}

commitService ==
  /\ serviceBuilder # NULL
  /\ LET h == committed(heap, serviceBuilder)
         service == serviceBuilder.service
         left == Deleted(h, leftInBuilder(serviceBuilder))
     IN
     \/ /\ initialized /\ Len(gattServices) < MaxServices
        /\ database' = Append(database, [service |-> service, told |-> Service(h, service)])
        /\ gattServices' = Append(gattServices, service)
        /\ heap' = Without(releaseAttributesValue(h, service), left)
     \/ /\ heap' = Without(h, left \cup Deleted(h, refused(serviceBuilder)))
        /\ UNCHANGED <<gattServices, database>>
  /\ wrapped' = (wrapped \/ CommitWraps(heap, serviceBuilder))
  /\ serviceBuilder' = NULL
  /\ UNCHANGED <<cleanupRegistered, initialized, onShutdown>>

cancelServiceDeclaration ==
  /\ serviceBuilder # NULL
  /\ heap' = Without(heap, Deleted(heap, Held(serviceBuilder)))
  /\ serviceBuilder' = NULL
  /\ UNCHANGED <<gattServices, cleanupRegistered, stack, wrapped>>

-----------------------------------------------------------------------------
(* The stack                                                               *)

init ==
  /\ ~initialized
  /\ initialized' = TRUE
  /\ UNCHANGED <<heap, serviceBuilder, gattServices, cleanupRegistered, onShutdown, database, wrapped>>

(* The stack calls whenShutdown, if it is registered, and then forgets its services. *)
registered_AfterShutdown == cleanupRegistered  \* mutant: whenShutdown leaves the flag alone
registeredAfterShutdown == IF onShutdown > 0 THEN FALSE ELSE cleanupRegistered

shutdown ==
  /\ initialized
  /\ \/ /\ onShutdown > 0
        /\ heap' = Without(heap, Deleted(heap, Held(serviceBuilder) \cup Elements(gattServices)))
        /\ serviceBuilder' = NULL
        /\ gattServices' = <<>>
     \/ onShutdown = 0 /\ UNCHANGED <<heap, serviceBuilder, gattServices>>
  /\ cleanupRegistered' = registeredAfterShutdown
  /\ onShutdown' = 0
  /\ initialized' = FALSE
  /\ database' = <<>>
  /\ UNCHANGED wrapped

Next ==
  \/ \E u \in UUID : declareService(u) \/ declareCharacteristic(u) \/ declareDescriptor(u)
  \/ setCharacteristic \/ setDescriptor
  \/ commitService \/ cancelServiceDeclaration
  \/ init \/ shutdown

Spec == Init /\ [][Next]_vars

-----------------------------------------------------------------------------
GattAttribute == [kind : {"service", "characteristic", "descriptor"}, list : Seq(Object),
                  uuid : UUID, setting : Setting, len : Nat, lenMax : Nat]

Heap(h) == DOMAIN h \subseteq Object /\ h \in [DOMAIN h -> GattAttribute]

(* An attribute is never longer than its maximum.                          *)
TypeOK ==
  /\ Heap(heap)
  /\ \A o \in DOMAIN heap : heap[o].len <= heap[o].lenMax
  /\ serviceBuilder \in Builder \cup {NULL}
  /\ gattServices \in Seq(Object)
  /\ {cleanupRegistered, initialized, wrapped} \subseteq BOOLEAN
  /\ onShutdown \in Nat
  /\ database \in Seq([service : Object, told : ToldService])

(* The static pointers of the file, and what an object may have in its list. *)
Roots == Held(serviceBuilder) \cup Elements(gattServices)

OfKind(h, o, kind) == o \in DOMAIN h /\ h[o].kind = kind

ListsOfKind(h) ==
  \A o \in DOMAIN h : \A i \in DOMAIN h[o].list :
    \/ h[o].kind = "service" /\ OfKind(h, h[o].list[i], "characteristic")
    \/ h[o].kind = "characteristic" /\ OfKind(h, h[o].list[i], "descriptor")

RootsOfKind(h, b, services) ==
  /\ \A i \in DOMAIN services : OfKind(h, services[i], "service")
  /\ b # NULL =>
       /\ OfKind(h, b.service, "service")
       /\ b.characteristic # NULL => OfKind(h, b.characteristic, "characteristic")
       /\ b.descriptor # NULL => b.characteristic # NULL /\ OfKind(h, b.descriptor, "descriptor")

ListedOnce(h) ==
  \A o, p \in DOMAIN h : \A i \in DOMAIN h[o].list, j \in DOMAIN h[p].list :
    h[o].list[i] = h[p].list[j] => o = p /\ i = j

RootsHeldOnce(h, b, services) ==
  /\ \A o \in DOMAIN h : Elements(h[o].list) \cap (Held(b) \cup Elements(services)) = {}
  /\ Held(b) \cap Elements(services) = {}
  /\ \A i, j \in DOMAIN services : services[i] = services[j] => i = j

(* A pointer, of the builder, of gattServices or of a list, never dangles and points
   to an object of its kind; and no two pointers own the same object, so that the
   destructors of commitService, cancelServiceDeclaration and whenShutdown delete it
   once and never one that the stack or another service still uses.        *)
OwnedOnce ==
  /\ ListsOfKind(heap)
  /\ RootsOfKind(heap, serviceBuilder, gattServices)
  /\ ListedOnce(heap)
  /\ RootsHeldOnce(heap, serviceBuilder, gattServices)

(* As long as no list had more than 255 entries, a service that was committed, refused,
   cancelled or is being declared has left nothing behind: what is allocated is
   reached from the builder or from gattServices.                          *)
NothingLeaks ==
  wrapped \/ \A o \in DOMAIN heap :
               o \in Roots \/ \E p \in DOMAIN heap : o \in Elements(heap[p].list)

(* The stack knows the services of gattServices, in the order they were committed; and
   none that was deleted.                                                  *)
StackRefersToServices ==
  /\ DOMAIN database = DOMAIN gattServices
  /\ \A i \in DOMAIN database : database[i].service = gattServices[i]
  /\ \A i \in DOMAIN database : database[i].service \in DOMAIN heap

(* A shutdown of the stack deletes all that was declared and committed, whatever
   was being declared; and nothing refers to it.                           *)
ShutdownDeletesAll ==
  initialized /\ ~initialized' =>
    /\ DOMAIN heap' = {} \/ wrapped
    /\ serviceBuilder' = NULL /\ gattServices' = <<>> /\ database' = <<>>
ShutdownCleansUp == [][ShutdownDeletesAll]_vars

(* The service that is being declared: what is in the lists, then what the builder
   has not handed down yet.                                                *)
Declaration(h, b) ==
  LET service == Service(h, b.service)
      current == [value |-> Attribute(h[b.characteristic]),
                  descriptors |->
                    [i \in DOMAIN h[b.characteristic].list |->
                       Attribute(h[h[b.characteristic].list[i]])] \o
                    IF b.descriptor = NULL THEN <<>> ELSE <<Attribute(h[b.descriptor])>>]
  IN [service EXCEPT !.characteristics =
        IF b.characteristic = NULL THEN @ ELSE Append(@, current)]

Abstract == INSTANCE ServiceDeclaration WITH
  None <- NULL,
  declared <- IF serviceBuilder = NULL THEN NULL ELSE Declaration(heap, serviceBuilder),
  server <- [i \in DOMAIN database |-> database[i].told],
  lost <- wrapped

(* The stack, and the answer of commitService, get what the commands declared and
   nothing else: each characteristic and descriptor once, in order, with the value
   and the settings it was given last.                                     *)
ImplementsServiceDeclaration == Abstract!Spec
=============================================================================
