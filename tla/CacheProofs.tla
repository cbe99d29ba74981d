----------------------------- MODULE CacheProofs -----------------------------
(***************************************************************************)
(* What readers of the component cache rely on: the indices answer for all *)
(* namespaces, names, specs and numbers of components, and the copies that *)
(* are handed out share no memory with the cached objects.                 *)
(***************************************************************************)
EXTENDS ComponentCache, DeepCopy, TLAPS

-----------------------------------------------------------------------------
(* The types of DeepCopy from the bottom up. Memory and Shared recur from  *)
(* a type to those of its fields, which stand below it: that is why they   *)
(* are defined at all, and known when they are known for all fields.       *)

Rank ==
  [flat |-> 0, NamespacedName |-> 0, HttpRepository |-> 0, Artifact |-> 0,
   deep |-> 1, BlueprintReference |-> 1, FluxReference |-> 1, Dependency |-> 1,
   SourceReferenceStatus |-> 1, BlueprintSpec |-> 1,
   Decryption |-> 2, PostBuild |-> 2, SourceReference |-> 2, ComponentStatus |-> 2,
   Blueprint |-> 2, BlueprintVersionSpec |-> 2,
   ComponentSpec |-> 3, BlueprintVersion |-> 3, BlueprintList |-> 3,
   Component |-> 4, BlueprintVersionList |-> 4, ComponentList |-> 5]

(* Types without memory: those without fields, and structs of one of them. *)
Bare == {"flat", "NamespacedName", "HttpRepository", "Artifact"}
Wrapping == {"BlueprintReference", "FluxReference", "Dependency", "SourceReferenceStatus"}

How(type, field) ==
  IF field \in DOMAIN DeepCopyInto[type] THEN DeepCopyInto[type][field] ELSE "assign"

(* The field is copied by its own DeepCopyInto, or renewed, with contents  *)
(* that hold no memory, or holds none.                                     *)
Renewed(type, field) ==
  \/ How(type, field) \in {"into", "newInto"}
  \/ /\ Fields[type][field].type \in Bare \cup Wrapping
     /\ How(type, field) = "new" \/ ~Fields[type][field].ref

Sorted(type) ==
  \A field \in DOMAIN Fields[type] :
    /\ Fields[type][field].type \in DOMAIN Fields
    /\ Rank[Fields[type][field].type] < Rank[type]
    /\ Renewed(type, field)

(* One type after the other, by its declaration and its DeepCopyInto.      *)
LEMMA TypesSorted == \A type \in DOMAIN Fields : Sorted(type)
<1> DEFINE Objects == {"Component", "Blueprint", "BlueprintVersion", "ComponentList",
                       "BlueprintList", "BlueprintVersionList"}
           Parts == {"PostBuild", "Decryption", "ComponentStatus", "BlueprintSpec",
                     "BlueprintVersionSpec"}
<1> USE DEF Sorted, Renewed, Bare, Wrapping, How, Fields, Rank, Ref, Value, DeepCopyInto
<1>1. ASSUME NEW type \in Objects PROVE Sorted(type)
  BY DEF ComponentFields, BlueprintFields, BlueprintVersionFields, ListFields,
         ComponentDeepCopy, BlueprintDeepCopy, BlueprintVersionDeepCopy,
         ComponentListDeepCopy, BlueprintListDeepCopy, BlueprintVersionListDeepCopy
<1>2. Sorted("ComponentSpec")
  BY DEF ComponentSpecFields, ComponentSpecDeepCopy
<1>3. Sorted("SourceReference")
  BY DEF SourceReferenceFields, SourceReferenceDeepCopy
<1>4. ASSUME NEW type \in Parts PROVE Sorted(type)
  BY DEF PostBuildFields, DecryptionFields, ComponentStatusFields, BlueprintSpecFields,
         BlueprintVersionSpecFields, PostBuildDeepCopy, DecryptionDeepCopy,
         ComponentStatusDeepCopy, BlueprintSpecDeepCopy, BlueprintVersionSpecDeepCopy
<1>5. ASSUME NEW type \in Wrapping PROVE Sorted(type)
  BY DEF ReferenceFields, SourceReferenceStatusFields, Assigned,
         SourceReferenceStatusDeepCopy, BlueprintReferenceDeepCopy,
         FluxReferenceDeepCopy, DependencyDeepCopy
<1>6. ASSUME NEW type \in Bare \cup {"deep"} PROVE Sorted(type)
  BY DEF NoFields, Assigned
<1>7. DOMAIN Fields =
        Objects \cup {"ComponentSpec", "SourceReference", "deep"} \cup Parts
          \cup Wrapping \cup Bare
  BY Zenon
<1> HIDE DEF Sorted, Bare, Wrapping, Fields
<1> QED
  BY <1>1, <1>2, <1>3, <1>4, <1>5, <1>6, <1>7

LEMMA Ranks == \A type \in DOMAIN Fields : Rank[type] \in 0..5
<1>1. DOMAIN Fields = DOMAIN Rank
  BY DEF Fields, Rank
<1> QED
  BY <1>1 DEF Rank

LEMMA FieldsBelow ==
  ASSUME NEW type \in DOMAIN Fields, NEW field \in DOMAIN Fields[type]
  PROVE  /\ Fields[type][field].type \in DOMAIN Fields
         /\ Rank[Fields[type][field].type] < Rank[type]
         /\ Rank[Fields[type][field].type] \in 0..5 /\ Rank[type] \in 0..5
         /\ Renewed(type, field)
BY TypesSorted, Ranks DEF Sorted

(* One round of the recursion of Memory. *)
FieldMemory(g, type, field) ==
  Below(field, g[Fields[type][field].type]) \cup
    (IF Fields[type][field].ref THEN {<<field>>} ELSE {})
MemoryOf(g) ==
  [type \in DOMAIN Fields |->
     UNION {FieldMemory(g, type, field) : field \in DOMAIN Fields[type]}]

Agree(g, h, n) == \A type \in DOMAIN Fields : Rank[type] < n => g[type] = h[type]

LEMMA MemoryRises ==
  ASSUME NEW g, NEW h, NEW n \in Nat, Agree(g, h, n)
  PROVE  Agree(MemoryOf(g), MemoryOf(h), n + 1)
<1> SUFFICES ASSUME NEW type \in DOMAIN Fields, Rank[type] < n + 1
             PROVE  MemoryOf(g)[type] = MemoryOf(h)[type]
  BY DEF Agree
<1>1. \A field \in DOMAIN Fields[type] :
        FieldMemory(g, type, field) = FieldMemory(h, type, field)
  BY FieldsBelow DEF Agree, FieldMemory
<1> QED
  BY <1>1 DEF MemoryOf

LEMMA MemoryDefined == Memory = MemoryOf(Memory)
<1> DEFINE Upto(n) == \E g : Agree(g, MemoryOf(g), n)
<1>1. Upto(0)
  BY Ranks DEF Agree
<1>2. ASSUME NEW n \in Nat, Upto(n) PROVE Upto(n + 1)
  BY <1>2, MemoryRises
<1>3. Upto(6)
  <2> HIDE DEF Upto
  <2>1. Upto(0 + 1)
    BY <1>1, <1>2
  <2>2. Upto(1 + 1)
    BY <2>1, <1>2
  <2>3. Upto(2 + 1)
    BY <2>2, <1>2
  <2>4. Upto(3 + 1)
    BY <2>3, <1>2
  <2>5. Upto(4 + 1)
    BY <2>4, <1>2
  <2>6. Upto(5 + 1)
    BY <2>5, <1>2
  <2> QED
    BY <2>6
<1>4. PICK g : Agree(g, MemoryOf(g), 6)
  BY <1>3
<1>5. \A type \in DOMAIN Fields : MemoryOf(g)[type] = MemoryOf(MemoryOf(g))[type]
  BY <1>4, MemoryRises, Ranks DEF Agree
<1>6. \A h : MemoryOf(h) = [type \in DOMAIN Fields |-> MemoryOf(h)[type]]
  BY DEF MemoryOf
<1>7. MemoryOf(g) = MemoryOf(MemoryOf(g))
  BY <1>5, <1>6
<1>8. \E h : h = MemoryOf(h)
  BY <1>7
<1> QED
  BY <1>8 DEF Memory, MemoryOf, FieldMemory

LEMMA NoMemory == \A type \in Bare \cup Wrapping : Memory[type] = {}
<1>1. ASSUME NEW type \in Bare PROVE Memory[type] = {}
  <2>1. type \in DOMAIN Fields /\ DOMAIN Fields[type] = {}
    BY DEF Fields, Bare, NoFields
  <2>2. MemoryOf(Memory)[type] = {}
    BY <2>1 DEF MemoryOf
  <2> QED
    BY <2>2, MemoryDefined
<1>2. ASSUME NEW type \in Wrapping PROVE Memory[type] = {}
  <2>1. /\ type \in DOMAIN Fields
        /\ \A field \in DOMAIN Fields[type] :
             Fields[type][field].type \in Bare /\ ~Fields[type][field].ref
    BY DEF Fields, Bare, Wrapping, ReferenceFields, SourceReferenceStatusFields, Value
  <2>2. \A field : Below(field, {}) = {}
    BY DEF Below
  <2>3. \A field \in DOMAIN Fields[type] : FieldMemory(Memory, type, field) = {}
    BY <1>1, <2>1, <2>2 DEF FieldMemory
  <2>4. MemoryOf(Memory)[type] = {}
    BY <2>1, <2>3 DEF MemoryOf
  <2> QED
    BY <2>1, <2>4, MemoryDefined
<1> QED
  BY <1>1, <1>2

(* One round of the recursion of Shared. *)
SharedOf(g) ==
  [type \in DOMAIN Fields |->
     UNION {(IF Fields[type][field].ref /\ How(type, field) = "assign"
               THEN {<<field>>} ELSE {})
              \cup Below(field, IF How(type, field) \in {"into", "newInto"}
                                  THEN g[Fields[type][field].type]
                                  ELSE Memory[Fields[type][field].type]) :
            field \in DOMAIN Fields[type]}]

(* A struct shares nothing when the types of its fields share nothing.     *)
LEMMA NothingSharedAbove ==
  ASSUME NEW g, NEW type \in DOMAIN Fields,
         \A field \in DOMAIN Fields[type] : g[Fields[type][field].type] = {}
  PROVE  SharedOf(g)[type] = {}
<1>1. ASSUME NEW field \in DOMAIN Fields[type]
      PROVE  /\ ~(Fields[type][field].ref /\ How(type, field) = "assign")
             /\ How(type, field) \notin {"into", "newInto"} =>
                  Memory[Fields[type][field].type] = {}
  BY FieldsBelow, NoMemory DEF Renewed
<1>2. \A field : Below(field, {}) = {}
  BY DEF Below
<1> QED
  BY <1>1, <1>2 DEF SharedOf

LEMMA SharedDefined == Shared = SharedOf(Shared)
<1> DEFINE h == [type \in DOMAIN Fields |-> {}]
<1>1. \A type \in DOMAIN Fields : SharedOf(h)[type] = {}
  BY NothingSharedAbove, FieldsBelow
<1>2. h = SharedOf(h)
  BY <1>1 DEF SharedOf
<1>3. \E g : g = SharedOf(g)
  BY <1>2
<1> QED
  BY <1>3 DEF Shared, SharedOf, How

(* zz_generated.deepcopy.go is up to date with types.go: no DeepCopy of an *)
(* API type has memory in common with its original, at whatever depth.     *)
THEOREM CopiesShareNothing == \A type \in DOMAIN Fields : Shared[type] = {}
<1> DEFINE Upto(n) == \A type \in DOMAIN Fields : Rank[type] < n => Shared[type] = {}
<1>1. Upto(0)
  BY Ranks
<1>2. ASSUME NEW n \in Nat, Upto(n) PROVE Upto(n + 1)
  <2> SUFFICES ASSUME NEW type \in DOMAIN Fields, Rank[type] < n + 1
               PROVE  Shared[type] = {}
    OBVIOUS
  <2>1. \A field \in DOMAIN Fields[type] : Shared[Fields[type][field].type] = {}
    BY <1>2, FieldsBelow
  <2> QED
    BY <2>1, NothingSharedAbove, SharedDefined
<1>3. Upto(6)
  <2> HIDE DEF Upto
  <2>1. Upto(0 + 1)
    BY <1>1, <1>2
  <2>2. Upto(1 + 1)
    BY <2>1, <1>2
  <2>3. Upto(2 + 1)
    BY <2>2, <1>2
  <2>4. Upto(3 + 1)
    BY <2>3, <1>2
  <2>5. Upto(4 + 1)
    BY <2>4, <1>2
  <2>6. Upto(5 + 1)
    BY <2>5, <1>2
  <2> QED
    BY <2>6
<1> QED
  BY <1>3, Ranks

-----------------------------------------------------------------------------

(* What every object on its way to the index satisfies: its status digest  *)
(* is the one of the version that was written for it.                      *)
Sound(o) ==
  o # None => o \in Object /\ (o.version # None => o.version[2] = o.digest)

(* The index is that of the stored objects, as they were delivered. *)
Indexed ==
  \A c \in Component : \A key, value :
    <<key, value, c>> \in index <=> <<key, value, c>> \in Entries(c, store[c])

CacheInv ==
  /\ TypeOK
  /\ \A c \in Component : Sound(components[c]) /\ Sound(store[c])
  /\ Indexed

LEMMA ReadType ==
  ASSUME NEW c \in Component, NEW o \in Object
  PROVE  /\ o.spec.sourceRef[1] \in Kind
         /\ o.spec.sourceRef[1] # "HttpRepository" =>
              /\ o.spec.sourceRef[1] \in ObjectKind
              /\ WithDefaultNamespace(o.spec.sourceRef[2], c[1]) \in Key
              /\ SourceRead(c, o) =
                   <<o.spec.sourceRef[1], WithDefaultNamespace(o.spec.sourceRef[2], c[1])>>
         /\ SourceRead(c, o)[1] = o.spec.sourceRef[1]
<1>1. c[1] \in Namespace
  BY CacheAssumption DEF Key
<1>2. o.spec.sourceRef \in SourceReference
  BY DEF Object, ComponentSpec
<1>3. CASE o.spec.sourceRef \in ObjectKind \X NamespacedName
  <2>1. WithDefaultNamespace(o.spec.sourceRef[2], c[1]) \in Key
    BY <1>1, <1>3 DEF WithDefaultNamespace, NamespacedName, Key
  <2>2. o.spec.sourceRef[1] \in ObjectKind /\ o.spec.sourceRef[1] # "HttpRepository"
    BY <1>3 DEF ObjectKind, FluxKind
  <2> QED
    BY <2>1, <2>2 DEF SourceRead, Kind
<1>4. CASE o.spec.sourceRef \in {"HttpRepository"} \X Url
  BY <1>4 DEF SourceRead, Kind
<1> QED
  BY <1>2, <1>3, <1>4 DEF SourceReference

(* What an object has in the indices. *)
LEMMA EntriesOf ==
  ASSUME NEW c \in Component, NEW o \in Object, NEW key, NEW value
  PROVE  /\ \A d \in Component :
              <<key, value, d>> \in Entries(c, o) => d = c
         /\ <<key, value, c>> \in Entries(c, o) <=>
              \/ key = "sourceType" /\ value \in IndexBySourceType(o)
              \/ key = "dependencies" /\ value \in DependenciesRead(c, o)
              \/ /\ key = "BlueprintVersion"
                 /\ o.spec.sourceRef[1] = "Blueprint" /\ o.digest # None
                 /\ value = <<WithDefaultNamespace(o.spec.sourceRef[2], c[1]), o.digest>>
              \/ /\ key \in ObjectKind
                 /\ o.spec.sourceRef[1] = key
                 /\ value = WithDefaultNamespace(o.spec.sourceRef[2], c[1])
<1>1. o # None
  BY CacheAssumption
<1>2. IndexByDependencies(c, o) = DependenciesRead(c, o)
  BY DEF IndexByDependencies, DependenciesRead
<1>4. ASSUME NEW kind
      PROVE  value \in IndexByReference(kind, c, o) <=>
               /\ o.spec.sourceRef[1] = kind
               /\ value = WithDefaultNamespace(o.spec.sourceRef[2], c[1])
  BY DEF IndexByReference
<1>5. value \in IndexByBlueprintVersion(c, o) <=>
        /\ o.spec.sourceRef[1] = "Blueprint" /\ o.digest # None
        /\ value = <<WithDefaultNamespace(o.spec.sourceRef[2], c[1]), o.digest>>
  BY DEF IndexByBlueprintVersion
<1> QED
  BY <1>1, <1>2, <1>4, <1>5 DEF Entries

-----------------------------------------------------------------------------

LEMMA CacheInit == Init => CacheInv
BY DEF Init, CacheInv, TypeOK, Sound, Indexed, Entries

(* A write to a component's object at the API server. *)
LEMMA RequestKeeps ==
  ASSUME CacheInv, NEW c \in Component, NEW o \in Object \cup {None}, Sound(o),
         components' = [components EXCEPT ![c] = o], Request
  PROVE  CacheInv'
<1>1. TypeOK'
  BY DEF CacheInv, TypeOK, Request
<1> QED
  BY <1>1 DEF CacheInv, TypeOK, Request, Indexed, Sound

LEMMA InformKeeps ==
  ASSUME CacheInv, NEW c \in Component, Inform(c)
  PROVE  CacheInv'
<1>1. /\ store' = [store EXCEPT ![c] = components[c]]
      /\ index' = (index \ Entries(c, store[c])) \cup Entries(c, components[c])
      /\ components' = components
  BY DEF Inform, CacheInv
<1>2. ASSUME NEW d \in Component, NEW key, NEW value
      PROVE  <<key, value, d>> \in index' <=>
               <<key, value, d>> \in Entries(d, store'[d])
  <2>1. CASE d = c
    BY <1>1, <2>1 DEF CacheInv, TypeOK, Indexed
  <2>2. CASE d # c
    <3>1. ASSUME NEW o \in Object \cup {None}
          PROVE  <<key, value, d>> \notin Entries(c, o)
      BY <2>2, EntriesOf DEF Entries
    <3> QED
      BY <1>1, <2>2, <3>1 DEF CacheInv, TypeOK, Indexed
  <2> QED
    BY <2>1, <2>2
<1>3. \A o \in Object \cup {None} : \A entry \in Entries(c, o) : entry[3] = c
  BY DEF Entries
<1>4. TypeOK'
  BY <1>1, <1>3 DEF CacheInv, TypeOK, Inform
<1> QED
  BY <1>1, <1>2, <1>4 DEF CacheInv, TypeOK, Indexed, Sound

LEMMA CacheNext ==
  ASSUME CacheInv, [Next]_vars
  PROVE  CacheInv'
<1> USE CacheAssumption
<1> USE DEF TypeOK
<1>1. ASSUME NEW c \in Component, NEW spec \in Specs[c], Create(c, spec)
      PROVE  CacheInv'
  <2> DEFINE o == [spec |-> spec, digest |-> None, version |-> None]
  <2>1. o \in Object /\ Sound(o)
    BY DEF Object, Sound
  <2> QED
    BY <1>1, <2>1, RequestKeeps DEF Create
<1>2. ASSUME NEW c \in Component, NEW spec \in Specs[c], Edit(c, spec)
      PROVE  CacheInv'
  <2> DEFINE o == [components[c] EXCEPT !.spec = spec]
  <2>1. components[c] \in Object
    BY <1>2 DEF Edit, CacheInv
  <2>2. o \in Object /\ Sound(o)
    BY <1>2, <2>1 DEF Object, Sound, CacheInv, Edit
  <2>3. components' = [components EXCEPT ![c] = o]
    BY <1>2 DEF Edit
  <2> QED
    BY <1>2, <2>2, <2>3, RequestKeeps DEF Edit
<1>3. ASSUME NEW c \in Component, Delete(c) PROVE CacheInv'
  BY <1>3, RequestKeeps DEF Delete, Sound
<1>4. ASSUME NEW c \in Component, NEW digest \in Digest, Load(c, digest)
      PROVE  CacheInv'
  <2> DEFINE read == SourceRead(c, components[c])
             version == IF read[1] = "Blueprint" THEN <<read[2], digest>> ELSE None
             o == [components[c] EXCEPT !.digest = digest, !.version = version]
  <2>1. components[c] \in Object
    BY <1>4 DEF Load, CacheInv
  <2>2. version # None => version \in Key \X Digest /\ version[2] = digest
    BY <2>1, ReadType
  <2>3. o \in Object /\ Sound(o)
    BY <2>1, <2>2 DEF Object, Sound
  <2>4. components' = [components EXCEPT ![c] = o]
    BY <1>4, <2>1 DEF Load, CacheInv, Object
  <2> QED
    BY <1>4, <2>3, <2>4, RequestKeeps DEF Load
<1>5. ASSUME NEW c \in Component, Inform(c) PROVE CacheInv'
  BY <1>5, InformKeeps
<1>6. CASE UNCHANGED vars
  BY <1>6 DEF vars, CacheInv, Indexed
<1> QED
  BY <1>1, <1>2, <1>3, <1>4, <1>5, <1>6 DEF Next

-----------------------------------------------------------------------------

(* What the index answers about one component. *)
LEMMA Answers ==
  ASSUME CacheInv, NEW c \in Component, NEW key, NEW value
  PROVE  /\ store[c] = None => c \notin Matching(key, value)
         /\ store[c] # None =>
              (c \in Matching(key, value) <=>
                 <<key, value, c>> \in Entries(c, store[c]))
BY DEF CacheInv, Indexed, Matching, Entries

LEMMA InvReaders == CacheInv => ReadersFound
<1> SUFFICES ASSUME CacheInv, NEW c \in Component PROVE ReadersFound!(c)
  BY DEF ReadersFound
<1> USE CacheAssumption
<1> DEFINE read == IF store[c] = None THEN <<None, None>> ELSE SourceRead(c, store[c])
<1>1. CASE store[c] = None
  <2>1. read = <<None, None>> /\ None \notin Kind
    BY <1>1
  <2>2. \A key, value : c \notin Matching(key, value)
    BY <1>1, Answers
  <2> QED
    BY <2>1, <2>2 DEF Has, Kind, ObjectKind
<1>2. CASE store[c] # None
  <2> DEFINE o == store[c]
             kindOf == o.spec.sourceRef[1]
  <2>1. o \in Object
    BY <1>2 DEF CacheInv, TypeOK
  <2>2. kindOf \in Kind /\ read[1] = kindOf
    BY <1>2, <2>1, ReadType
  <2>3. \A kind \in ObjectKind, key \in Key :
          c \in Matching(kind, key) <=> read = <<kind, key>>
    <3> SUFFICES ASSUME NEW kind \in ObjectKind, NEW key \in Key
                 PROVE  c \in Matching(kind, key) <=> read = <<kind, key>>
      OBVIOUS
    <3>1. kind \notin {"sourceType", "dependencies", "BlueprintVersion", "HttpRepository"}
      BY DEF ObjectKind, FluxKind
    <3>2. c \in Matching(kind, key) <=>
            kindOf = kind /\ key = WithDefaultNamespace(o.spec.sourceRef[2], c[1])
      <4>1. c \in Matching(kind, key) <=> <<kind, key, c>> \in Entries(c, o)
        BY <1>2, Answers
      <4>2. <<kind, key, c>> \in Entries(c, o) <=>
              kindOf = kind /\ key = WithDefaultNamespace(o.spec.sourceRef[2], c[1])
        BY <2>1, <3>1, EntriesOf
      <4> QED
        BY <4>1, <4>2
    <3>3. kindOf = kind => read = <<kind, WithDefaultNamespace(o.spec.sourceRef[2], c[1])>>
      BY <1>2, <2>1, <3>1, ReadType
    <3> QED
      BY <2>2, <3>2, <3>3
  <2>4. \A type : c \in Has(type) <=> type \in IndexBySourceType(o)
    <3>1. "sourceType" \notin ObjectKind
      BY DEF ObjectKind, FluxKind
    <3> SUFFICES ASSUME NEW type
                 PROVE  c \in Has(type) <=> type \in IndexBySourceType(o)
      OBVIOUS
    <3>2. c \in Has(type) <=> <<"sourceType", type, c>> \in Entries(c, o)
      BY <1>2, Answers DEF Has
    <3>3. <<"sourceType", type, c>> \in Entries(c, o) <=> type \in IndexBySourceType(o)
      BY <2>1, <3>1, EntriesOf
    <3> QED
      BY <3>2, <3>3
  <2>5. \A kind \in Kind : c \in Has(kind) <=> read[1] = kind
    <3>1. "FluxSource" \notin Kind
      BY DEF Kind, ObjectKind, FluxKind
    <3> QED
      BY <2>2, <2>4, <3>1 DEF IndexBySourceType
  <2>6. c \in Has("FluxSource") <=> read[1] \in FluxKind
    <3>1. "FluxSource" \notin Kind
      BY DEF Kind, ObjectKind, FluxKind
    <3> QED
      BY <2>2, <2>4, <3>1 DEF IndexBySourceType
  <2> HIDE DEF read
  <2> QED
    BY <2>3, <2>5, <2>6 DEF read
<1> QED
  BY <1>1, <1>2

LEMMA InvDependents == CacheInv => DependentsFound
<1> SUFFICES ASSUME CacheInv, NEW c \in Component PROVE DependentsFound!(c)
  BY DEF DependentsFound
<1> USE CacheAssumption
<1> DEFINE read == IF store[c] = None THEN {} ELSE DependenciesRead(c, store[c])
<1>1. ASSUME NEW d \in Key
      PROVE  c \in Matching("dependencies", d) <=> d \in read
  <2>1. "dependencies" \notin ObjectKind
    BY DEF ObjectKind, FluxKind
  <2>2. CASE store[c] = None
    BY <2>2, Answers
  <2>3. CASE store[c] # None
    <3>1. store[c] \in Object
      BY <2>3 DEF CacheInv, TypeOK
    <3> QED
      BY <2>1, <2>3, <3>1, Answers, EntriesOf
  <2> QED
    BY <2>2, <2>3
<1>2. ASSUME store[c] # None PROVE QueuedByDelete(c) = read
  <2>1. store[c] \in Object
    BY <1>2 DEF CacheInv, TypeOK
  <2>2. ASSUME NEW dependency \in store[c].spec.dependencies
        PROVE  <<WithDefaultNamespace(dependency, c[1])[1], dependency[2]>> =
                 WithDefaultNamespace(dependency, c[1])
    <3>1. dependency \in NamespacedName
      BY <2>1, <2>2 DEF Object, ComponentSpec
    <3> QED
      BY <3>1 DEF NamespacedName, WithDefaultNamespace
  <2> QED
    BY <1>2, <2>2 DEF QueuedByDelete, DependenciesRead
<1> HIDE DEF read
<1> QED
  BY <1>1, <1>2 DEF read

LEMMA InvVersions == CacheInv => VersionsKept
<1> SUFFICES ASSUME CacheInv, NEW c \in Component, store[c] # None,
                    store[c].version # None,
                    SourceRead(c, store[c]) = <<"Blueprint", store[c].version[1]>>
             PROVE  c \in Matching("BlueprintVersion", store[c].version)
  BY DEF VersionsKept
<1> DEFINE o == store[c]
<1>1. o \in Object /\ o.version[2] = o.digest
  BY DEF CacheInv, Sound
<1>2. o.version \in Key \X Digest
  BY <1>1 DEF Object
<1>3. o.spec.sourceRef[1] = "Blueprint"
  BY <1>1, ReadType
<1>4. WithDefaultNamespace(o.spec.sourceRef[2], c[1]) = o.version[1]
  BY <1>1, <1>3, ReadType
<1>5. o.version = <<o.version[1], o.digest>> /\ o.digest # None
  BY <1>1, <1>2, CacheAssumption
<1>6. <<"BlueprintVersion", o.version, c>> \in Entries(c, o)
  <2>1. o.version = <<WithDefaultNamespace(o.spec.sourceRef[2], c[1]), o.digest>>
    BY <1>4, <1>5
  <2> HIDE DEF o
  <2> QED
    BY <1>1, <1>3, <1>5, <2>1, EntriesOf
<1> QED
  BY <1>6, Answers

LEMMA CacheInvariant == Spec => []CacheInv
BY CacheInit, CacheNext, PTL DEF Spec

(* Every reachable state of the cache is well typed. *)
THEOREM CacheTypeCorrect == Spec => []TypeOK
<1>1. CacheInv => TypeOK
  BY DEF CacheInv
<1> QED
  BY <1>1, CacheInvariant, PTL

(* The index answers event handlers and the repository checker with the    *)
(* components that read the source, and with no others.                    *)
THEOREM CacheFindsReaders == Spec => []ReadersFound
BY InvReaders, CacheInvariant, PTL

(* A component is found by exactly the dependencies its hook waits for, in *)
(* the index and in its own delete event.                                  *)
THEOREM CacheFindsDependents == Spec => []DependentsFound
BY InvDependents, CacheInvariant, PTL

(* The blueprint controller finds the users of a BlueprintVersion by the   *)
(* name under which Load wrote it.                                         *)
THEOREM CacheKeepsVersions == Spec => []VersionsKept
BY InvVersions, CacheInvariant, PTL
=============================================================================
