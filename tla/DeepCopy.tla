------------------------------ MODULE DeepCopy ------------------------------
(***************************************************************************)
(* The generated copies of the API types: which memory a DeepCopy shares   *)
(* with its original. A type is described twice: by its declaration in     *)
(* types.go, as far as it holds memory of its own (pointers, slices, maps, *)
(* other structs; scalars are left out), and by its DeepCopyInto in        *)
(* zz_generated.deepcopy.go, which is generated from an earlier state of   *)
(* the declaration and copies every field it does not name by assignment.  *)
(* A DeepCopy, and a DeepCopyObject, is DeepCopyInto into a new struct.    *)
(*                                                                         *)
(* Types of other packages are "deep" (they hold memory, and their own     *)
(* DeepCopyInto renews it) or "flat" (they hold none).                     *)
(***************************************************************************)
EXTENDS Sequences

(* How a field holds a type: in the struct itself, or behind a pointer,    *)
(* slice or map.                                                           *)
Value(type) == [ref |-> FALSE, type |-> type]
Ref(type) == [ref |-> TRUE, type |-> type]

NoFields == [field \in {} |-> Value("flat")]

-----------------------------------------------------------------------------
(* The declarations of api/v1alpha1/types.go *)

ComponentSpecFields ==
  [PlacementSpec |-> Value("flat"), ClientSpec |-> Value("deep"),
   ImpersonationSpec |-> Value("flat"), SuspensionSpec |-> Value("flat"),
   RequeueSpec |-> Value("deep"), RetrySpec |-> Value("deep"),
   TimeoutSpec |-> Value("deep"), PolicySpec |-> Value("flat"),
   TypeSpec |-> Value("deep"), ReapplySpec |-> Value("deep"),
   SourceRef |-> Value("SourceReference"), Values |-> Ref("deep"),
   ValuesFrom |-> Ref("deep"), Decryption |-> Ref("Decryption"),
   PostBuild |-> Ref("PostBuild"), Dependencies |-> Ref("Dependency")]

SourceReferenceFields ==
  [Blueprint |-> Ref("BlueprintReference"), HttpRepository |-> Ref("HttpRepository"),
   FluxGitRepository |-> Ref("FluxReference"),
   FluxOciRepository |-> Ref("FluxReference"),
   FluxBucket |-> Ref("FluxReference"), FluxHelmChart |-> Ref("FluxReference"),
   artifact |-> Value("Artifact")]

(* BlueprintReference, the references to flux objects (FluxReference       *)
(* stands for the four of them) and Dependency.                            *)
ReferenceFields == [NamespacedName |-> Value("NamespacedName")]

DecryptionFields == [SecretRef |-> Value("deep")]

PostBuildFields ==
  [Substitute |-> Ref("flat"), SubstituteFrom |-> Ref("deep"),
   Patches |-> Ref("deep"), Images |-> Ref("flat")]

ComponentStatusFields ==
  [Status |-> Value("deep"), SourceRef |-> Ref("SourceReferenceStatus")]

SourceReferenceStatusFields == [Artifact |-> Value("Artifact")]

ComponentFields ==
  [ObjectMeta |-> Value("deep"), Spec |-> Value("ComponentSpec"),
   Status |-> Value("ComponentStatus")]

BlueprintSpecFields == [Files |-> Ref("flat")]

BlueprintFields == [ObjectMeta |-> Value("deep"), Spec |-> Value("BlueprintSpec")]

BlueprintVersionSpecFields == [BlueprintSpec |-> Value("BlueprintSpec")]

BlueprintVersionFields ==
  [ObjectMeta |-> Value("deep"), Spec |-> Value("BlueprintVersionSpec")]

ListFields(item) == [ListMeta |-> Value("deep"), Items |-> Ref(item)]

Fields ==
  [Component |-> ComponentFields, ComponentSpec |-> ComponentSpecFields,
   ComponentStatus |-> ComponentStatusFields,
   SourceReference |-> SourceReferenceFields,
   SourceReferenceStatus |-> SourceReferenceStatusFields,
   Decryption |-> DecryptionFields, PostBuild |-> PostBuildFields,
   BlueprintReference |-> ReferenceFields, FluxReference |-> ReferenceFields,
   Dependency |-> ReferenceFields, NamespacedName |-> NoFields,
   HttpRepository |-> NoFields, Artifact |-> NoFields,
   Blueprint |-> BlueprintFields, BlueprintSpec |-> BlueprintSpecFields,
   BlueprintVersion |-> BlueprintVersionFields,
   BlueprintVersionSpec |-> BlueprintVersionSpecFields,
   ComponentList |-> ListFields("Component"),
   BlueprintList |-> ListFields("Blueprint"),
   BlueprintVersionList |-> ListFields("BlueprintVersion"),
   deep |-> [memory |-> Ref("flat")], flat |-> NoFields]

-----------------------------------------------------------------------------
(* The generated DeepCopyInto functions. "into": the DeepCopyInto of the   *)
(* field; "new": new memory, its contents assigned; "newInto": new memory, *)
(* its contents copied by their DeepCopyInto. Not named: assigned.         *)

Assigned == [field \in {} |-> "into"]

ArtifactDeepCopy == Assigned
BlueprintDeepCopy == [ObjectMeta |-> "into", Spec |-> "into"]
BlueprintListDeepCopy == [ListMeta |-> "into", Items |-> "newInto"]
BlueprintReferenceDeepCopy == Assigned

BlueprintSpecDeepCopy == [Files |-> "new"]
BlueprintVersionDeepCopy == [ObjectMeta |-> "into", Spec |-> "into"]
BlueprintVersionListDeepCopy == [ListMeta |-> "into", Items |-> "newInto"]
BlueprintVersionSpecDeepCopy == [BlueprintSpec |-> "into"]
ComponentDeepCopy == [ObjectMeta |-> "into", Spec |-> "into", Status |-> "into"]
ComponentListDeepCopy == [ListMeta |-> "into", Items |-> "newInto"]

ComponentSpecDeepCopy ==
  [ClientSpec |-> "into", RequeueSpec |-> "into", RetrySpec |-> "into",
   TimeoutSpec |-> "into", TypeSpec |-> "into", ReapplySpec |-> "into",
   SourceRef |-> "into", Values |-> "newInto", ValuesFrom |-> "newInto",
   Decryption |-> "newInto", PostBuild |-> "newInto", Dependencies |-> "new"]

ComponentStatusDeepCopy == [Status |-> "into", SourceRef |-> "new"]
DecryptionDeepCopy == [SecretRef |-> "into"]

DependencyDeepCopy == Assigned
FluxReferenceDeepCopy == Assigned
HttpRepositoryDeepCopy == Assigned
NamespacedNameDeepCopy == Assigned

PostBuildDeepCopy ==
  [Substitute |-> "new", SubstituteFrom |-> "newInto",
   Patches |-> "newInto", Images |-> "new"]

SourceReferenceDeepCopy ==
  [Blueprint |-> "new", HttpRepository |-> "new", FluxGitRepository |-> "new",
   FluxOciRepository |-> "new", FluxBucket |-> "new", FluxHelmChart |-> "new"]

SourceReferenceStatusDeepCopy == Assigned

DeepCopyInto ==
  [Component |-> ComponentDeepCopy, ComponentSpec |-> ComponentSpecDeepCopy,
   ComponentStatus |-> ComponentStatusDeepCopy,
   SourceReference |-> SourceReferenceDeepCopy,
   SourceReferenceStatus |-> SourceReferenceStatusDeepCopy,
   Decryption |-> DecryptionDeepCopy, PostBuild |-> PostBuildDeepCopy,
   BlueprintReference |-> BlueprintReferenceDeepCopy,
   FluxReference |-> FluxReferenceDeepCopy, Dependency |-> DependencyDeepCopy,
   NamespacedName |-> NamespacedNameDeepCopy,
   HttpRepository |-> HttpRepositoryDeepCopy, Artifact |-> ArtifactDeepCopy,
   Blueprint |-> BlueprintDeepCopy, BlueprintSpec |-> BlueprintSpecDeepCopy,
   BlueprintVersion |-> BlueprintVersionDeepCopy,
   BlueprintVersionSpec |-> BlueprintVersionSpecDeepCopy,
   ComponentList |-> ComponentListDeepCopy,
   BlueprintList |-> BlueprintListDeepCopy,
   BlueprintVersionList |-> BlueprintVersionListDeepCopy,
   deep |-> [memory |-> "new"], flat |-> Assigned]

-----------------------------------------------------------------------------
(* Memory is named by the path of fields that leads to it from a struct. *)

Below(field, paths) == {<<field>> \o path : path \in paths}

(* All the memory that belongs to a struct of the type. *)
Memory[type \in DOMAIN Fields] ==
  UNION {Below(field, Memory[Fields[type][field].type]) \cup
           (IF Fields[type][field].ref THEN {<<field>>} ELSE {}) :
         field \in DOMAIN Fields[type]}

(* The memory a copy has in common with its original. *)
Shared[type \in DOMAIN Fields] ==
  LET held(field) == Fields[type][field]
      how(field) == IF field \in DOMAIN DeepCopyInto[type]
                      THEN DeepCopyInto[type][field] ELSE "assign"
  IN  UNION {(IF held(field).ref /\ how(field) = "assign" THEN {<<field>>} ELSE {})
               \cup Below(field, IF how(field) \in {"into", "newInto"}
                                   THEN Shared[held(field).type]
                                   ELSE Memory[held(field).type]) :
             field \in DOMAIN Fields[type]}
=============================================================================
