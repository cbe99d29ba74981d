---------------------------- MODULE FactoryProofs ----------------------------
(***************************************************************************)
(* Where every archive has a url of its own (flux, blueprints, an http     *)
(* repository that redirects), the factory serves what the digest says,    *)
(* and what the settings say in any case, for every number of components,  *)
(* contents and settings.                                                  *)
(***************************************************************************)
EXTENDS GeneratorFactory, TLAPS

Loading == [pc : {"head"}, url : Url, digest : {None}, setting : Setting]
Generating == [pc : {"lock", "held"}, url : Url, digest : Content, setting : Setting]

LEMMA FactoryInitType == Init => TypeOK
BY FactoryAssumption DEF Init, TypeOK, IdleWorker, NotGenerated

(* What is opened is a generator of this content, and fits the settings.   *)
LEMMA OpenedFits ==
  ASSUME NEW x \in Content, NEW s \in Setting,
         NEW format \in DetectFormatFromMarkerBytes(x),
         NEW generator \in Opened(x, s, format)
  PROVE  /\ generator \in Generators
         /\ generator.content = x
         /\ FitsSetting(generator, s)
<1> USE FactoryAssumption, DecryptionAssumption
<1>1. PICK decryptor \in Decryptors(s.provider, s.keys) :
        /\ s.path \in Paths[x]
        /\ \E text \in DecryptDirectory(x, format, decryptor) :
             generator = [content |-> x, path |-> s.path, text |-> text]
  BY DEF Opened
<1>2. PICK text \in DecryptDirectory(x, format, decryptor) :
        generator = [content |-> x, path |-> s.path, text |-> text]
  BY <1>1
<1>3. \/ decryptor = None /\ s.keys = {}
      \/ decryptor # None /\ decryptor \subseteq s.keys
  BY DEF Decryptors, NewSopsDecryptor
<1>4. \/ text = "input" /\ (decryptor = None \/ format = None)
      \/ text = "plain" /\ decryptor # None /\ Recipients[x] \cap decryptor # {}
  BY DEF DecryptDirectory, Decrypt, SopsDecryptWithFormat, DataKeys
<1>5. format = None => Recipients[x] = {}
  BY DEF DetectFormatFromMarkerBytes
<1> QED
  BY <1>1, <1>2, <1>3, <1>4, <1>5 DEF FitsSetting, Generators

(* What Return leaves behind. *)
LEMMA ReturnType ==
  ASSUME TypeOK, NEW c \in Component, NEW generator \in Generators,
         worker[c].pc = "held", Return(c, generator)
  PROVE  /\ worker' \in [Component -> {IdleWorker} \cup Loading \cup Generating]
         /\ mutex' \in Component \cup {None}
         /\ \A d \in Component : worker'[d].pc = "held" <=> mutex' = d
         /\ generated' \in [Component -> {NotGenerated} \cup
              [digest : Content, setting : Setting, from : Generators]]
<1>1. worker[c].digest \in Content /\ worker[c].setting \in Setting
  BY DEF TypeOK, IdleWorker
<1> QED
  BY <1>1, FactoryAssumption DEF TypeOK, Return, Unlock, IdleWorker, Loading, Generating

LEMMA HeldType ==
  ASSUME TypeOK, NEW c \in Component, worker[c].pc = "held"
  PROVE  worker[c] \in Generating /\ worker[c] # IdleWorker /\ Id(c) \in Ids
         /\ Archive(worker[c].url) \subseteq Content
BY DEF TypeOK, IdleWorker, Generating, Id, Ids, Archive

LEMMA FactoryNextType == TypeOK /\ [Next]_vars => TypeOK'
<1> SUFFICES ASSUME TypeOK, [Next]_vars PROVE TypeOK'
  OBVIOUS
<1> USE FactoryAssumption
<1>1. ASSUME NEW x \in Content, Publish(x) PROVE TypeOK'
  BY <1>1 DEF TypeOK, Publish
<1>2. ASSUME NEW x \in Content, Collect(x) PROVE TypeOK'
  BY <1>2 DEF TypeOK, Collect
<1>3. ASSUME NEW c \in Component, NEW s \in Choices[c], Change(c, s) PROVE TypeOK'
  <2>1. s \in Setting
    OBVIOUS
  <2> QED
    BY <1>3, <2>1 DEF TypeOK, Change
<1>4. ASSUME NEW c \in Component, Begin(c) PROVE TypeOK'
  BY <1>4 DEF TypeOK, Begin, IdleWorker
<1>5. ASSUME NEW c \in Component, Follow(c) PROVE TypeOK'
  <2>1. worker[c] \in Loading
    BY <1>5 DEF TypeOK, Follow, IdleWorker, Loading
  <2>2. Target[worker[c].url][offered] \in Url
    BY <1>5, <2>1 DEF TypeOK, Follow, Followed, Redirected, Loading
  <2>3. worker' = [worker EXCEPT ![c].url = Target[worker[c].url][offered]]
    BY <1>5 DEF Follow, TypeOK
  <2>4. [worker[c] EXCEPT !.url = Target[worker[c].url][offered]] \in Loading
    BY <2>1, <2>2 DEF Loading
  <2>5. /\ worker' \in [Component -> {IdleWorker} \cup Loading \cup Generating]
        /\ \A d \in Component : worker'[d].pc = worker[d].pc
    BY <2>1, <2>3, <2>4 DEF TypeOK, Loading, Generating
  <2> QED
    BY <1>5, <2>5 DEF TypeOK, Follow, Loading, Generating
<1>6. ASSUME NEW c \in Component, Load(c) PROVE TypeOK'
  <2>1. worker[c] \in Loading
    BY <1>6 DEF TypeOK, Load, IdleWorker, Loading
  <2>2. PICK x \in Digests(worker[c].url) :
          worker' = [worker EXCEPT ![c] =
            [pc |-> "lock", url |-> ArchiveUrl(worker[c].url), digest |-> x,
             setting |-> worker[c].setting]]
    BY <1>6 DEF Load
  <2>3. x \in Content /\ ArchiveUrl(worker[c].url) \in Url /\ worker[c].setting \in Setting
    BY <2>1 DEF Digests, Archive, ArchiveUrl, Redirected, TypeOK, Loading
  <2> QED
    BY <1>6, <2>1, <2>2, <2>3 DEF TypeOK, Load, Loading
<1>7. ASSUME NEW c \in Component, LoadFails(c) PROVE TypeOK'
  BY <1>7 DEF TypeOK, LoadFails, IdleWorker
<1>8. ASSUME NEW c \in Component, Lock(c) PROVE TypeOK'
  <2>1. worker[c] \in Generating
    BY <1>8 DEF TypeOK, Lock, IdleWorker, Generating
  <2> QED
    BY <1>8, <2>1 DEF TypeOK, Lock, Generating
<1>9. ASSUME NEW c \in Component, GetItem(c) PROVE TypeOK'
  <2>1. PICK generator \in Found(Id(c)) : Return(c, generator)
    BY <1>9 DEF GetItem
  <2>2. generator \in Generators
    BY <1>9, <2>1, HeldType DEF GetItem, Found, TypeOK
  <2> QED
    BY <1>9, <2>1, <2>2, ReturnType DEF TypeOK, GetItem, Loading, Generating
<1>10. ASSUME NEW c \in Component, Download(c) PROVE TypeOK'
  <2>1. PICK x \in Archive(worker[c].url) :
        \E format \in DetectFormatFromMarkerBytes(x) :
        \E made \in Opened(x, worker[c].setting, format) :
          /\ items' = [items EXCEPT ![Id(c)] = made]
          /\ Return(c, made)
    BY <1>10 DEF Download
  <2>2. PICK generator \in Generators :
          /\ items' = [items EXCEPT ![Id(c)] = generator]
          /\ Return(c, generator)
    BY <1>10, <2>1, HeldType, OpenedFits DEF Download, Generating
  <2>3. items' \in [Ids -> Generators \cup {None}]
    BY <2>2 DEF TypeOK
  <2> QED
    BY <1>10, <2>2, <2>3, ReturnType DEF TypeOK, Download, Loading, Generating
<1>11. ASSUME NEW c \in Component, DownloadFails(c) PROVE TypeOK'
  BY <1>11 DEF TypeOK, DownloadFails, Unlock, IdleWorker
<1>12. ASSUME NEW id \in Ids, Evict(id) PROVE TypeOK'
  BY <1>12 DEF TypeOK, Evict
<1>13. CASE UNCHANGED vars
  BY <1>13 DEF TypeOK, vars
<1> QED
  BY <1>1, <1>2, <1>3, <1>4, <1>5, <1>6, <1>7, <1>8, <1>9, <1>10, <1>11, <1>12, <1>13
     DEF Next, GetArtifact, GetGenerator

(* The types of repository, factory and workers hold for all constants.    *)
THEOREM FactoryTypeCorrect == Spec => []TypeOK
BY FactoryInitType, FactoryNextType, PTL DEF Spec

-----------------------------------------------------------------------------

(* An item was opened with the settings its id names. *)
FittingInv ==
  /\ \A id \in Ids : items[id] # None => FitsSetting(items[id], id[3])
  /\ GeneratedAsSet

(* Return keeps the invariant when the generator fits the worker's         *)
(* settings.                                                               *)
LEMMA ReturnFits ==
  ASSUME TypeOK, GeneratedAsSet, NEW c \in Component, NEW generator,
         FitsSetting(generator, worker[c].setting), Return(c, generator)
  PROVE  GeneratedAsSet'
<1>1. generated' = [generated EXCEPT ![c] =
        [digest |-> worker[c].digest, setting |-> worker[c].setting, from |-> generator]]
  BY DEF Return
<1>2. ASSUME NEW d \in Component, generated'[d] # NotGenerated
      PROVE  FitsSetting(generated'[d].from, generated'[d].setting)
  <2>1. CASE d = c
    <3>1. generated'[d].from = generator /\ generated'[d].setting = worker[c].setting
      BY <1>1, <2>1 DEF TypeOK
    <3> QED
      BY <3>1
  <2>2. CASE d # c
    <3>1. generated'[d] = generated[d]
      BY <1>1, <2>2 DEF TypeOK
    <3> QED
      BY <1>2, <3>1 DEF GeneratedAsSet
  <2> QED
    BY <2>1, <2>2
<1> QED
  BY <1>2 DEF GeneratedAsSet, FitsSetting

(* Manifests are those of the component's own path and keys, decrypted if  *)
(* it has keys: sharing items between components, caching them past a      *)
(* change of keys and finding the format by chance do not show.            *)
THEOREM FactoryServesSettings == Spec => []GeneratedAsSet
<1> USE FactoryAssumption
<1>1. Init => FittingInv
  BY DEF Init, FittingInv, GeneratedAsSet
<1>2. TypeOK /\ FittingInv /\ [Next]_vars => FittingInv'
  <2> SUFFICES ASSUME TypeOK, FittingInv, [Next]_vars PROVE FittingInv'
    OBVIOUS
  <2> USE DEF FittingInv
  <2>1. ASSUME UNCHANGED <<items, generated>> PROVE FittingInv'
    BY <2>1 DEF GeneratedAsSet, FitsSetting
  <2>2. ASSUME NEW c \in Component, GetItem(c) PROVE FittingInv'
    <3>1. PICK generator \in Found(Id(c)) : Return(c, generator)
      BY <2>2 DEF GetItem
    <3>2. Id(c) \in Ids /\ Id(c)[3] = worker[c].setting
      BY <2>2, HeldType DEF GetItem, Id
    <3>3. FitsSetting(generator, worker[c].setting)
      BY <3>1, <3>2 DEF Found
    <3>4. GeneratedAsSet'
      BY <3>1, <3>3, ReturnFits
    <3>5. items' = items
      BY <2>2 DEF GetItem
    <3> QED
      BY <3>4, <3>5 DEF FitsSetting
  <2>3. ASSUME NEW c \in Component, Download(c) PROVE FittingInv'
    <3>1. Id(c) \in Ids /\ Id(c)[3] = worker[c].setting /\ worker[c].setting \in Setting
          /\ Archive(worker[c].url) \subseteq Content
      BY <2>3, HeldType DEF Download, Id, Generating
    <3>2. PICK x \in Archive(worker[c].url) :
          \E format \in DetectFormatFromMarkerBytes(x) :
          \E made \in Opened(x, worker[c].setting, format) :
            /\ items' = [items EXCEPT ![Id(c)] = made]
            /\ Return(c, made)
      BY <2>3 DEF Download
    <3>3. PICK generator :
            /\ FitsSetting(generator, worker[c].setting)
            /\ items' = [items EXCEPT ![Id(c)] = generator]
            /\ Return(c, generator)
      BY <3>1, <3>2, OpenedFits
    <3>4. GeneratedAsSet'
      BY <3>3, ReturnFits
    <3>5. ASSUME NEW id \in Ids, items'[id] # None PROVE FitsSetting(items'[id], id[3])
      <4>1. CASE id = Id(c)
        <5>1. items'[id] = generator
          BY <4>1, <3>3 DEF TypeOK
        <5> QED
          BY <5>1, <4>1, <3>1, <3>3
      <4>2. CASE id # Id(c)
        <5>1. items'[id] = items[id]
          BY <4>2, <3>3 DEF TypeOK
        <5> QED
          BY <5>1, <3>5
      <4> QED
        BY <4>1, <4>2
    <3> QED
      BY <3>4, <3>5 DEF FitsSetting
  <2>4. ASSUME NEW id \in Ids, Evict(id) PROVE FittingInv'
    <3>1. /\ \A other \in Ids : items'[other] \in {None, items[other]}
          /\ generated' = generated
      BY <2>4 DEF Evict, TypeOK
    <3>2. ASSUME NEW other \in Ids, items'[other] # None
          PROVE  FitsSetting(items'[other], other[3])
      <4>1. items'[other] = items[other]
        BY <3>1, <3>2
      <4> QED
        BY <4>1, <3>2
    <3> QED
      BY <3>1, <3>2 DEF GeneratedAsSet, FitsSetting
  <2> QED
    BY <2>1, <2>2, <2>3, <2>4
       DEF Next, Publish, Collect, Change, Begin, GetArtifact, Follow, Load, LoadFails,
           Lock, GetGenerator, DownloadFails, vars
<1> QED
  BY <1>1, <1>2, FactoryTypeCorrect, PTL DEF Spec, FittingInv

-----------------------------------------------------------------------------

(* A worker has loaded the url that belongs to its digest. *)
LoadedInv ==
  \A c \in Component : worker[c].pc \in {"lock", "held"} =>
    worker[c].url = Location[worker[c].digest]

FactoryInv == LoadedInv /\ DigestIdentifiesContent

(* Return keeps the invariant when the content is that of the digest. *)
LEMMA ReturnDigest ==
  ASSUME TypeOK, FactoryInv, NEW c \in Component, NEW generator \in Generators,
         generator.content = worker[c].digest, Return(c, generator)
  PROVE  /\ LoadedInv'
         /\ \A d \in Component : generated'[d] # NotGenerated =>
              generated'[d].from.content = generated'[d].digest
BY DEF TypeOK, FactoryInv, LoadedInv, DigestIdentifiesContent, Return, IdleWorker

(* The digest of an item or of a component's manifests is that of their    *)
(* content: no request of GetGenerator confuses two contents, when no      *)
(* archive is served under the repository's own url, and a redirect that   *)
(* tells a digest leads to its archive (CheckRedirect).                    *)
THEOREM FactoryServesDigest ==
  ASSUME \A x \in Content : Location[x] # Repository /\ Target[Repository][x] # None,
         \A pair \in Tells : Target[pair[1]][pair[2]] \in {None, Location[pair[2]]}
  PROVE  Spec => []DigestIdentifiesContent
<1> USE FactoryAssumption
<1>1. Init => FactoryInv
  BY DEF Init, FactoryInv, LoadedInv, DigestIdentifiesContent, IdleWorker, NotGenerated
<1>2. TypeOK /\ FactoryInv /\ [Next]_vars => FactoryInv'
  <2> SUFFICES ASSUME TypeOK, FactoryInv, [Next]_vars PROVE FactoryInv'
    OBVIOUS
  <2> USE DEF FactoryInv
  <2>1. ASSUME UNCHANGED <<items, worker, generated>> PROVE FactoryInv'
    BY <2>1 DEF LoadedInv, DigestIdentifiesContent
  <2>2. ASSUME NEW c \in Component, Begin(c) \/ Follow(c) \/ LoadFails(c) \/ DownloadFails(c)
        PROVE  FactoryInv'
    <3>1. /\ worker'[c].pc \in {"idle", "head"}
          /\ \A d \in Component \ {c} : worker'[d] = worker[d]
          /\ UNCHANGED <<items, generated>>
      BY <2>2 DEF Begin, Follow, LoadFails, DownloadFails, TypeOK, IdleWorker
    <3> QED
      BY <3>1 DEF LoadedInv, DigestIdentifiesContent
  <2>3. ASSUME NEW c \in Component, Load(c) PROVE FactoryInv'
    <3>1. PICK x \in Digests(worker[c].url) :
            worker' = [worker EXCEPT ![c] =
              [pc |-> "lock", url |-> ArchiveUrl(worker[c].url), digest |-> x,
               setting |-> worker[c].setting]]
      BY <2>3 DEF Load
    <3>2. offered \in Content
      BY DEF TypeOK
    <3>3. ArchiveUrl(worker[c].url) = Location[x]
      BY <3>1, <3>2 DEF ArchiveUrl, Digests, Redirected, Archive
    <3> QED
      BY <2>3, <3>1, <3>3 DEF TypeOK, Load, LoadedInv, DigestIdentifiesContent
  <2>4. ASSUME NEW c \in Component, Lock(c) PROVE FactoryInv'
    BY <2>4 DEF TypeOK, Lock, LoadedInv, DigestIdentifiesContent
  <2>5. ASSUME NEW c \in Component, GetItem(c) PROVE FactoryInv'
    <3>1. PICK generator \in Found(Id(c)) : Return(c, generator)
      BY <2>5 DEF GetItem
    <3>2. generator \in Generators /\ generator.content = worker[c].digest
      BY <2>5, <3>1, HeldType DEF GetItem, Found, Id, TypeOK, DigestIdentifiesContent
    <3> QED
      BY <2>5, <3>1, <3>2, ReturnDigest DEF GetItem, DigestIdentifiesContent
  <2>6. ASSUME NEW c \in Component, Download(c) PROVE FactoryInv'
    <3>1. /\ Id(c) \in Ids /\ Id(c)[2] = worker[c].digest
          /\ worker[c].setting \in Setting
          /\ worker[c].digest \in Content /\ worker[c].url = Location[worker[c].digest]
      BY <2>6, HeldType DEF Download, Id, Generating, LoadedInv
    <3>2. Archive(worker[c].url) \subseteq {worker[c].digest}
      BY <3>1 DEF Archive, TypeOK
    <3>3. PICK x \in Archive(worker[c].url) :
          \E format \in DetectFormatFromMarkerBytes(x) :
          \E made \in Opened(x, worker[c].setting, format) :
            /\ items' = [items EXCEPT ![Id(c)] = made]
            /\ Return(c, made)
      BY <2>6 DEF Download
    <3>4. PICK generator \in Generators :
            /\ generator.content = worker[c].digest
            /\ items' = [items EXCEPT ![Id(c)] = generator]
            /\ Return(c, generator)
      <4>1. x \in Content /\ x = worker[c].digest
        BY <3>1, <3>2
      <4>2. \A format \in DetectFormatFromMarkerBytes(x) :
            \A made \in Opened(x, worker[c].setting, format) :
              made \in Generators /\ made.content = worker[c].digest
        BY <3>1, <4>1, OpenedFits
      <4> QED
        BY <3>3, <4>2
    <3>5. \A id \in Ids : items'[id] = None \/ items'[id].content = id[2]
      BY <3>1, <3>4 DEF TypeOK, DigestIdentifiesContent
    <3> QED
      BY <3>4, <3>5, ReturnDigest DEF DigestIdentifiesContent
  <2>7. ASSUME NEW id \in Ids, Evict(id) PROVE FactoryInv'
    <3>1. /\ \A other \in Ids : items'[other] \in {None, items[other]}
          /\ worker' = worker /\ generated' = generated
      BY <2>7 DEF Evict, TypeOK
    <3> QED
      BY <3>1 DEF LoadedInv, DigestIdentifiesContent
  <2> QED
    BY <2>1, <2>2, <2>3, <2>4, <2>5, <2>6, <2>7
       DEF Next, Publish, Collect, Change, GetArtifact, GetGenerator, vars
<1> QED
  BY <1>1, <1>2, FactoryTypeCorrect, PTL DEF Spec, FactoryInv
=============================================================================
