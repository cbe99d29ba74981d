-------------------------- MODULE GeneratorFactory --------------------------
(***************************************************************************)
(* The generator factory, which all workers share, in front of a           *)
(* repository. A reconcile first asks the repository, along a chain of     *)
(* redirects, for the digest and the location of its current archive;      *)
(* later it takes the generator for this url, this digest and its own path *)
(* and decryption settings from the factory, which, under its mutex,       *)
(* downloads and decrypts the archive unless it holds an item for them.    *)
(*                                                                         *)
(* A content stands for its digest. The repository is an http repository   *)
(* that answers itself (Location is the repository) or redirects to an     *)
(* archive; or a flux source or blueprint, whose archives have urls of     *)
(* their own and which tell digest and url at once. An id is a tuple: its  *)
(* parts contain no line breaks, and a digest stands for the keys.         *)
(***************************************************************************)
EXTENDS Decryption, Naturals

CONSTANTS
  Component,    \* components on this repository, each with a worker of its own
  Url,          \* urls
  Repository,   \* the url of the repository itself
  Location,     \* where a content is downloaded from: [Content -> Url]
  Target,       \* where a url redirects to while a content is offered, None
                \* if it answers itself: [Url -> [Content -> Url \cup {None}]]
  Tells,        \* <<url, content>>: the answer has digest and revision headers
  Paths,        \* directories of a content: [Content -> SUBSET of paths]
  Setting,      \* [path, provider, keys]
  Choices,      \* what the users choose from: [Component -> SUBSET Setting]
  MaxChanges    \* bound: changes of what the repository offers and of settings

ASSUME FactoryAssumption ==
  /\ Repository \in Url
  /\ Location \in [Content -> Url]
  /\ \A x, y \in Content :
       Location[x] = Location[y] => x = y \/ Location[x] = Repository
  /\ Target \in [Url -> [Content -> Url \cup {None}]]
  /\ \A s \in Setting : s.provider \in Provider /\ s.keys \subseteq Key
  /\ Choices \in [Component -> SUBSET Setting]
  /\ None \notin Component \cup Content \cup Url \cup Setting
  /\ MaxChanges \in Nat

VARIABLES
  offered,     \* the content the repository offers
  available,   \* contents with an archive
  setting,     \* what the users want: [Component -> Setting]
  items,       \* the factory: [Ids -> Generators \cup {None}]
  mutex,       \* who holds the factory's mutex
  worker,      \* [pc, url, digest, setting] of a reconcile
  generated,   \* what a component's manifests came from, and were to come from
  changes      \* changes so far

vars == <<offered, available, setting, items, mutex, worker, generated, changes>>

-----------------------------------------------------------------------------

Ids == Url \X Content \X Setting

(* A generator is made from a directory of a content, decrypted or not. *)
Generators ==
  [content : Content, path : {s.path : s \in Setting}, text : {"input", "plain"}]

IdleWorker == [pc |-> "idle", url |-> None, digest |-> None, setting |-> None]
NotGenerated == [digest |-> None, setting |-> None, from |-> None]

TypeOK ==
  /\ offered \in Content
  /\ available \subseteq Content
  /\ setting \in [Component -> Setting]
  /\ items \in [Ids -> Generators \cup {None}]
  /\ mutex \in Component \cup {None}
  /\ worker \in [Component -> {IdleWorker} \cup
       [pc : {"head"}, url : Url, digest : {None}, setting : Setting] \cup
       [pc : {"lock", "held"}, url : Url, digest : Content, setting : Setting]]
  /\ \A c \in Component : worker[c].pc = "held" <=> mutex = c
  /\ generated \in [Component -> {NotGenerated} \cup
       [digest : Content, setting : Setting, from : Generators]]
  /\ changes \in Nat

Init ==
  /\ offered \in Content
  /\ available = {offered}
  /\ setting \in {wanted \in [Component -> Setting] :
                    \A c \in Component : wanted[c] \in Choices[c]}
  /\ items = [id \in Ids |-> None]
  /\ mutex = None
  /\ worker = [c \in Component |-> IdleWorker]
  /\ generated = [c \in Component |-> NotGenerated]
  /\ changes = 0

-----------------------------------------------------------------------------
(* The repository, and the users *)

Publish(x) ==
  /\ offered # x
  /\ changes < MaxChanges
  /\ changes' = changes + 1
  /\ offered' = x
  /\ available' = available \cup {x}
  /\ UNCHANGED <<setting, items, mutex, worker, generated>>

(* Old archives go: by flux, or by the blueprint controller. *)
Collect(x) ==
  /\ x \in available \ {offered}
  /\ available' = available \ {x}
  /\ UNCHANGED <<offered, setting, items, mutex, worker, generated, changes>>

(* A user changes path or provider of a component, or its secret's keys.   *)
Change(c, s) ==
  /\ setting[c] # s
  /\ changes < MaxChanges
  /\ changes' = changes + 1
  /\ setting' = [setting EXCEPT ![c] = s]
  /\ UNCHANGED <<offered, available, items, mutex, worker, generated>>

Archive(url) ==
  IF url = Repository THEN {offered}
  ELSE {x \in available : Location[x] = url}

-----------------------------------------------------------------------------
(* A reconcile loads the artifact *)

(* It has read its component, and the secret it refers to. *)
Begin(c) ==
  /\ worker[c].pc = "idle"
  /\ worker' = [worker EXCEPT ![c] =
       [pc |-> "head", url |-> Repository, digest |-> None, setting |-> setting[c]]]
  /\ UNCHANGED <<offered, available, setting, items, mutex, generated, changes>>

Redirected(url) == Target[url][offered] # None

(* CheckRedirect: a redirect with a digest is the answer, others are       *)
(* followed.                                                               *)
Followed(url) == Redirected(url) /\ <<url, offered>> \notin Tells

Digests(url) ==
  {x \in (IF Redirected(url) THEN {offered} ELSE Archive(url)) : <<url, x>> \in Tells}

(* Mutation of ArchiveUrl: the redirect is not taken over. *)
ArchiveUrlUnredirected(url) == Repository

ArchiveUrl(url) == IF Redirected(url) THEN Target[url][offered] ELSE url

Follow(c) ==
  /\ worker[c].pc = "head"
  /\ Followed(worker[c].url)
  /\ worker' = [worker EXCEPT ![c].url = Target[@][offered]]
  /\ UNCHANGED <<offered, available, setting, items, mutex, generated, changes>>

Load(c) ==
  /\ worker[c].pc = "head"
  /\ ~Followed(worker[c].url)
  /\ \E x \in Digests(worker[c].url) :
       worker' = [worker EXCEPT ![c] =
         [pc |-> "lock", url |-> ArchiveUrl(worker[c].url), digest |-> x,
          setting |-> worker[c].setting]]
  /\ UNCHANGED <<offered, available, setting, items, mutex, generated, changes>>

(* The archive is gone, or digest or revision are missing. *)
LoadFails(c) ==
  /\ worker[c].pc = "head"
  /\ ~Followed(worker[c].url)
  /\ Digests(worker[c].url) = {}
  /\ worker' = [worker EXCEPT ![c] = IdleWorker]
  /\ UNCHANGED <<offered, available, setting, items, mutex, generated, changes>>

GetArtifact(c) == Follow(c) \/ Load(c) \/ LoadFails(c)

-----------------------------------------------------------------------------
(* and takes its generator from the factory *)

Lock(c) ==
  /\ worker[c].pc = "lock"
  /\ mutex = None
  /\ mutex' = c
  /\ worker' = [worker EXCEPT ![c].pc = "held"]
  /\ UNCHANGED <<offered, available, setting, items, generated, changes>>

Found(id) == {items[id]} \ {None}

(* Mutation of Unlock: not when there is nothing to return. *)
UnlockWithResult(result) == IF result = None THEN mutex ELSE None

(* The mutex is released whatever the outcome (deferred). *)
Unlock(result) == None

(* Returns with this generator. *)
Return(c, generator) ==
  /\ generated' = [generated EXCEPT ![c] =
       [digest |-> worker[c].digest, setting |-> worker[c].setting, from |-> generator]]
  /\ mutex' = Unlock(generator)
  /\ worker' = [worker EXCEPT ![c] = IdleWorker]

(* Mutation of Id: any keys will do. *)
IdWithoutKeys(c) ==
  LET s == CHOOSE s \in Setting : s.path = worker[c].setting.path
  IN  <<worker[c].url, worker[c].digest, s>>

Id(c) == <<worker[c].url, worker[c].digest, worker[c].setting>>

GetItem(c) ==
  /\ worker[c].pc = "held"
  /\ \E generator \in Found(Id(c)) : Return(c, generator)
  /\ UNCHANGED <<offered, available, setting, items, changes>>

(* The generators an archive can give, whichever format is detected: none  *)
(* without the directory, or if it cannot be decrypted.                    *)
Opened(x, s, format) ==
  {[content |-> x, path |-> s.path, text |-> text] :
     text \in UNION {DecryptDirectory(x, format, decryptor) :
                       decryptor \in {d \in Decryptors(s.provider, s.keys) :
                                        s.path \in Paths[x]}}}

Download(c) ==
  /\ worker[c].pc = "held"
  /\ Found(Id(c)) = {}
  /\ \E x \in Archive(worker[c].url) :
     \E format \in DetectFormatFromMarkerBytes(x) :
     \E generator \in Opened(x, worker[c].setting, format) :
       /\ items' = [items EXCEPT ![Id(c)] = generator]
       /\ Return(c, generator)
  /\ UNCHANGED <<offered, available, setting, changes>>

Fails(c) ==
  \/ Archive(worker[c].url) = {}
  \/ \E x \in Archive(worker[c].url) : \E format \in DetectFormatFromMarkerBytes(x) :
       Opened(x, worker[c].setting, format) = {}

(* Mutation of DownloadFails: the download is retried under the mutex.     *)
DownloadRetries(c) ==
  /\ worker[c].pc = "held"
  /\ Found(Id(c)) = {}
  /\ Fails(c)
  /\ UNCHANGED vars

(* The archive is gone, or of no use: the reconcile fails and loads anew   *)
(* another time.                                                           *)
DownloadFails(c) ==
  /\ worker[c].pc = "held"
  /\ Found(Id(c)) = {}
  /\ Fails(c)
  /\ mutex' = Unlock(None)
  /\ worker' = [worker EXCEPT ![c] = IdleWorker]
  /\ UNCHANGED <<offered, available, setting, items, generated, changes>>

(* The evictor drops an item some time after its last use. *)
Evict(id) ==
  /\ mutex = None
  /\ items[id] # None
  /\ items' = [items EXCEPT ![id] = None]
  /\ UNCHANGED <<offered, available, setting, mutex, worker, generated, changes>>

GetGenerator(c) == GetItem(c) \/ Download(c) \/ DownloadFails(c)

Next ==
  \/ \E x \in Content : Publish(x) \/ Collect(x)
  \/ \E c \in Component :
       \/ \E s \in Choices[c] : Change(c, s)
       \/ Begin(c) \/ GetArtifact(c) \/ Lock(c) \/ GetGenerator(c)
  \/ \E id \in Ids : Evict(id)

Spec == Init /\ [][Next]_vars

(* Components are requeued, downloads end, a mutex of Go hands itself to   *)
(* whoever has waited long enough, and Go iterates over the markers in an  *)
(* order that is random each time.                                         *)
Fairness ==
  \A c \in Component :
    /\ WF_vars(Begin(c)) /\ WF_vars(GetArtifact(c))
    /\ SF_vars(Lock(c)) /\ WF_vars(GetGenerator(c)) /\ SF_vars(Download(c))

FairSpec == Spec /\ Fairness

-----------------------------------------------------------------------------

(* The digest of an item identifies the content its generator was built    *)
(* from, as the comment on the id in GetGenerator says. Nothing checks the *)
(* download against the digest, which was read by an earlier request.      *)
DigestIdentifiesContent ==
  /\ \A id \in Ids : items[id] = None \/ items[id].content = id[2]
  /\ \A c \in Component :
       generated[c] # NotGenerated => generated[c].from.content = generated[c].digest

FitsSetting(made, s) ==
  /\ made.path = s.path /\ s.path \in Paths[made.content]
  /\ made.text = "plain" => Recipients[made.content] \cap s.keys # {}
  /\ made.text = "input" => Recipients[made.content] = {} \/ s.keys = {}

(* Whatever others with other settings have left in the factory, manifests *)
(* come from the component's own path; they are decrypted with a key of    *)
(* its own, and not generated from files left encrypted when it has keys.  *)
GeneratedAsSet ==
  \A c \in Component :
    generated[c] # NotGenerated => FitsSetting(generated[c].from, generated[c].setting)

(* Can a component be generated from what is offered? *)
Generable(c) ==
  \E format \in DetectFormatFromMarkerBytes(offered) :
    Opened(offered, setting[c], format) # {}

(* Once repository and users come to rest every component that can be is   *)
(* generated from what is offered, as its settings say, whatever was       *)
(* loaded, cached, failed or gone by then.                                 *)
Current ==
  <>[](\A c \in Component : Generable(c) =>
         /\ generated[c].setting = setting[c]
         /\ generated[c].from.content = offered)

(* Every reconcile ends: no failing load, download or decryption leaves    *)
(* the mutex locked or a worker waiting.                                   *)
NobodyWaitsForever ==
  \A c \in Component : worker[c].pc # "idle" ~> worker[c].pc = "idle"
=============================================================================
