----------------------------- MODULE Informers -----------------------------
(***************************************************************************)
(* The SharedInformerFactory of the generated client: one informer per     *)
(* type, requested, started, awaited and shut down by several goroutines.  *)
(* The event handlers of a running informer use the factory as well: what  *)
(* they call on it is a Lister or an Informer, each an InformerFor. Every  *)
(* informer runs in a goroutine of its own until the context it was        *)
(* started with is cancelled and its handlers have returned.               *)
(*                                                                         *)
(* A call that does all its work at once under the lock is one step; one   *)
(* that runs other code, or loops, while it holds the lock takes several.  *)
(* The informers themselves are of client-go.                              *)
(***************************************************************************)
CONSTANTS
  Type,      \* the types
  Handler,   \* types whose informer has a handler that uses the factory
  Caller,    \* goroutines of the program that uses the factory
  Ops,       \* what they call: [Caller -> SUBSET Op]
  Context,   \* the contexts they start and wait with
  None       \* no informer, no holder of the lock, no argument

Op == {"InformerFor", "StartWithContext", "Shutdown", "WaitForCacheSync"}

Actor == Caller \cup Handler

ASSUME InformersAssumption ==
  /\ Handler \subseteq Type
  /\ Caller \cap Type = {}
  /\ Ops \in [Caller -> SUBSET Op]
  /\ None \notin Actor \cup Context

VARIABLES
  lock,               \* who holds the factory's lock
  informers,          \* types that have an informer
  startedInformers,   \* types whose informer has been started
  shuttingDown,
  running,            \* goroutines that wg counts: <<type, context>>
  released,           \* the name of the informers is released
  synced,             \* types whose informer has synced
  cancelled,          \* contexts
  call                \* what an actor is doing: [op, pc, arg, snapshot]

vars == <<lock, informers, startedInformers, shuttingDown, running, released,
          synced, cancelled, call>>

-----------------------------------------------------------------------------

Arguments(op) ==
  CASE op = "InformerFor" -> Type
    [] op = "Shutdown" -> {None}
    [] OTHER -> Context

Idle == [op |-> "none", pc |-> "idle", arg |-> None, snapshot |-> {}]

TypeOK ==
  /\ lock \in Actor \cup {None}
  /\ startedInformers \subseteq informers /\ informers \subseteq Type
  /\ shuttingDown \in BOOLEAN
  /\ running \subseteq startedInformers \X Context
  /\ released \in BOOLEAN
  /\ synced \subseteq startedInformers
  /\ cancelled \subseteq Context
  /\ call \in [Actor -> {Idle} \cup
       [op : Op, pc : {"lock", "create", "starting", "waiting"},
        arg : Type \cup Context \cup {None}, snapshot : SUBSET Type]]
  /\ \A a \in Actor : call[a] # Idle => call[a].arg \in Arguments(call[a].op)
  /\ \A a \in Actor : call[a].pc \in {"create", "starting"} <=> lock = a

Init ==
  /\ lock = None
  /\ informers = {}
  /\ startedInformers = {}
  /\ shuttingDown = FALSE
  /\ running = {}
  /\ released = FALSE
  /\ synced = {}
  /\ cancelled = {}
  /\ call = [a \in Actor |-> Idle]

Runs(t) == \E ctx \in Context : <<t, ctx>> \in running

-----------------------------------------------------------------------------
(* Calls, and the factory's lock *)

(* A handler is called while its informer runs, and asks for informers.    *)
Call(a, op) ==
  /\ call[a].pc = "idle"
  /\ IF a \in Handler THEN Runs(a) /\ op = "InformerFor" ELSE op \in Ops[a]
  /\ \E arg \in Arguments(op) :
       call' = [call EXCEPT ![a] =
         [op |-> op, pc |-> "lock", arg |-> arg, snapshot |-> {}]]
  /\ UNCHANGED <<lock, informers, startedInformers, shuttingDown, running,
                 released, synced, cancelled>>

In(a, op, pc) == call[a].op = op /\ call[a].pc = pc

Goto(a, pc) == call' = [call EXCEPT ![a].pc = pc]

Return(a) == call' = [call EXCEPT ![a] = Idle]

(* Mutation of Free: the map of informers is read without the lock.        *)
FreeForReaders(a) == lock = None \/ call[a].op = "InformerFor"

Free(a) == lock = None

-----------------------------------------------------------------------------
(* InformerFor *)

Exists(a) ==
  /\ In(a, "InformerFor", "lock")
  /\ Free(a)
  /\ call[a].arg \in informers
  /\ Return(a)
  /\ UNCHANGED <<lock, informers, startedInformers, shuttingDown, running,
                 released, synced, cancelled>>

DoesNotExist(a) ==
  /\ In(a, "InformerFor", "lock")
  /\ Free(a)
  /\ call[a].arg \notin informers
  /\ lock' = a
  /\ Goto(a, "create")
  /\ UNCHANGED <<informers, startedInformers, shuttingDown, running, released,
                 synced, cancelled>>

(* newFunc has made the informer. *)
NewInformer(a) ==
  /\ In(a, "InformerFor", "create")
  /\ informers' = informers \cup {call[a].arg}
  /\ lock' = None
  /\ Return(a)
  /\ UNCHANGED <<startedInformers, shuttingDown, running, released, synced, cancelled>>

InformerFor(a) == Exists(a) \/ DoesNotExist(a) \/ NewInformer(a)

-----------------------------------------------------------------------------
(* StartWithContext *)

(* Mutation of MayStart: also when the factory is shutting down. *)
MayStartAnytime == TRUE

MayStart == ~shuttingDown

ToStart == informers \ startedInformers

StartRefused(a) ==
  /\ In(a, "StartWithContext", "lock")
  /\ Free(a)
  /\ ~MayStart
  /\ Return(a)
  /\ UNCHANGED <<lock, informers, startedInformers, shuttingDown, running,
                 released, synced, cancelled>>

StartBegins(a) ==
  /\ In(a, "StartWithContext", "lock")
  /\ Free(a)
  /\ MayStart
  /\ lock' = a
  /\ Goto(a, "starting")
  /\ UNCHANGED <<informers, startedInformers, shuttingDown, running, released,
                 synced, cancelled>>

StartInformer(a) ==
  /\ In(a, "StartWithContext", "starting")
  /\ \E t \in ToStart :
       /\ running' = running \cup {<<t, call[a].arg>>}
       /\ startedInformers' = startedInformers \cup {t}
  /\ UNCHANGED <<lock, informers, shuttingDown, released, synced, cancelled, call>>

StartReturns(a) ==
  /\ In(a, "StartWithContext", "starting")
  /\ ToStart = {}
  /\ lock' = None
  /\ Return(a)
  /\ UNCHANGED <<informers, startedInformers, shuttingDown, running, released,
                 synced, cancelled>>

StartWithContext(a) ==
  StartRefused(a) \/ StartBegins(a) \/ StartInformer(a) \/ StartReturns(a)

-----------------------------------------------------------------------------
(* Shutdown *)

(* Mutation of ShutdownMarks: the lock is held while it waits.             *)
ShutdownMarksLocked(a) ==
  /\ In(a, "Shutdown", "lock")
  /\ \/ Free(a) /\ lock' = a /\ shuttingDown' = TRUE /\ UNCHANGED call
     \/ lock = a /\ running = {} /\ lock' = None /\ Goto(a, "waiting")
        /\ UNCHANGED shuttingDown
  /\ UNCHANGED <<informers, startedInformers, running, released, synced, cancelled>>

ShutdownMarks(a) ==
  /\ In(a, "Shutdown", "lock")
  /\ Free(a)
  /\ shuttingDown' = TRUE
  /\ Goto(a, "waiting")
  /\ UNCHANGED <<lock, informers, startedInformers, running, released, synced, cancelled>>

(* The informers' goroutines have ended; their name is given back. *)
ShutdownReturns(a) ==
  /\ In(a, "Shutdown", "waiting")
  /\ running = {}
  /\ released' = TRUE
  /\ Return(a)
  /\ UNCHANGED <<lock, informers, startedInformers, shuttingDown, running,
                 synced, cancelled>>

Shutdown(a) == ShutdownMarks(a) \/ ShutdownReturns(a)

-----------------------------------------------------------------------------
(* WaitForCacheSyncWithContext *)

Snapshot(a) ==
  /\ In(a, "WaitForCacheSync", "lock")
  /\ Free(a)
  /\ call' = [call EXCEPT ![a].pc = "waiting", ![a].snapshot = startedInformers]
  /\ UNCHANGED <<lock, informers, startedInformers, shuttingDown, running,
                 released, synced, cancelled>>

(* Mutation of Woken: not by the context. *)
WokenBySync(a) == call[a].snapshot \subseteq synced

Woken(a) == call[a].snapshot \subseteq synced \/ call[a].arg \in cancelled

(* HasSynced is asked once more for the result: what the context left      *)
(* unsynced is reported as failed, with the context's cause.               *)
WaitFor(a) ==
  /\ In(a, "WaitForCacheSync", "waiting")
  /\ Woken(a)
  /\ Return(a)
  /\ UNCHANGED <<lock, informers, startedInformers, shuttingDown, running,
                 released, synced, cancelled>>

WaitForCacheSync(a) == Snapshot(a) \/ WaitFor(a)

-----------------------------------------------------------------------------
(* Contexts and informers *)

Cancel(ctx) ==
  /\ ctx \notin cancelled
  /\ cancelled' = cancelled \cup {ctx}
  /\ UNCHANGED <<lock, informers, startedInformers, shuttingDown, running,
                 released, synced, call>>

Sync(t) ==
  /\ Runs(t)
  /\ t \notin synced
  /\ synced' = synced \cup {t}
  /\ UNCHANGED <<lock, informers, startedInformers, shuttingDown, running,
                 released, cancelled, call>>

(* RunWithContext returns when its handlers have. *)
End(t) ==
  /\ t \in Handler => call[t].pc = "idle"
  /\ Runs(t)
  /\ running \cap ({t} \X cancelled) # {}
  /\ running' = running \ ({t} \X cancelled)
  /\ UNCHANGED <<lock, informers, startedInformers, shuttingDown, released,
                 synced, cancelled, call>>

Proceed(a) ==
  InformerFor(a) \/ StartWithContext(a) \/ Shutdown(a) \/ WaitForCacheSync(a)

Next ==
  \/ \E a \in Actor : (\E op \in Op : Call(a, op)) \/ Proceed(a)
  \/ \E ctx \in Context : Cancel(ctx)
  \/ \E t \in Type : Sync(t) \/ End(t)

Spec == Init /\ [][Next]_vars

(* A Go mutex is handed to whoever has waited long enough; lists of the    *)
(* API server succeed in the end; a handler has finitely many events left  *)
(* when its informer's context is cancelled.                               *)
Fairness ==
  /\ \A a \in Actor : SF_vars(Proceed(a))
  /\ \A t \in Type : WF_vars(Sync(t)) /\ SF_vars(End(t))

FairSpec == Spec /\ Fairness

-----------------------------------------------------------------------------

(* Whoever asks for the informer of a type gets the one the factory starts *)
(* and waits for, although several ask at once: none is ever replaced by   *)
(* another, on which handlers and listers would see nothing (InformerFor). *)
OneInformer ==
  [][\A a \in Actor : NewInformer(a) => call[a].arg \notin informers]_vars

(* Once a call of Shutdown has returned, nothing runs any more and nothing *)
(* is started, although Start and Shutdown are called concurrently; the    *)
(* informers' name, then released, can be taken by another factory.        *)
NothingRunsReleased == released => running = {}

(* Every call returns, whatever the others and the handlers do meanwhile.  *)
(* Two may have to wait: Shutdown until the contexts are cancelled,        *)
(* "either before Shutdown gets called or while it is waiting"; and        *)
(* WaitForCacheSync, until its own context is, for an informer whose       *)
(* context, another one, was cancelled before it had synced: it is not     *)
(* started again.                                                          *)
CallsReturn ==
  \A a \in Caller :
    call[a].pc # "idle" ~>
      \/ call[a].pc = "idle"
      \/ call[a].op = "Shutdown" /\ cancelled # Context
      \/ \E t \in call[a].snapshot \ synced : ~Runs(t) /\ call[a].arg \notin cancelled
=============================================================================
