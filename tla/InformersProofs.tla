--------------------------- MODULE InformersProofs ---------------------------
(***************************************************************************)
(* Shutdown and Start of the informer factory, for any number of           *)
(* goroutines, types, handlers and contexts.                               *)
(***************************************************************************)
EXTENDS Informers, TLAPS

(* Nobody waits in Shutdown before the factory is marked, nobody is in the *)
(* loop of Start after it is, and nothing is released before the marked    *)
(* factory's informers have ended.                                         *)
ShutdownInv ==
  /\ \A a \in Actor : In(a, "Shutdown", "waiting") => shuttingDown
  /\ shuttingDown => \A a \in Actor : call[a].pc # "starting"
  /\ released => shuttingDown /\ running = {}

(* Whoever creates an informer holds the lock: there is none yet.          *)
CreateInv ==
  \A a \in Actor : In(a, "InformerFor", "create") => call[a].arg \notin informers

-----------------------------------------------------------------------------

LEMMA InformersInitType == Init => TypeOK
<1> SUFFICES ASSUME Init PROVE TypeOK
  OBVIOUS
<1>1. \A a \in Actor : call[a] = Idle /\ Idle.pc = "idle" /\ lock # a
  BY InformersAssumption DEF Init, Idle
<1>2. call \in [Actor -> {Idle}]
  BY DEF Init
<1> QED
  BY <1>1, <1>2 DEF Init, TypeOK

(* What a call, a step within a call and its return do to the calls. *)
LEMMA CallType ==
  ASSUME TypeOK, NEW a \in Actor, NEW op \in Op, Call(a, op)
  PROVE  TypeOK'
<1>1. PICK arg \in Arguments(op) :
        call' = [call EXCEPT ![a] = [op |-> op, pc |-> "lock", arg |-> arg, snapshot |-> {}]]
  BY DEF Call
<1>2. arg \in Type \cup Context \cup {None}
  BY DEF Arguments, Op
<1>3. call[a].pc = "idle"
  BY DEF Call
<1> QED
  BY <1>1, <1>2, <1>3 DEF Call, TypeOK, Idle

LEMMA ReturnType ==
  ASSUME TypeOK, NEW a \in Actor, Return(a)
  PROVE  /\ call' \in [Actor -> {Idle} \cup
              [op : Op, pc : {"lock", "create", "starting", "waiting"},
               arg : Type \cup Context \cup {None}, snapshot : SUBSET Type]]
         /\ \A b \in Actor : call'[b] # Idle => call'[b].arg \in Arguments(call'[b].op)
         /\ call'[a].pc = "idle"
         /\ \A b \in Actor \ {a} : call'[b] = call[b]
BY DEF TypeOK, Return, Idle

LEMMA GotoType ==
  ASSUME TypeOK, NEW a \in Actor, call[a].pc # "idle",
         NEW pc \in {"lock", "create", "starting", "waiting"}, Goto(a, pc)
  PROVE  /\ call' \in [Actor -> {Idle} \cup
              [op : Op, pc : {"lock", "create", "starting", "waiting"},
               arg : Type \cup Context \cup {None}, snapshot : SUBSET Type]]
         /\ \A b \in Actor : call'[b] # Idle => call'[b].arg \in Arguments(call'[b].op)
         /\ call'[a].pc = pc /\ call'[a].op = call[a].op
         /\ \A b \in Actor \ {a} : call'[b] = call[b]
<1>1. call[a] \in [op : Op, pc : {"lock", "create", "starting", "waiting"},
        arg : Type \cup Context \cup {None}, snapshot : SUBSET Type]
  BY DEF TypeOK, Idle
<1>2. call' = [call EXCEPT ![a].pc = pc]
  BY DEF Goto
<1>3. call[a] # Idle
  BY DEF Idle
<1> QED
  BY <1>1, <1>2, <1>3 DEF TypeOK

LEMMA InformersNextType == TypeOK /\ [Next]_vars => TypeOK'
<1> SUFFICES ASSUME TypeOK, [Next]_vars PROVE TypeOK'
  OBVIOUS
<1> USE InformersAssumption
<1>1. ASSUME NEW a \in Actor, NEW op \in Op, Call(a, op) PROVE TypeOK'
  BY <1>1, CallType
<1>2. ASSUME NEW a \in Actor, Exists(a) PROVE TypeOK'
  BY <1>2, ReturnType DEF TypeOK, Exists, In
<1>3. ASSUME NEW a \in Actor, DoesNotExist(a) PROVE TypeOK'
  BY <1>3, GotoType DEF TypeOK, DoesNotExist, In, Free
<1>4. ASSUME NEW a \in Actor, NewInformer(a) PROVE TypeOK'
  <2>1. call[a].arg \in Type
    BY <1>4 DEF TypeOK, NewInformer, In, Idle, Arguments
  <2> QED
    BY <1>4, <2>1, ReturnType DEF TypeOK, NewInformer, In
<1>5. ASSUME NEW a \in Actor, StartRefused(a) PROVE TypeOK'
  BY <1>5, ReturnType DEF TypeOK, StartRefused, In, Free
<1>6. ASSUME NEW a \in Actor, StartBegins(a) PROVE TypeOK'
  BY <1>6, GotoType DEF TypeOK, StartBegins, In, Free
<1>7. ASSUME NEW a \in Actor, StartInformer(a) PROVE TypeOK'
  <2>1. call[a].arg \in Context
    BY <1>7 DEF TypeOK, StartInformer, In, Idle, Arguments
  <2> QED
    BY <1>7, <2>1 DEF TypeOK, StartInformer, ToStart
<1>8. ASSUME NEW a \in Actor, StartReturns(a) PROVE TypeOK'
  BY <1>8, ReturnType DEF TypeOK, StartReturns, In
<1>9. ASSUME NEW a \in Actor, ShutdownMarks(a) PROVE TypeOK'
  BY <1>9, GotoType DEF TypeOK, ShutdownMarks, In, Free
<1>10. ASSUME NEW a \in Actor, ShutdownReturns(a) PROVE TypeOK'
  BY <1>10, ReturnType DEF TypeOK, ShutdownReturns, In
<1>11. ASSUME NEW a \in Actor, Snapshot(a) PROVE TypeOK'
  <2>1. startedInformers \in SUBSET Type
    BY DEF TypeOK
  <2>2. call[a] \in [op : Op, pc : {"lock", "create", "starting", "waiting"},
          arg : Type \cup Context \cup {None}, snapshot : SUBSET Type]
    BY <1>11 DEF TypeOK, Idle, Snapshot, In
  <2>3. call' = [call EXCEPT ![a] =
          [call[a] EXCEPT !.pc = "waiting", !.snapshot = startedInformers]]
    BY <1>11, <2>2 DEF Snapshot, TypeOK
  <2>4. call[a] # Idle /\ call[a].pc = "lock"
    BY <1>11 DEF Snapshot, In, Idle
  <2>5. /\ call'[a].pc = "waiting" /\ call'[a].op = call[a].op
        /\ call'[a].arg = call[a].arg /\ call'[a].snapshot \in SUBSET Type
        /\ call'[a] \in [op : Op, pc : {"lock", "create", "starting", "waiting"},
             arg : Type \cup Context \cup {None}, snapshot : SUBSET Type]
        /\ \A b \in Actor \ {a} : call'[b] = call[b]
    BY <2>1, <2>2, <2>3 DEF TypeOK
  <2>6. call' \in [Actor -> {Idle} \cup
          [op : Op, pc : {"lock", "create", "starting", "waiting"},
           arg : Type \cup Context \cup {None}, snapshot : SUBSET Type]]
    BY <2>3, <2>5 DEF TypeOK
  <2> QED
    BY <1>11, <2>4, <2>5, <2>6 DEF TypeOK, Snapshot, In, Free
<1>12. ASSUME NEW a \in Actor, WaitFor(a) PROVE TypeOK'
  BY <1>12, ReturnType DEF TypeOK, WaitFor, In
<1>13. ASSUME NEW ctx \in Context, Cancel(ctx) PROVE TypeOK'
  BY <1>13 DEF TypeOK, Cancel
<1>14. ASSUME NEW t \in Type, Sync(t) PROVE TypeOK'
  BY <1>14 DEF TypeOK, Sync, Runs
<1>15. ASSUME NEW t \in Type, End(t) PROVE TypeOK'
  BY <1>15 DEF TypeOK, End
<1>16. CASE UNCHANGED vars
  BY <1>16 DEF TypeOK, vars
<1> QED
  BY <1>1, <1>2, <1>3, <1>4, <1>5, <1>6, <1>7, <1>8, <1>9, <1>10, <1>11, <1>12,
     <1>13, <1>14, <1>15, <1>16
     DEF Next, Proceed, InformerFor, StartWithContext, Shutdown, WaitForCacheSync

(* The types of all variables of the factory hold for all constants. *)
THEOREM InformersTypeCorrect == Spec => []TypeOK
BY InformersInitType, InformersNextType, PTL DEF Spec

-----------------------------------------------------------------------------

LEMMA ShutdownInvNext ==
  TypeOK /\ TypeOK' /\ ShutdownInv /\ [Next]_vars => ShutdownInv'
<1> SUFFICES ASSUME TypeOK, TypeOK', ShutdownInv, [Next]_vars PROVE ShutdownInv'
  OBVIOUS
<1> USE InformersAssumption
<1>1. ASSUME NEW a \in Actor, NEW op \in Op, Call(a, op) PROVE ShutdownInv'
  <2>1. \A b \in Actor : call'[b] = call[b] \/ call'[b].pc = "lock"
    BY <1>1 DEF Call, TypeOK
  <2> QED
    BY <1>1, <2>1 DEF ShutdownInv, Call, In
<1>2. ASSUME NEW a \in Actor, Return(a), UNCHANGED <<shuttingDown, running, released>>
      PROVE  ShutdownInv'
  BY <1>2, ReturnType DEF ShutdownInv, In
<1>3. ASSUME NEW a \in Actor, DoesNotExist(a) PROVE ShutdownInv'
  BY <1>3, GotoType DEF DoesNotExist, ShutdownInv, In
<1>4. ASSUME NEW a \in Actor, StartBegins(a) PROVE ShutdownInv'
  BY <1>4, GotoType DEF StartBegins, MayStart, ShutdownInv, In
<1>5. ASSUME NEW a \in Actor, StartInformer(a) PROVE ShutdownInv'
  BY <1>5 DEF StartInformer, ShutdownInv, In
<1>6. ASSUME NEW a \in Actor, ShutdownMarks(a) PROVE ShutdownInv'
  <2>1. \A b \in Actor : call[b].pc # "starting"
    BY <1>6 DEF ShutdownMarks, Free, TypeOK
  <2> QED
    BY <1>6, <2>1, GotoType DEF ShutdownMarks, ShutdownInv, In
<1>7. ASSUME NEW a \in Actor, ShutdownReturns(a) PROVE ShutdownInv'
  BY <1>7, ReturnType DEF ShutdownReturns, ShutdownInv, In
<1>8. ASSUME NEW a \in Actor, Snapshot(a) PROVE ShutdownInv'
  <2>1. /\ \A b \in Actor \ {a} : call'[b] = call[b]
        /\ call'[a].pc = "waiting" /\ call'[a].op = "WaitForCacheSync"
    <3>1. call[a] # Idle
      BY <1>8 DEF Snapshot, In, Idle
    <3> QED
      BY <1>8, <3>1 DEF Snapshot, In, TypeOK
  <2> QED
    BY <1>8, <2>1 DEF Snapshot, ShutdownInv, In
<1>9. CASE \/ \E ctx \in Context : Cancel(ctx)
           \/ \E t \in Type : Sync(t) \/ End(t)
           \/ UNCHANGED vars
  BY <1>9 DEF Cancel, Sync, End, vars, ShutdownInv, In
<1> QED
  BY <1>1, <1>2, <1>3, <1>4, <1>5, <1>6, <1>7, <1>8, <1>9
     DEF Next, Proceed, InformerFor, StartWithContext, Shutdown, WaitForCacheSync,
         Exists, NewInformer, StartRefused, StartReturns, WaitFor

LEMMA CreateInvNext ==
  TypeOK /\ TypeOK' /\ CreateInv /\ [Next]_vars => CreateInv'
<1> SUFFICES ASSUME TypeOK, TypeOK', CreateInv, [Next]_vars,
                    NEW a \in Actor, In(a, "InformerFor", "create")'
             PROVE  call'[a].arg \notin informers'
  BY DEF CreateInv
<1> USE InformersAssumption
<1>1. lock' = a
  BY DEF TypeOK, In
<1>2. CASE DoesNotExist(a)
  BY <1>2, GotoType DEF DoesNotExist, Goto, In, TypeOK
<1>3. CASE call'[a] = call[a] /\ informers' = informers
  BY <1>3 DEF CreateInv, In
<1>4. ASSUME call'[a] # call[a] PROVE DoesNotExist(a)
  <2>1. ASSUME NEW b \in Actor, Return(b) PROVE FALSE
    BY <2>1, <1>4, ReturnType DEF In
  <2>2. ASSUME NEW b \in Actor, NEW op \in Op, Call(b, op) PROVE FALSE
    BY <2>2, <1>4 DEF Call, TypeOK, In
  <2>3. ASSUME NEW b \in Actor, NEW pc \in {"starting", "waiting"},
               call[b].pc # "idle", Goto(b, pc) PROVE FALSE
    BY <2>3, <1>4, GotoType DEF In
  <2>4. ASSUME NEW b \in Actor, Snapshot(b) PROVE FALSE
    <3>1. call[b] # Idle
      BY <2>4 DEF Snapshot, In, Idle
    <3> QED
      BY <2>4, <3>1, <1>4 DEF Snapshot, In, TypeOK
  <2>5. ASSUME NEW b \in Actor, DoesNotExist(b) PROVE b = a
    BY <2>5, <1>4, GotoType DEF DoesNotExist, In
  <2>6. call' # call
    BY <1>4
  <2> QED
    BY <2>1, <2>2, <2>3, <2>4, <2>5, <2>6
       DEF Next, Proceed, InformerFor, StartWithContext, Shutdown, WaitForCacheSync,
           Exists, NewInformer, StartRefused, StartBegins, StartInformer, StartReturns,
           ShutdownMarks, ShutdownReturns, WaitFor, Cancel, Sync, End, vars, In
<1>5. CASE informers' # informers
  <2>1. PICK b \in Actor : NewInformer(b)
    BY <1>5 DEF Next, Proceed, InformerFor, StartWithContext, Shutdown, WaitForCacheSync,
           Call, Exists, DoesNotExist, StartRefused, StartBegins, StartInformer,
           StartReturns, ShutdownMarks, ShutdownReturns, Snapshot, WaitFor, Cancel, Sync,
           End, vars
  <2> QED
    BY <2>1, <1>1 DEF NewInformer
<1> QED
  BY <1>2, <1>3, <1>4, <1>5

(* Nothing runs after Shutdown has returned: what Shutdown's doc comment   *)
(* says, for all goroutines that start, use and shut down the factory.     *)
THEOREM ShutdownIsFinal == Spec => []NothingRunsReleased
<1>1. Init => ShutdownInv
  BY DEF Init, ShutdownInv, In, Idle
<1>2. ShutdownInv => NothingRunsReleased
  BY DEF ShutdownInv, NothingRunsReleased
<1> QED
  BY <1>1, <1>2, ShutdownInvNext, InformersTypeCorrect, PTL DEF Spec

(* InformerFor never replaces an informer: the lock makes its check of the *)
(* map and the new entry one step for all others.                          *)
THEOREM InformersShared == Spec => OneInformer
<1>1. Init => CreateInv
  BY DEF Init, CreateInv, In, Idle
<1>2. CreateInv =>
        [\A a \in Actor : NewInformer(a) => call[a].arg \notin informers]_vars
  BY DEF CreateInv, NewInformer
<1> QED
  BY <1>1, <1>2, CreateInvNext, InformersTypeCorrect, PTL DEF Spec, OneInformer
=============================================================================
