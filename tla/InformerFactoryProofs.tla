----------------------- MODULE InformerFactoryProofs -----------------------
(***************************************************************************)
(* Shutdown of InformerFactory is final and its informers are shared, for  *)
(* any number of informer types, callers and stop channels.                *)
(***************************************************************************)
EXTENDS InformerFactory, FiniteSetTheorems, TLAPS

\* Only the holder of f.lock is between its Lock and its Unlock.
LockInv == \A c \in Callers : pc[c] \in Locked => lock = c

\* A Start that passed its check still holds the lock, so that the flag is not
\* set behind it; whoever waits or has waited for the group set the flag first.
FlagInv ==
  /\ \A c \in Callers : pc[c] = "starting" => ~shuttingDown
  /\ \A c \in Callers : pc[c] = "wgWait" => shuttingDown
  /\ quiet => shuttingDown

\* The wait group counts the live goroutines, at most one for each type.
CountInv ==
  /\ wg = Cardinality(Live)
  /\ \A t \in Types : t \in startedInformers <=> runner[t] # "none"

\* Start is called with a stop channel and InformerFor with an informer type.
ArgInv ==
  \A c \in Callers :
    /\ pc[c] \in {"Start", "start", "starting"} => arg[c] \in Channels
    /\ pc[c] \in {"For", "lookup", "make"} => arg[c] \in Types

\* The inductive invariant.
FactoryInv == TypeOK /\ ArgInv /\ LockInv /\ FlagInv /\ CountInv /\ ShutdownIsFinal

\* Only so many informers can run.
LEMMA LiveFinite == IsFiniteSet(Live) /\ Cardinality(Live) \in Nat
BY FiniteAssumption, FS_Subset, FS_CardinalityType DEF Live

\* A new factory has started nothing.
LEMMA FactoryInit == Init => FactoryInv
<1> SUFFICES ASSUME Init PROVE FactoryInv
  OBVIOUS
<1>1. TypeOK
  BY DEF Init, TypeOK, PCs
<1>2. Live = {}
  BY DEF Init, Live, Alive
<1>3. CountInv
  BY <1>2, FS_EmptySet DEF Init, CountInv
<1>4. LockInv /\ ArgInv /\ FlagInv /\ ShutdownIsFinal
  BY DEF Init, LockInv, ArgInv, FlagInv, ShutdownIsFinal, Locked
<1> QED BY <1>1, <1>3, <1>4 DEF FactoryInv

\* A step that leaves the goroutines and the flag's readers as they are.
LEMMA FactoryFrame ==
  ASSUME FactoryInv, TypeOK', ArgInv', LockInv', FlagInv',
         UNCHANGED <<runner, startedInformers, wg>>,
         quiet' => quiet
  PROVE  FactoryInv'
BY DEF FactoryInv, CountInv, ShutdownIsFinal, Live

\* A call and its wait for the lock change no informer.
LEMMA FactoryCall ==
  ASSUME FactoryInv, NEW c \in Callers, Call(c) \/ Lock(c)
  PROVE  FactoryInv'
<1> USE DEF FactoryInv
<1>1. PICK l \in PCs : pc' = [pc EXCEPT ![c] = l] /\ l \notin {"starting", "wgWait"}
  BY DEF Call, Lock, LockShared, Goto, PCs, Locked, Blocked
<1>2. UNCHANGED <<informers, startedInformers, wg, shuttingDown, runnerVars, unsynced, quiet>>
  BY DEF Call, Lock, LockShared, factoryVars
<1>3. TypeOK'
  BY <1>1, <1>2 DEF Call, Lock, LockShared, factoryVars, runnerVars, TypeOK
<1>4. LockInv'
  <2>1. CASE Call(c)
    <3>1. UNCHANGED lock /\ \E b \in Blocked : pc' = [pc EXCEPT ![c] = b]
      BY <2>1 DEF Call, Goto, Blocked, factoryVars
    <3> QED BY <3>1 DEF LockInv, Locked, Blocked, TypeOK
  <2>2. CASE Lock(c)
    <3>1. \A d \in Callers : pc[d] \notin Locked
      BY <2>2, NoneAssumption DEF Lock, LockInv
    <3>2. lock' = c
      BY <2>2 DEF Lock, LockShared
    <3> QED BY <3>1, <3>2, <1>1 DEF LockInv, TypeOK
  <2> QED BY <2>1, <2>2
<1>a. ArgInv'
  <2>1. CASE Call(c)
    BY <2>1 DEF Call, Goto, ArgInv, TypeOK
  <2>2. CASE Lock(c)
    BY <2>2 DEF Lock, LockShared, Goto, ArgInv, TypeOK, Blocked
  <2> QED BY <2>1, <2>2
<1>5. FlagInv'
  BY <1>1, <1>2 DEF FlagInv, TypeOK
<1> QED BY <1>2, <1>3, <1>4, <1>a, <1>5, FactoryFrame DEF runnerVars

\* Start runs an informer that is not running yet.
LEMMA FactoryStart ==
  ASSUME FactoryInv, NEW c \in Callers, StartCheck(c) \/ StartReturn(c)
  PROVE  FactoryInv'
<1> USE DEF FactoryInv
<1>1. UNCHANGED <<informers, startedInformers, wg, shuttingDown, runnerVars, arg,
                 got, unsynced, quiet>>
  BY DEF StartCheck, StartReturn
<1>2. PICK l \in {"idle", "starting"} :
        /\ pc' = [pc EXCEPT ![c] = l]
        /\ IF l = "idle" THEN lock' = None ELSE lock' = lock /\ ~shuttingDown
  BY DEF StartCheck, StartReturn, Goto
<1>3. pc[c] \in Locked
  BY DEF StartCheck, StartReturn, Locked
<1>4. TypeOK'
  BY <1>1, <1>2 DEF TypeOK, runnerVars, PCs, Locked
<1>5. LockInv'
  BY <1>2, <1>3 DEF LockInv, TypeOK, Locked
<1>6. FlagInv' /\ ArgInv'
  BY <1>1, <1>2 DEF StartCheck, StartReturn, FlagInv, ArgInv, TypeOK
<1> QED BY <1>1, <1>4, <1>5, <1>6, FactoryFrame DEF runnerVars

\* Start runs one more goroutine: one that was not counted, and only while the
\* flag is not set.
LEMMA FactoryStartOne ==
  ASSUME FactoryInv, NEW c \in Callers, NEW t \in Types, StartOne(c, t)
  PROVE  FactoryInv'
<1> USE DEF FactoryInv
<1>1. t \notin Live /\ Live' = Live \cup {t}
  BY DEF StartOne, CountInv, Live, Alive, TypeOK
<1>2. Cardinality(Live') = Cardinality(Live) + 1
  BY <1>1, LiveFinite, FS_AddElement
<1>3. arg[c] \in Channels
  BY DEF StartOne, ArgInv
<1>4. TypeOK'
  BY <1>3 DEF StartOne, TypeOK, callerVars
<1>5. CountInv'
  BY <1>2, <1>4 DEF StartOne, CountInv, TypeOK
<1>6. LockInv' /\ ArgInv' /\ FlagInv' /\ ShutdownIsFinal'
  BY DEF StartOne, callerVars, LockInv, ArgInv, FlagInv, ShutdownIsFinal
<1> QED BY <1>4, <1>5, <1>6

\* Shutdown waits for those that run.
LEMMA FactoryShutdown ==
  ASSUME FactoryInv, NEW c \in Callers, Shutdown(c)
  PROVE  FactoryInv'
<1> USE DEF FactoryInv
<1>1. CASE ShutdownMark(c)
  <2>1. /\ shuttingDown' = TRUE /\ lock' = None /\ pc' = [pc EXCEPT ![c] = "wgWait"]
        /\ UNCHANGED <<informers, startedInformers, wg, runnerVars, arg, got,
                       unsynced, quiet>>
    BY <1>1 DEF ShutdownMark, Goto
  <2>2. pc[c] = "shutdown" /\ \A d \in Callers : pc[d] \in Locked => d = c
    BY <1>1 DEF ShutdownMark, LockInv, Locked
  <2>3. TypeOK' /\ ArgInv'
    BY <2>1 DEF TypeOK, ArgInv, runnerVars, PCs
  <2>4. LockInv' /\ FlagInv'
    BY <2>1, <2>2 DEF LockInv, FlagInv, TypeOK, Locked
  <2> QED BY <2>1, <2>3, <2>4, FactoryFrame DEF runnerVars
<1>2. CASE ShutdownReturn(c)
  <2>1. /\ pc[c] = "wgWait" /\ wg = 0 /\ quiet' = TRUE
        /\ pc' = [pc EXCEPT ![c] = "idle"]
        /\ UNCHANGED <<factoryVars, runnerVars, arg, got, unsynced>>
    BY <1>2 DEF ShutdownReturn, Goto
  <2>2. Live = {}
    BY <2>1, LiveFinite, FS_EmptySet DEF CountInv
  <2>3. TypeOK' /\ ArgInv' /\ LockInv'
    BY <2>1 DEF TypeOK, ArgInv, LockInv, factoryVars, runnerVars, PCs, Locked
  <2>4. FlagInv'
    BY <2>1 DEF FlagInv, TypeOK, factoryVars
  <2>5. CountInv' /\ ShutdownIsFinal'
    BY <2>1, <2>2 DEF CountInv, ShutdownIsFinal, Live, factoryVars, runnerVars
  <2> QED BY <2>3, <2>4, <2>5
<1> QED BY <1>1, <1>2 DEF Shutdown

\* WaitForCacheSync and InformerFor start no informer.
LEMMA FactoryWaitFor ==
  ASSUME FactoryInv, NEW c \in Callers, WaitForCacheSync(c) \/ InformerFor(c)
  PROVE  FactoryInv'
<1> USE DEF FactoryInv
<1>1. /\ UNCHANGED <<startedInformers, wg, shuttingDown, runner, runCh, synced,
                     closed, arg, quiet>>
      /\ \E l \in {"idle", "syncWait", "make", pc[c]} :
           /\ pc' = [pc EXCEPT ![c] = l]
           /\ l = "make" => pc[c] \in {"lookup", "make"} /\ lock' = lock
           /\ l \in Locked => lock' = lock
           /\ lock' \in {lock, None}
           /\ lock' # lock => pc[c] \in Locked
      /\ pc[c] \in {"snapshot", "syncWait", "lookup", "make"}
  BY DEF WaitForCacheSync, InformerFor, Snapshot, SyncOne, SyncReturn, Lookup,
         MakeInformer, Goto, factoryVars, runnerVars, Locked, TypeOK
<1>2. TypeOK'
  <2>1. informers' \in [Types -> Nat] /\ made' \in [Types -> Nat]
    BY DEF WaitForCacheSync, InformerFor, Snapshot, SyncOne, SyncReturn, Lookup,
           MakeInformer, factoryVars, runnerVars, TypeOK
  <2>2. got' \in [Callers -> Nat]
    <3>1. CASE MakeInformer(c)
      <4>1. made'[arg[c]] \in Nat
        BY <3>1, <2>1 DEF MakeInformer, ArgInv, TypeOK
      <4> QED BY <3>1, <4>1 DEF MakeInformer, TypeOK
    <3>2. CASE Lookup(c)
      BY <3>2 DEF Lookup, ArgInv, TypeOK
    <3> QED BY <3>1, <3>2 DEF WaitForCacheSync, InformerFor, Snapshot, SyncOne,
                              SyncReturn, TypeOK
  <2>3. unsynced' \in [Callers -> SUBSET Types]
    BY DEF WaitForCacheSync, InformerFor, Snapshot, SyncOne, SyncReturn, Lookup,
           MakeInformer, TypeOK, Registered
  <2>4. pc' \in [Callers -> PCs] /\ lock' \in Callers \cup {None}
    BY <1>1 DEF TypeOK, PCs, Locked
  <2> QED BY <1>1, <2>1, <2>2, <2>3, <2>4 DEF TypeOK
<1>3. LockInv'
  BY <1>1 DEF LockInv, TypeOK, Locked
<1>4. ArgInv' /\ FlagInv'
  BY <1>1 DEF ArgInv, FlagInv, TypeOK
<1> QED BY <1>1, <1>2, <1>3, <1>4, FactoryFrame

\* Two steps of a goroutine: Run returns, and then the deferred Done counts down.
LEMMA FactoryRunner ==
  ASSUME FactoryInv, NEW t \in Types, CacheSync(t) \/ Runner(t)
  PROVE  FactoryInv'
<1> USE DEF FactoryInv
<1>1. UNCHANGED <<lock, informers, startedInformers, shuttingDown, made, runCh, closed,
                 callerVars>>
  BY DEF CacheSync, Runner, RunReturn, WgDone, factoryVars
<1>2. LockInv' /\ ArgInv' /\ FlagInv'
  BY <1>1 DEF callerVars, LockInv, ArgInv, FlagInv
<1>3. CASE CacheSync(t) \/ RunReturn(t)
  <2>1. wg' = wg /\ Live' = Live /\ quiet' = quiet
    BY <1>3, <1>1 DEF CacheSync, RunReturn, factoryVars, callerVars, Live, Alive, TypeOK
  <2>2. TypeOK'
    BY <1>3 DEF CacheSync, RunReturn, TypeOK, factoryVars, callerVars
  <2>3. CountInv' /\ ShutdownIsFinal'
    BY <1>1, <1>3, <2>1 DEF CacheSync, RunReturn, CountInv, ShutdownIsFinal, TypeOK
  <2> QED BY <1>2, <2>2, <2>3
<1>4. CASE WgDone(t)
  <2>1. t \in Live /\ Live' = Live \ {t}
    BY <1>4 DEF WgDone, Live, Alive, TypeOK
  <2>2. Cardinality(Live') = Cardinality(Live) - 1 /\ Cardinality(Live') \in Nat
    BY <2>1, LiveFinite, FS_RemoveElement, FS_CardinalityType
  <2>3. TypeOK' /\ CountInv'
    BY <1>4, <2>2 DEF WgDone, TypeOK, CountInv, callerVars
  <2>4. ShutdownIsFinal'
    BY <1>1, <2>1 DEF ShutdownIsFinal, callerVars
  <2> QED BY <1>2, <2>3, <2>4
<1> QED BY <1>3, <1>4 DEF Runner

\* Every step keeps the invariant.
LEMMA FactoryNext == FactoryInv /\ [Next]_vars => FactoryInv'
<1> SUFFICES ASSUME FactoryInv, [Next]_vars PROVE FactoryInv'
  OBVIOUS
<1>1. ASSUME NEW c \in Callers, Call(c) \/ Lock(c) \/ Step(c) PROVE FactoryInv'
  BY <1>1, FactoryCall, FactoryStart, FactoryStartOne, FactoryShutdown, FactoryWaitFor
     DEF Step, Start
<1>2. ASSUME NEW t \in Types, CacheSync(t) \/ Runner(t) PROVE FactoryInv'
  BY <1>2, FactoryRunner
<1>3. ASSUME NEW ch \in Channels, Close(ch) PROVE FactoryInv'
  BY <1>3 DEF Close, factoryVars, callerVars, FactoryInv, TypeOK, ArgInv, LockInv,
     FlagInv, CountInv, ShutdownIsFinal, Live
<1>4. CASE UNCHANGED vars
  BY <1>4 DEF vars, factoryVars, runnerVars, callerVars, FactoryInv, TypeOK, ArgInv,
     LockInv, FlagInv, CountInv, ShutdownIsFinal, Live
<1> QED BY <1>1, <1>2, <1>3, <1>4 DEF Next

\* factory.go:108-184: lock, wait group, flag, informers and the steps of the
\* callers always fit together as FactoryInv says.
THEOREM FactoryInvariant == Spec => []FactoryInv
BY FactoryInit, FactoryNext, PTL DEF Spec

\* Every variable of the factory keeps its type, for any types and callers.
THEOREM TypeCorrect == Spec => []TypeOK
BY FactoryInvariant, PTL DEF FactoryInv

\* factory.go:215-224: after any call of Shutdown has returned, no informer
\* goroutine is running or will be.
THEOREM ShutdownIsFinalHolds == Spec => []ShutdownIsFinal
BY FactoryInvariant, PTL DEF FactoryInv

\* factory.go:118: the wait group's counter never goes up while a Shutdown is in
\* Wait, the rule sync.WaitGroup asks its users to keep.
THEOREM NoAddDuringWaitHolds == Spec => NoAddDuringWait
<1>1. ASSUME FactoryInv, [Next]_vars, NEW c \in Callers, pc[c] = "wgWait"
      PROVE  wg' <= wg
  <2>1. wg \in Nat /\ shuttingDown
    BY <1>1 DEF FactoryInv, TypeOK, FlagInv
  <2>2. \A d \in Callers, t \in Types : ~StartOne(d, t)
    BY <1>1, <2>1 DEF FactoryInv, FlagInv, StartOne
  <2>3. wg' = wg \/ wg' = wg - 1
    BY <1>1, <2>2 DEF Next, Call, Lock, LockShared, Step, Start, StartCheck,
       StartReturn, Shutdown, ShutdownMark, ShutdownReturn, WaitForCacheSync,
       Snapshot, SyncOne, SyncReturn, InformerFor, Lookup, MakeInformer, CacheSync,
       Runner, RunReturn, WgDone, Close, vars, factoryVars
  <2> QED BY <2>1, <2>3
<1>2. FactoryInv /\ [Next]_vars
        => [(\E c \in Callers : pc[c] = "wgWait") => wg' <= wg]_vars
  BY <1>1
<1> QED BY <1>2, FactoryInvariant, PTL DEF Spec, NoAddDuringWait

-----------------------------------------------------------------------------
(* Racing calls of InformerFor.                                            *)

\* What a caller was given is registered for the type it asked for, and a type
\* whose informer is about to be made has none yet.
HeldInv ==
  /\ \A c \in Callers : got[c] # 0 => arg[c] \in Types /\ informers[arg[c]] = got[c]
  /\ \A c \in Callers : pc[c] = "make" => informers[arg[c]] = 0

\* At the start no caller has been given an informer.
LEMMA HeldInit == Init => HeldInv
BY DEF Init, HeldInv

\* A step that registers nothing, hands out nothing and begins no "make".
LEMMA HeldFrame ==
  ASSUME FactoryInv, HeldInv, UNCHANGED <<informers, arg, got>>,
         \A c \in Callers : pc'[c] = "make" => pc[c] = "make"
  PROVE  HeldInv'
BY DEF HeldInv

\* A new call has been given nothing yet; the lock comes before the look-up.
LEMMA HeldCall ==
  ASSUME FactoryInv, HeldInv, NEW c \in Callers, Call(c) \/ Lock(c)
  PROVE  HeldInv'
<1>1. PICK l \in PCs \ {"make"} : pc' = [pc EXCEPT ![c] = l]
  BY DEF Call, Lock, LockShared, Goto, PCs, Locked, Blocked
<1>2. \A d \in Callers : pc'[d] = "make" => pc[d] = "make" /\ d # c
  BY <1>1 DEF FactoryInv, TypeOK
<1>3. CASE Call(c)
  <2>1. /\ informers' = informers /\ got' = [got EXCEPT ![c] = 0]
        /\ \A d \in Callers \ {c} : arg'[d] = arg[d]
    BY <1>3 DEF Call, factoryVars, FactoryInv, TypeOK
  <2> QED BY <2>1, <1>2 DEF HeldInv, FactoryInv, TypeOK
<1>4. CASE Lock(c)
  BY <1>2, <1>4, HeldFrame DEF Lock, LockShared
<1> QED BY <1>3, <1>4

\* The type that "make" registers had no informer, so nobody holds another one.
LEMMA HeldFor ==
  ASSUME FactoryInv, HeldInv, NEW c \in Callers, InformerFor(c)
  PROVE  HeldInv'
<1>1. arg' = arg /\ arg[c] \in Types
  BY DEF InformerFor, Lookup, MakeInformer, FactoryInv, ArgInv
<1>2. CASE Lookup(c)
  <2>1. \A d \in Callers : pc'[d] = "make" =>
          pc[d] = "make" \/ (d = c /\ informers[arg[c]] = 0)
    <3>1. PICK l \in {"idle", "make"} :
            pc' = [pc EXCEPT ![c] = l] /\ (l = "make" => informers[arg[c]] = 0)
      BY <1>2 DEF Lookup, Goto
    <3> QED BY <3>1 DEF FactoryInv, TypeOK
  <2>2. informers' = informers /\ got' \in {got, [got EXCEPT ![c] = informers[arg[c]]]}
    BY <1>2 DEF Lookup
  <2> QED BY <1>1, <2>1, <2>2 DEF HeldInv, FactoryInv, TypeOK
<1>3. CASE MakeInformer(c)
  <2> DEFINE n == made'[arg[c]]
  <2>1. /\ pc[c] = "make" /\ pc' = [pc EXCEPT ![c] = "idle"]
        /\ informers' = [informers EXCEPT ![arg[c]] = n]
        /\ got' = [got EXCEPT ![c] = n]
    BY <1>3 DEF MakeInformer, Goto
  <2> HIDE DEF n
  <2>2. \A d \in Callers \ {c} : pc'[d] # "make"
    BY <2>1 DEF FactoryInv, LockInv, Locked, TypeOK
  <2>3. pc'[c] # "make"
    BY <2>1 DEF FactoryInv, TypeOK
  <2>4. \A d \in Callers \ {c} : got[d] # 0 => arg[d] # arg[c]
    BY <2>1 DEF HeldInv
  <2>5. \A d \in Callers : got'[d] # 0 => arg[d] \in Types /\ informers'[arg[d]] = got'[d]
    BY <1>1, <2>1, <2>4 DEF HeldInv, FactoryInv, TypeOK
  <2> QED BY <1>1, <2>2, <2>3, <2>5 DEF HeldInv
<1> QED BY <1>2, <1>3 DEF InformerFor

\* Every step keeps the invariant.
LEMMA HeldNext == FactoryInv /\ HeldInv /\ [Next]_vars => HeldInv'
<1> SUFFICES ASSUME FactoryInv, HeldInv, [Next]_vars PROVE HeldInv'
  OBVIOUS
<1>1. ASSUME NEW c \in Callers, Start(c) \/ Shutdown(c) \/ WaitForCacheSync(c)
      PROVE  HeldInv'
  <2>1. UNCHANGED <<informers, arg, got>>
    BY <1>1 DEF Start, StartCheck, StartReturn, StartOne, Shutdown, ShutdownMark,
       ShutdownReturn, WaitForCacheSync, Snapshot, SyncOne, SyncReturn,
       factoryVars, callerVars
  <2>2. \E l \in PCs \ {"make"} : pc' \in {pc, [pc EXCEPT ![c] = l]}
    BY <1>1 DEF Start, StartCheck, StartReturn, StartOne, Shutdown, ShutdownMark,
       ShutdownReturn, WaitForCacheSync, Snapshot, SyncOne, SyncReturn, Goto,
       callerVars, PCs, Locked
  <2> QED BY <2>1, <2>2, HeldFrame DEF FactoryInv, TypeOK
<1>2. ASSUME NEW c \in Callers, Call(c) \/ Lock(c) \/ Step(c) PROVE HeldInv'
  BY <1>1, <1>2, HeldCall, HeldFor DEF Step
<1>3. ASSUME \/ \E t \in Types : CacheSync(t) \/ Runner(t)
             \/ \E ch \in Channels : Close(ch)
             \/ UNCHANGED vars
      PROVE  HeldInv'
  BY <1>3, HeldFrame DEF CacheSync, Runner, RunReturn, WgDone, Close, vars, factoryVars,
     callerVars
<1> QED BY <1>2, <1>3 DEF Next

\* factory.go:164-184: callers that race for one type are given one informer,
\* the one that is registered and that Start runs.
THEOREM SharedInformerHolds == Spec => []SharedInformer
<1>1. HeldInv => SharedInformer
  BY DEF HeldInv, SharedInformer
<1> QED BY <1>1, HeldInit, HeldNext, FactoryInvariant, PTL DEF Spec

=============================================================================
