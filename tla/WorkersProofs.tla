--------------------------- MODULE WorkersProofs ---------------------------
(***************************************************************************)
(* Proofs about Workers, for any number of workers, handlers, connections, *)
(* sessions and credentials.                                               *)
(***************************************************************************)
EXTENDS Workers, FiniteSetTheorems, TLAPS

\* Worker.inUse is the number of operations that use the worker.
RefCount == IsFiniteSet(ops) /\ \A w \in Workers : inUse[w] = Cardinality(UsedBy(w))

\* Serve has returned only with the wait group at zero.
ReturnedAtZero == serve = "returned" => wg = 0

\* The inductive invariant.
IInv ==
    /\ TypeOK
    /\ RefCount
    /\ CleanupIsExclusive
    /\ CleanedUpOnce
    /\ WaitGroupIsExact
    /\ LiveWorkerIsInTable
    /\ ReturnedAtZero
-----------------------------------------------------------------------------
\* A worker is in use exactly when its count is not zero (Close, Discard).
LEMMA InUseZero ==
    ASSUME RefCount, NEW w \in Workers
    PROVE  /\ IsFiniteSet(UsedBy(w))
           /\ inUse[w] \in Nat
           /\ inUse[w] = 0 <=> UsedBy(w) = {}
<1>1. IsFiniteSet(UsedBy(w))
  BY FS_Subset DEF RefCount, UsedBy
<1>2. Cardinality(UsedBy(w)) \in Nat /\ (Cardinality(UsedBy(w)) = 0 <=> UsedBy(w) = {})
  BY <1>1, FS_CardinalityType, FS_EmptySet
<1> QED
  BY <1>1, <1>2 DEF RefCount

\* The operation a GetWorker starts is one more user of its worker, and of no
\* other.
LEMMA BeginUses ==
    ASSUME TypeOK, NEW h, NEW c, NEW w \in Workers, Begin(h, c, w)
    PROVE  LET op == [h |-> h, conn |-> c, w |-> w]
           IN  /\ op \notin ops
               /\ ops' = ops \cup {op}
               /\ UsedBy(w)' = UsedBy(w) \cup {op}
               /\ \A v \in Workers : v # w => UsedBy(v)' = UsedBy(v)
<1> DEFINE op == [h |-> h, conn |-> c, w |-> w]
<1>1. op.h = h /\ op.w = w
  OBVIOUS
<1>2. ops' = ops \cup {op} /\ op \notin ops
  BY <1>1 DEF Begin
<1> HIDE DEF op
<1> QED
  BY <1>1, <1>2 DEF UsedBy, op

\* The part of BeginUses about the other workers.
LEMMA BeginOthers ==
    ASSUME TypeOK, NEW h, NEW c, NEW w \in Workers, Begin(h, c, w)
    PROVE  \A v \in Workers : v # w => UsedBy(v)' = UsedBy(v)
<1> DEFINE op == [h |-> h, conn |-> c, w |-> w]
<1>1. op.w = w /\ ops' = ops \cup {op}
  BY DEF Begin
<1> HIDE DEF op
<1> QED
  BY <1>1 DEF UsedBy

\* Begin keeps the count exact when inUse of its worker grows by one.
LEMMA BeginCounts ==
    ASSUME TypeOK, RefCount, NEW h, NEW c, NEW w \in Workers, Begin(h, c, w),
           inUse' = [inUse EXCEPT ![w] = @ + 1]
    PROVE  RefCount'
<1> DEFINE op == [h |-> h, conn |-> c, w |-> w]
<1>1. /\ op \notin ops
      /\ ops' = ops \cup {op}
      /\ UsedBy(w)' = UsedBy(w) \cup {op}
      /\ \A v \in Workers : v # w => UsedBy(v)' = UsedBy(v)
  BY BeginUses
<1> HIDE DEF op
<1>2. op \notin UsedBy(w)
  BY <1>1 DEF UsedBy
<1>3. Cardinality(UsedBy(w)') = Cardinality(UsedBy(w)) + 1
  BY <1>1, <1>2, InUseZero, FS_AddElement, ZenonT(60)
<1>4. IsFiniteSet(ops')
  BY <1>1, FS_AddElement DEF RefCount
<1>5. \A v \in Workers : inUse'[v] = Cardinality(UsedBy(v)')
  BY <1>1, <1>3, Zenon DEF RefCount, TypeOK
<1> QED
  BY <1>4, <1>5 DEF RefCount

\* The deferred Close of an operation keeps the count exact.
LEMMA EndCounts ==
    ASSUME TypeOK, RefCount, NEW op \in ops, EndOperation(op)
    PROVE  /\ RefCount'
           /\ UsedBy(op.w)' = UsedBy(op.w) \ {op}
           /\ \A v \in Workers : v # op.w => UsedBy(v)' = UsedBy(v)
<1>1. op.w \in Workers
  BY DEF TypeOK
<1>2. ops' = ops \ {op} /\ inUse' = [inUse EXCEPT ![op.w] = @ - 1]
  BY DEF EndOperation, Close
<1>3. /\ UsedBy(op.w)' = UsedBy(op.w) \ {op}
      /\ \A v \in Workers : v # op.w => UsedBy(v)' = UsedBy(v)
  BY <1>2 DEF UsedBy
<1>4. op \in UsedBy(op.w)
  BY DEF UsedBy
<1>5. Cardinality(UsedBy(op.w)') = Cardinality(UsedBy(op.w)) - 1
  BY <1>1, <1>3, <1>4, InUseZero, FS_RemoveElement, ZenonT(60)
<1>6. IsFiniteSet(ops')
  BY <1>2, FS_RemoveElement DEF RefCount
<1>7. \A v \in Workers : inUse'[v] = Cardinality(UsedBy(v)')
  BY <1>1, <1>2, <1>3, <1>5, Zenon DEF RefCount, TypeOK
<1> QED
  BY <1>3, <1>6, <1>7 DEF RefCount
-----------------------------------------------------------------------------
\* A worker that is not made yet is unused, and making it counts one user.
LEMMA NewCounts ==
    ASSUME TypeOK, RefCount, NEW h, NEW c, NEW o, NEW w \in Workers,
           NewWorker(w, o), Begin(h, c, w)
    PROVE  RefCount' /\ UsedBy(w) = {} /\ inUse[w] = 0
<1>1. UsedBy(w) = {}
  BY DEF NewWorker, UsedBy, TypeOK
<1>2. inUse[w] = 0
  BY <1>1, InUseZero
<1>3. inUse' = [inUse EXCEPT ![w] = @ + 1]
  BY <1>2 DEF NewWorker, TypeOK
<1> QED
  BY <1>1, <1>2, <1>3, BeginCounts, Zenon

\* Begin keeps the typing of the operations.
LEMMA BeginTyped ==
    ASSUME TypeOK, NEW h \in Handlers, NEW c \in Conns, NEW w \in Workers,
           Begin(h, c, w), w \in created', created \subseteq created', conn' = conn
    PROVE  /\ ops' \subseteq Op
           /\ \A p, q \in ops' : p.h = q.h => p = q
           /\ \A op \in ops' : op.w \in created' /\ op.conn \in ActiveConns'
<1> DEFINE new == [h |-> h, conn |-> c, w |-> w]
<1>1. new \in Op /\ new.h = h /\ new.w = w /\ new.conn = c
  BY DEF Op
<1>2. ops' = ops \cup {new} /\ (\A op \in ops : op.h # h) /\ c \in ActiveConns
  BY DEF Begin, ActiveConns
<1>3. ActiveConns' = ActiveConns
  BY DEF ActiveConns
<1> HIDE DEF new
<1> QED
  BY <1>1, <1>2, <1>3 DEF TypeOK

\* NewWorker keeps the typing of the table of workers.
LEMMA NewTyped ==
    ASSUME TypeOK, NEW o \in Owner, NEW w \in Workers, NewWorker(w, o)
    PROVE  /\ created' \subseteq Workers /\ created' = created \cup {w}
           /\ owner' \in [created' -> Owner]
           /\ DOMAIN workers' \subseteq {Key(p) : p \in Owner}
           /\ workers' \in [DOMAIN workers' -> created']
           /\ inUse' \in [Workers -> Int]
           /\ wg' \in Int
BY DEF TypeOK, NewWorker

\* Discard marks one worker and may start one goroutine.
LEMMA DiscardTyped ==
    ASSUME TypeOK, NEW w \in created, Discard(w)
    PROVE  discarded' = discarded \cup {w} /\ spawned' \in [Workers -> Int]
BY DEF TypeOK, Discard, MarkDiscarded

\* The worker GetWorker finds has been made.
LEMMA FoundCreated ==
    ASSUME TypeOK, NEW o \in Owner, Found(o)
    PROVE  workers[Key(o)] \in created /\ workers[Key(o)] \in Workers
BY DEF TypeOK, Found

\* Every step keeps the type invariant.
LEMMA TypeStep ==
    ASSUME IInv, [Next]_vars
    PROVE  TypeOK'
<1> USE DEF IInv
<1>1. ASSUME NEW h \in Handlers, NEW c \in Conns, NEW o \in Owner, GetWorkerReuse(h, c, o)
      PROVE  TypeOK'
  <2>1. workers[Key(o)] \in created /\ workers[Key(o)] \in Workers
    BY <1>1, FoundCreated DEF GetWorkerReuse
  <2>2. /\ ops' \subseteq Op
        /\ \A p, q \in ops' : p.h = q.h => p = q
        /\ \A op \in ops' : op.w \in created' /\ op.conn \in ActiveConns'
    BY <1>1, <2>1, BeginTyped DEF GetWorkerReuse, serverVars
  <2> QED
    BY <1>1, <2>1, <2>2 DEF GetWorkerReuse, Use, TypeOK, serverVars
<1>2. ASSUME NEW h \in Handlers, NEW c \in Conns, NEW o \in Owner, NEW w \in Workers,
             GetWorkerNew(h, c, o, w) \/ GetWorkerReplace(h, c, o, w)
      PROVE  TypeOK'
  <2>1. NewWorker(w, o) /\ Begin(h, c, w) /\ UNCHANGED <<conn, serve, ctxDone, listening>>
    BY <1>2 DEF GetWorkerNew, GetWorkerReplace
  <2>2. discarded' \subseteq created /\ discarded \subseteq discarded'
        /\ spawned' \in [Workers -> Int]
    <3>1. CASE GetWorkerNew(h, c, o, w)
      BY <3>1, Zenon DEF GetWorkerNew, TypeOK
    <3>2. CASE GetWorkerReplace(h, c, o, w)
      BY <3>2, FoundCreated, DiscardTyped DEF GetWorkerReplace, TypeOK
    <3> QED
      BY <1>2, <3>1, <3>2
  <2>3. /\ created' \subseteq Workers /\ created' = created \cup {w}
        /\ owner' \in [created' -> Owner]
        /\ DOMAIN workers' \subseteq {Key(p) : p \in Owner}
        /\ workers' \in [DOMAIN workers' -> created']
        /\ inUse' \in [Workers -> Int]
        /\ wg' \in Int
    BY <2>1, NewTyped
  <2>4. /\ ops' \subseteq Op
        /\ \A p, q \in ops' : p.h = q.h => p = q
        /\ \A op \in ops' : op.w \in created' /\ op.conn \in ActiveConns'
    BY <2>1, <2>3, BeginTyped
  <2>5. idle' = idle /\ cleaned' = cleaned
    BY <2>1 DEF NewWorker
  <2> QED
    BY <2>1, <2>2, <2>3, <2>4, <2>5 DEF TypeOK
<1>3. ASSUME NEW op \in ops, DiscardOnServerFault(op)
      PROVE  TypeOK'
  <2>1. op.w \in created
    BY DEF TypeOK
  <2> QED
    BY <1>3, <2>1, DiscardTyped DEF DiscardOnServerFault, TypeOK, serverVars, ActiveConns
<1>4. ASSUME NEW op \in ops, EndOperation(op)
      PROVE  TypeOK'
  BY <1>4 DEF EndOperation, Close, TypeOK, serverVars, ActiveConns
<1>5. ASSUME NEW w \in Workers, GoIdle(w)
      PROVE  TypeOK'
  BY <1>5 DEF GoIdle, TypeOK, serverVars, ActiveConns
<1>6. ASSUME NEW w \in Workers, AutoDiscard(w)
      PROVE  TypeOK'
  BY <1>6 DEF AutoDiscard, MarkDiscarded, TypeOK, serverVars, ActiveConns
<1>7. ASSUME NEW w \in Workers, Cleanup(w)
      PROVE  TypeOK'
  BY <1>7 DEF Cleanup, TypeOK, ActiveConns, CleanupIsExclusive
<1>8. ASSUME NEW c \in Conns, Accept(c) \/ Drain(c) \/ Stick(c) \/ EndConn(c)
      PROVE  TypeOK'
  BY <1>8 DEF Accept, Drain, Stick, EndConn, TypeOK, workerVars, ActiveConns, ConnStates
<1>9. CASE Cancel \/ CloseListener \/ AcceptFails \/ ServeReturns
  BY <1>9, Zenon DEF Cancel, CloseListener, AcceptFails, ServeReturns, TypeOK, workerVars,
                      ActiveConns
<1>10. CASE UNCHANGED vars
  BY <1>10, Zenon DEF vars, workerVars, serverVars, TypeOK, ActiveConns
<1> QED
  BY <1>1, <1>2, <1>3, <1>4, <1>5, <1>6, <1>7, <1>8, <1>9, <1>10, Zenon DEF Next, GetWorker
-----------------------------------------------------------------------------
\* The steps that leave operations and counts alone.
QuietStep ==
    \/ \E w \in Workers : GoIdle(w) \/ AutoDiscard(w) \/ Cleanup(w)
    \/ \E op \in ops : DiscardOnServerFault(op)
    \/ \E c \in Conns : Accept(c) \/ Drain(c) \/ Stick(c) \/ EndConn(c)
    \/ Cancel \/ CloseListener \/ AcceptFails \/ ServeReturns
    \/ UNCHANGED vars

\* Quiet steps change no operation, no count and no entry of the table.
LEMMA QuietKeeps ==
    ASSUME QuietStep
    PROVE  UNCHANGED <<ops, inUse, created, owner, workers>>
BY DEF QuietStep, GoIdle, AutoDiscard, Cleanup, DiscardOnServerFault, Accept, Drain,
       Stick, EndConn, Cancel, CloseListener, AcceptFails, ServeReturns, vars, workerVars

\* Every step starts an operation, ends one, or is quiet.
LEMMA StepKinds ==
    ASSUME [Next]_vars
    PROVE  \/ \E h \in Handlers, c \in Conns, o \in Owner : GetWorkerReuse(h, c, o)
           \/ \E h \in Handlers, c \in Conns, o \in Owner, w \in Workers :
                GetWorkerNew(h, c, o, w) \/ GetWorkerReplace(h, c, o, w)
           \/ \E op \in ops : EndOperation(op)
           \/ QuietStep
BY DEF Next, GetWorker, QuietStep

\* Every step keeps Worker.inUse exact.
LEMMA RefStep ==
    ASSUME IInv, [Next]_vars
    PROVE  RefCount'
<1> USE DEF IInv
<1>1. ASSUME NEW h \in Handlers, NEW c \in Conns, NEW o \in Owner, GetWorkerReuse(h, c, o)
      PROVE  RefCount'
  <2>1. workers[Key(o)] \in Workers
    BY <1>1, FoundCreated DEF GetWorkerReuse
  <2> QED
    BY <1>1, <2>1, BeginCounts, Zenon DEF GetWorkerReuse, Use
<1>2. ASSUME NEW h \in Handlers, NEW c \in Conns, NEW o \in Owner, NEW w \in Workers,
             GetWorkerNew(h, c, o, w) \/ GetWorkerReplace(h, c, o, w)
      PROVE  RefCount'
  BY <1>2, NewCounts DEF GetWorkerNew, GetWorkerReplace
<1>3. ASSUME NEW op \in ops, EndOperation(op)
      PROVE  RefCount'
  BY <1>3, EndCounts
<1>4. CASE QuietStep
  BY <1>4, QuietKeeps DEF RefCount, UsedBy
<1> QED
  BY <1>1, <1>2, <1>3, <1>4, StepKinds

\* What the two invariants about cleanup say of one worker.
CleanOK(w) ==
    /\ spawned[w] = IF w \in discarded \ cleaned /\ UsedBy(w) = {} THEN 1 ELSE 0
    /\ w \in cleaned => UsedBy(w) = {}

\* CleanOK, for all workers, is what CleanedUpOnce and CleanupIsExclusive say.
LEMMA CleanOKIff ==
    ASSUME TypeOK
    PROVE  (\A w \in Workers : CleanOK(w)) <=> CleanedUpOnce /\ CleanupIsExclusive
BY DEF TypeOK, CleanOK, CleanedUpOnce, CleanupIsExclusive

\* Discard starts a cleanup exactly when the worker was live and is unused.
LEMMA DiscardCleans ==
    ASSUME TypeOK, RefCount, NEW w \in created, Discard(w), cleaned' = cleaned,
           UsedBy(w)' = UsedBy(w), CleanOK(w)
    PROVE  CleanOK(w)' /\ \A v \in Workers : v # w => spawned'[v] = spawned[v]
<1>1. w \in Workers
  BY DEF TypeOK
<1>2. inUse[w] \in Nat /\ (inUse[w] = 0 <=> UsedBy(w) = {})
  BY <1>1, InUseZero
<1>3. CASE w \in discarded
  BY <1>3 DEF Discard, CleanOK
<1>4. CASE w \notin discarded
  <2>1. discarded' = discarded \cup {w}
        /\ spawned' = [spawned EXCEPT ![w] = IF inUse[w] > 0 THEN @ ELSE @ + 1]
    BY <1>4 DEF Discard, MarkDiscarded
  <2>2. w \notin cleaned /\ spawned[w] = 0
    BY <1>4 DEF CleanOK, TypeOK
  <2>3. spawned'[w] = IF UsedBy(w) = {} THEN 1 ELSE 0
    BY <1>1, <1>2, <2>1, <2>2 DEF TypeOK
  <2>4. CleanOK(w)'
    BY <2>1, <2>2, <2>3 DEF CleanOK
  <2> QED
    BY <2>1, <2>4 DEF TypeOK
<1> QED
  BY <1>3, <1>4

\* Every step keeps the two invariants about cleanup.
LEMMA CleanStep ==
    ASSUME IInv, [Next]_vars
    PROVE  CleanedUpOnce' /\ CleanupIsExclusive'
<1> USE DEF IInv
<1>0. SUFFICES \A v \in Workers : CleanOK(v)'
  BY TypeStep DEF TypeOK, CleanOK, CleanedUpOnce, CleanupIsExclusive
<1>a. \A v \in Workers : CleanOK(v)
  BY CleanOKIff
<1>1. ASSUME NEW h \in Handlers, NEW c \in Conns, NEW o \in Owner, GetWorkerReuse(h, c, o),
             NEW v \in Workers
      PROVE  CleanOK(v)'
  <2>0. PICK u \in Workers : u = workers[Key(o)]
    BY <1>1, FoundCreated DEF GetWorkerReuse
  <2>1. u \notin discarded /\ Begin(h, c, u) /\ UNCHANGED <<spawned, discarded, cleaned>>
    BY <1>1, <2>0 DEF GetWorkerReuse, Use
  <2>2. \A x \in Workers : x # u => UsedBy(x)' = UsedBy(x)
    BY <2>1, BeginOthers
  <2>3. u \notin cleaned
    BY <2>1 DEF TypeOK
  <2> QED
    BY <1>a, <2>1, <2>2, <2>3 DEF CleanOK
<1>2. ASSUME NEW h \in Handlers, NEW c \in Conns, NEW o \in Owner, NEW w \in Workers,
             GetWorkerNew(h, c, o, w) \/ GetWorkerReplace(h, c, o, w), NEW v \in Workers
      PROVE  CleanOK(v)'
  <2>1. NewWorker(w, o) /\ Begin(h, c, w) /\ cleaned' = cleaned /\ w \notin created
    BY <1>2 DEF GetWorkerNew, GetWorkerReplace, NewWorker
  <2>2. \A x \in Workers : x # w => UsedBy(x)' = UsedBy(x)
    BY <2>1, BeginOthers
  <2>3. w \notin discarded /\ w \notin cleaned
    BY <2>1 DEF TypeOK
  <2>4. CASE GetWorkerNew(h, c, o, w)
    <3>1. UNCHANGED <<spawned, discarded, cleaned>>
      BY <2>1, <2>4, Zenon DEF GetWorkerNew
    <3> QED
      BY <1>a, <2>2, <2>3, <3>1 DEF CleanOK
  <2>5. CASE GetWorkerReplace(h, c, o, w)
    <3>0. PICK u \in Workers : u = workers[Key(o)] /\ u \in created
      BY <2>5, FoundCreated DEF GetWorkerReplace
    <3>1. Discard(u) /\ u # w
      BY <2>1, <2>5, <3>0, Zenon DEF GetWorkerReplace
    <3>2. CleanOK(u)' /\ \A x \in Workers : x # u => spawned'[x] = spawned[x]
      BY <1>a, <2>1, <2>2, <3>0, <3>1, DiscardCleans
    <3>3. discarded' = discarded \cup {u}
      BY <3>0, <3>1, DiscardTyped
    <3> QED
      BY <1>a, <2>1, <2>2, <2>3, <3>1, <3>2, <3>3, Zenon DEF CleanOK
  <2> QED
    BY <1>2, <2>4, <2>5, ZenonT(60)
<1>3. ASSUME NEW op \in ops, EndOperation(op), NEW v \in Workers
      PROVE  CleanOK(v)'
  <2> DEFINE u == op.w
  <2>1. /\ u \in Workers /\ op \in UsedBy(u)
        /\ spawned' = [spawned EXCEPT ![u] = IF u \in discarded /\ inUse[u] = 1 THEN @ + 1 ELSE @]
        /\ inUse' = [inUse EXCEPT ![u] = @ - 1]
        /\ UNCHANGED <<discarded, cleaned>>
    BY <1>3 DEF EndOperation, Close, TypeOK, UsedBy
  <2>2. RefCount' /\ (\A x \in Workers : x # u => UsedBy(x)' = UsedBy(x))
    BY <1>3, EndCounts, Zenon
  <2> HIDE DEF u
  <2>3. CASE v # u
    BY <1>a, <2>1, <2>2, <2>3, Zenon DEF CleanOK, TypeOK
  <2>4. CASE v = u
    <3>1. UsedBy(u) # {} /\ u \notin cleaned /\ spawned[u] = 0
      BY <1>a, <2>1 DEF CleanOK
    <3>2. inUse'[u] = inUse[u] - 1 /\ inUse[u] \in Int
      BY <2>1 DEF TypeOK
    <3>3. inUse'[u] = 0 <=> UsedBy(u)' = {}
      <4>1. IsFiniteSet(UsedBy(u)')
        BY <2>2, FS_Subset DEF RefCount, UsedBy
      <4> QED
        BY <2>1, <2>2, <4>1, FS_EmptySet, Zenon DEF RefCount
    <3>4. inUse[u] = 1 <=> UsedBy(u)' = {}
      BY <3>2, <3>3
    <3>5. spawned'[u] = IF u \in discarded /\ inUse[u] = 1 THEN 1 ELSE 0
      BY <2>1, <3>1 DEF TypeOK
    <3> QED
      BY <2>1, <2>4, <3>1, <3>4, <3>5 DEF CleanOK
  <2> QED
    BY <2>3, <2>4, Zenon
<1>4. ASSUME NEW op \in ops, DiscardOnServerFault(op), NEW v \in Workers
      PROVE  CleanOK(v)'
  <2>1. op.w \in created /\ Discard(op.w) /\ UNCHANGED <<ops, cleaned>>
    BY <1>4 DEF DiscardOnServerFault, TypeOK
  <2>2. \A x \in Workers : UsedBy(x)' = UsedBy(x)
    BY <2>1 DEF UsedBy
  <2>3. op.w \in Workers /\ discarded' = discarded \cup {op.w}
    BY <2>1, DiscardTyped, Zenon DEF TypeOK
  <2>4. CleanOK(op.w)' /\ \A x \in Workers : x # op.w => spawned'[x] = spawned[x]
    BY <1>a, <2>1, <2>2, <2>3, DiscardCleans, Zenon
  <2> QED
    BY <1>a, <2>1, <2>2, <2>3, <2>4 DEF CleanOK
<1>5. ASSUME NEW w \in Workers, AutoDiscard(w), NEW v \in Workers
      PROVE  CleanOK(v)'
  <2>1. w \in created /\ Discard(w) /\ UNCHANGED <<ops, cleaned>>
    BY <1>5 DEF AutoDiscard, Discard
  <2>2. \A x \in Workers : UsedBy(x)' = UsedBy(x)
    BY <2>1 DEF UsedBy
  <2>3. discarded' = discarded \cup {w}
    BY <2>1, DiscardTyped, Zenon
  <2>4. CleanOK(w)' /\ \A x \in Workers : x # w => spawned'[x] = spawned[x]
    BY <1>a, <2>1, <2>2, DiscardCleans, Zenon
  <2> QED
    BY <1>a, <2>1, <2>2, <2>3, <2>4 DEF CleanOK
<1>6. ASSUME NEW w \in Workers, Cleanup(w), NEW v \in Workers
      PROVE  CleanOK(v)'
  BY <1>6, <1>a DEF Cleanup, CleanOK, UsedBy, TypeOK
<1>7. ASSUME QuietStep,
             ~\E op \in ops : DiscardOnServerFault(op),
             ~\E w \in Workers : AutoDiscard(w) \/ Cleanup(w),
             NEW v \in Workers
      PROVE  CleanOK(v)'
  <2>1. UNCHANGED <<ops, spawned, discarded, cleaned>>
    BY <1>7 DEF QuietStep, GoIdle, Accept, Drain, Stick, EndConn, Cancel, CloseListener,
                AcceptFails, ServeReturns, vars, workerVars
  <2> QED
    BY <1>a, <2>1, Zenon DEF CleanOK, UsedBy
<1> QED
  BY <1>1, <1>2, <1>3, <1>4, <1>5, <1>6, <1>7, StepKinds, Zenon
-----------------------------------------------------------------------------
\* The sets the wait group counts are finite, and empty when it is zero.
LEMMA CountsFinite ==
    ASSUME TypeOK, WaitGroupIsExact
    PROVE  /\ IsFiniteSet(ActiveConns) /\ IsFiniteSet(created \ cleaned)
           /\ Cardinality(ActiveConns) \in Nat
           /\ Cardinality(created \ cleaned) \in Nat
           /\ wg = 0 => ActiveConns = {} /\ created \ cleaned = {}
<1>1. IsFiniteSet(ActiveConns)
  BY WorkersAssumption, FS_Subset DEF ActiveConns
<1>2. IsFiniteSet(created \ cleaned)
  BY WorkersAssumption, FS_Subset DEF TypeOK
<1>3. Cardinality(ActiveConns) \in Nat /\ Cardinality(created \ cleaned) \in Nat
  BY <1>1, <1>2, FS_CardinalityType
<1>4. ASSUME wg = 0
      PROVE  Cardinality(ActiveConns) = 0 /\ Cardinality(created \ cleaned) = 0
  BY <1>3, <1>4 DEF WaitGroupIsExact
<1> QED
  BY <1>1, <1>2, <1>3, <1>4, FS_EmptySet, Zenon

\* Every step keeps the wait group exact.
LEMMA WaitGroupStep ==
    ASSUME IInv, [Next]_vars
    PROVE  WaitGroupIsExact'
<1> USE DEF IInv
<1>0. /\ IsFiniteSet(ActiveConns) /\ IsFiniteSet(created \ cleaned)
      /\ Cardinality(ActiveConns) \in Nat
      /\ Cardinality(created \ cleaned) \in Nat
      /\ wg = Cardinality(ActiveConns) + Cardinality(created \ cleaned)
  BY CountsFinite DEF WaitGroupIsExact
<1>1. ASSUME NEW h \in Handlers, NEW c \in Conns, NEW o \in Owner, NEW w \in Workers,
             GetWorkerNew(h, c, o, w) \/ GetWorkerReplace(h, c, o, w)
      PROVE  WaitGroupIsExact'
  <2>1. /\ w \notin created /\ created' = created \cup {w} /\ wg' = wg + 1
        /\ UNCHANGED <<conn, cleaned>>
    BY <1>1 DEF GetWorkerNew, GetWorkerReplace, NewWorker
  <2>2. ActiveConns' = ActiveConns
    BY <2>1 DEF ActiveConns
  <2>3. w \notin cleaned
    BY <2>1 DEF TypeOK
  <2>4. w \notin created \ cleaned /\ created' \ cleaned' = (created \ cleaned) \cup {w}
    BY <2>1, <2>3
  <2>5. Cardinality(created' \ cleaned') = Cardinality(created \ cleaned) + 1
    BY <1>0, <2>4, FS_AddElement, Zenon
  <2> QED
    BY <1>0, <2>1, <2>2, <2>5, SMTT(60) DEF WaitGroupIsExact
<1>2. ASSUME NEW w \in Workers, Cleanup(w)
      PROVE  WaitGroupIsExact'
  <2>1. /\ spawned[w] > 0 /\ cleaned' = cleaned \cup {w} /\ wg' = wg - 1
        /\ UNCHANGED <<conn, created>>
    BY <1>2 DEF Cleanup
  <2>2. ActiveConns' = ActiveConns
    BY <2>1 DEF ActiveConns
  <2>3. w \in discarded \ cleaned
    BY <2>1 DEF CleanedUpOnce
  <2>4. w \in created \ cleaned /\ created' \ cleaned' = (created \ cleaned) \ {w}
    BY <2>1, <2>3 DEF TypeOK
  <2>5. Cardinality(created' \ cleaned') = Cardinality(created \ cleaned) - 1
    BY <1>0, <2>4, FS_RemoveElement, ZenonT(60)
  <2> QED
    BY <1>0, <2>1, <2>2, <2>5 DEF WaitGroupIsExact
<1>3. ASSUME NEW c \in Conns, Accept(c)
      PROVE  WaitGroupIsExact'
  <2>1. c \notin ActiveConns /\ ActiveConns' = ActiveConns \cup {c}
        /\ wg' = wg + 1 /\ UNCHANGED <<created, cleaned>>
    BY <1>3 DEF Accept, ActiveConns, TypeOK, workerVars
  <2>2. Cardinality(ActiveConns') = Cardinality(ActiveConns) + 1
    BY <1>0, <2>1, FS_AddElement, Zenon
  <2> QED
    BY <1>0, <2>1, <2>2 DEF WaitGroupIsExact
<1>4. ASSUME NEW c \in Conns, EndConn(c)
      PROVE  WaitGroupIsExact'
  <2>1. c \in ActiveConns /\ ActiveConns' = ActiveConns \ {c}
        /\ wg' = wg - 1 /\ UNCHANGED <<created, cleaned>>
    BY <1>4 DEF EndConn, ActiveConns, TypeOK, workerVars
  <2>2. Cardinality(ActiveConns') = Cardinality(ActiveConns) - 1
    BY <1>0, <2>1, FS_RemoveElement, Zenon
  <2> QED
    BY <1>0, <2>1, <2>2 DEF WaitGroupIsExact
<1>5. ASSUME UNCHANGED <<wg, created, cleaned>>, ActiveConns' = ActiveConns
      PROVE  WaitGroupIsExact'
  BY <1>5, Zenon DEF WaitGroupIsExact
<1>6. ASSUME NEW c \in Conns, Drain(c) \/ Stick(c)
      PROVE  WaitGroupIsExact'
  BY <1>5, <1>6, Zenon DEF Drain, Stick, ActiveConns, TypeOK, workerVars
<1>7. ASSUME NEW h \in Handlers, NEW c \in Conns, NEW o \in Owner, GetWorkerReuse(h, c, o)
      PROVE  WaitGroupIsExact'
  BY <1>5, <1>7, Zenon DEF GetWorkerReuse, ActiveConns, serverVars
<1>8. ASSUME NEW op \in ops, DiscardOnServerFault(op) \/ EndOperation(op)
      PROVE  WaitGroupIsExact'
  BY <1>5, <1>8, Zenon DEF DiscardOnServerFault, EndOperation, Close, ActiveConns, serverVars
<1>9. ASSUME NEW w \in Workers, GoIdle(w) \/ AutoDiscard(w)
      PROVE  WaitGroupIsExact'
  BY <1>5, <1>9, Zenon DEF GoIdle, AutoDiscard, ActiveConns, serverVars
<1>10. CASE Cancel \/ CloseListener \/ AcceptFails \/ ServeReturns \/ UNCHANGED vars
  BY <1>5, <1>10 DEF Cancel, CloseListener, AcceptFails, ServeReturns, ActiveConns,
                     vars, workerVars, serverVars
<1> QED
  BY <1>1, <1>2, <1>3, <1>4, <1>6, <1>7, <1>8, <1>9, <1>10, Zenon DEF Next, GetWorker

\* Every step keeps live workers in the table.
LEMMA TableStep ==
    ASSUME IInv, [Next]_vars
    PROVE  LiveWorkerIsInTable'
<1> USE DEF IInv
<1>1. ASSUME NEW h \in Handlers, NEW c \in Conns, NEW o \in Owner, NEW w \in Workers,
             GetWorkerNew(h, c, o, w) \/ GetWorkerReplace(h, c, o, w)
      PROVE  LiveWorkerIsInTable'
  <2>1. NewWorker(w, o)
    BY <1>1 DEF GetWorkerNew, GetWorkerReplace
  <2>2. Found(o) => workers[Key(o)] \in discarded'
    <3>1. CASE GetWorkerNew(h, c, o, w)
      BY <3>1 DEF GetWorkerNew
    <3>2. CASE GetWorkerReplace(h, c, o, w)
      BY <3>2, Zenon DEF GetWorkerReplace, Discard, MarkDiscarded
    <3> QED
      BY <1>1, <3>1, <3>2
  <2>3. discarded \subseteq discarded'
    BY <1>1 DEF GetWorkerNew, GetWorkerReplace, Discard, MarkDiscarded
  <2>4. SUFFICES ASSUME NEW v \in created' \ discarded'
                 PROVE  LET k == Key(owner'[v])
                        IN  k \in DOMAIN workers' /\ workers'[k] = v
    BY Zenon DEF LiveWorkerIsInTable, Key
  <2>5. CASE v = w
    BY <2>1, <2>5, Zenon DEF NewWorker
  <2>6. CASE v # w
    <3>1. v \in created \ discarded /\ owner'[v] = owner[v]
      BY <2>1, <2>3, <2>6 DEF NewWorker
    <3>2. Key(owner[v]) \in DOMAIN workers /\ workers[Key(owner[v])] = v
      BY <3>1 DEF LiveWorkerIsInTable
    <3>3. Key(owner[v]) # Key(o)
      BY <2>2, <3>2, Zenon DEF Found
    <3> QED
      BY <2>1, <3>1, <3>2, <3>3, Zenon DEF NewWorker
  <2> QED
    BY <2>5, <2>6
<1>2. ASSUME UNCHANGED <<created, owner, workers>>, discarded \subseteq discarded'
      PROVE  LiveWorkerIsInTable'
  BY <1>2 DEF LiveWorkerIsInTable, Key
<1>3. ASSUME NEW h \in Handlers, NEW c \in Conns, NEW o \in Owner, GetWorkerReuse(h, c, o)
      PROVE  LiveWorkerIsInTable'
  BY <1>2, <1>3 DEF GetWorkerReuse
<1>4. ASSUME NEW op \in ops, EndOperation(op)
      PROVE  LiveWorkerIsInTable'
  BY <1>2, <1>4 DEF EndOperation, Close
<1>5. CASE QuietStep
  <2>1. discarded \subseteq discarded'
    BY <1>5, Zenon DEF QuietStep, GoIdle, AutoDiscard, Cleanup, DiscardOnServerFault, Discard,
                MarkDiscarded, Accept, Drain, Stick, EndConn, Cancel, CloseListener, AcceptFails,
                ServeReturns, vars, workerVars
  <2> QED
    BY <1>2, <1>5, <2>1, QuietKeeps, Zenon
<1> QED
  BY <1>1, <1>3, <1>4, <1>5, StepKinds, Zenon

\* Once Serve waits with the wait group at zero, no step changes the wait group.
LEMMA ZeroStep ==
    ASSUME IInv, [Next]_vars, serve # "serving", wg = 0
    PROVE  wg' = 0
<1> USE DEF IInv
<1>1. ActiveConns = {} /\ created \ cleaned = {}
  BY CountsFinite
<1>2. \A w \in Workers : spawned[w] = 0
  BY <1>1 DEF CleanedUpOnce, TypeOK
<1>3. \A c \in Conns : conn[c] \notin {"open", "draining", "stuck"}
  BY <1>1 DEF ActiveConns
<1>4. ASSUME NEW h \in Handlers, NEW c \in Conns, NEW o \in Owner, GetWorker(h, c, o)
      PROVE  wg' = 0
  BY <1>3, <1>4, Zenon DEF GetWorker, GetWorkerReuse, GetWorkerNew, GetWorkerReplace, Begin
<1>5. ASSUME NEW w \in Workers, Cleanup(w)
      PROVE  wg' = 0
  BY <1>2, <1>5 DEF Cleanup
<1>6. ASSUME NEW c \in Conns, Accept(c) \/ EndConn(c)
      PROVE  wg' = 0
  BY <1>3, <1>6 DEF Accept, EndConn
<1> QED
  BY <1>4, <1>5, <1>6, Zenon
  DEF Next, DiscardOnServerFault, EndOperation, GoIdle, AutoDiscard, Drain, Stick, Cancel,
      CloseListener, AcceptFails, ServeReturns, vars, serverVars

\* Serve returns at zero, and the counter stays there.
LEMMA ReturnStep ==
    ASSUME IInv, [Next]_vars
    PROVE  ReturnedAtZero'
<1>1. CASE serve = "returned"
  BY <1>1, ZeroStep DEF IInv, ReturnedAtZero
<1>2. CASE serve # "returned"
  <2>1. serve' = "returned" => ServeReturns
    BY <1>2, ZenonT(60) DEF Next, GetWorker, GetWorkerReuse, GetWorkerNew, GetWorkerReplace,
                DiscardOnServerFault, EndOperation, GoIdle, AutoDiscard, Cleanup, Accept,
                Drain, Stick, EndConn, Cancel, CloseListener, AcceptFails, vars, serverVars
  <2> QED
    BY <2>1 DEF ServeReturns, ReturnedAtZero
<1> QED
  BY <1>1, <1>2
-----------------------------------------------------------------------------
\* The empty server satisfies the invariant.
LEMMA InitIInv == Init => IInv
<1> SUFFICES ASSUME Init PROVE IInv
  OBVIOUS
<1> USE DEF Init
<1>1. TypeOK
  <2>1. owner \in [created -> Owner]
    OBVIOUS
  <2>2. DOMAIN workers = {} /\ workers \in [{} -> created]
    OBVIOUS
  <2>3. /\ inUse \in [Workers -> Int]
        /\ spawned \in [Workers -> Int]
        /\ conn \in [Conns -> ConnStates]
        /\ wg \in Int
    BY DEF ConnStates
  <2> QED
    BY <2>1, <2>2, <2>3, Zenon DEF TypeOK
<1>2. \A w \in Workers : UsedBy(w) = {}
  BY DEF UsedBy
<1>3. RefCount
  BY <1>2, FS_EmptySet DEF RefCount
<1>4. CleanupIsExclusive /\ CleanedUpOnce /\ LiveWorkerIsInTable /\ ReturnedAtZero
  <2>1. \A w \in Workers : spawned[w] = 0 /\ w \notin discarded /\ w \notin cleaned
    OBVIOUS
  <2> QED
    BY <2>1 DEF CleanupIsExclusive, CleanedUpOnce, LiveWorkerIsInTable, ReturnedAtZero
<1>5. ActiveConns = {} /\ created \ cleaned = {}
  BY DEF ActiveConns
<1>6. WaitGroupIsExact
  BY <1>5, FS_EmptySet DEF WaitGroupIsExact
<1> QED
  BY <1>1, <1>3, <1>4, <1>6 DEF IInv

\* IInv is an invariant of the server and its workers.
THEOREM WorkersInvariant == Spec => []IInv
<1>1. IInv /\ [Next]_vars => IInv'
  BY TypeStep, RefStep, CleanStep, WaitGroupStep, TableStep, ReturnStep DEF IInv
<1> QED
  BY <1>1, InitIInv, PTL DEF Spec

\* Every variable keeps its type (the state of Server and Worker).
THEOREM WorkersTyped == Spec => []TypeOK
BY WorkersInvariant, PTL DEF IInv

\* cleanup, which takes no lock, never runs beside an operation of its worker.
THEOREM ExclusiveCleanup == Spec => []CleanupIsExclusive
BY WorkersInvariant, PTL DEF IInv

\* Discard, Close and autoDiscard start exactly one cleanup between them.
THEOREM SingleCleanup == Spec => []CleanedUpOnce
BY WorkersInvariant, PTL DEF IInv

\* The wait group of Server counts its connections and workers exactly.
THEOREM ExactWaitGroup == Spec => []WaitGroupIsExact
BY WorkersInvariant, PTL DEF IInv

\* GetWorker keeps every live worker in the table.
THEOREM LiveInTable == Spec => []LiveWorkerIsInTable
BY WorkersInvariant, PTL DEF IInv

\* Serve returns only after every connection and every worker is gone.
THEOREM CleanReturn == Spec => []ServeReturnsClean
<1>1. IInv => ServeReturnsClean
  <2> SUFFICES ASSUME IInv, serve = "returned"
               PROVE  /\ ops = {}
                      /\ ActiveConns = {}
                      /\ cleaned = created
                      /\ \A w \in Workers : spawned[w] = 0
    BY DEF ServeReturnsClean
  <2> USE DEF IInv
  <2>1. ActiveConns = {} /\ created \ cleaned = {}
    BY CountsFinite DEF ReturnedAtZero
  <2>2. cleaned = created
    BY <2>1, Zenon DEF TypeOK
  <2>3. ops = {}
    BY <2>1 DEF TypeOK
  <2>4. \A w \in Workers : spawned[w] = 0
    BY <2>2 DEF CleanedUpOnce, TypeOK
  <2> QED
    BY <2>1, <2>2, <2>3, <2>4
<1> QED
  BY <1>1, WorkersInvariant, PTL

\* No Add of GetWorker or Accept ever raises a wait group that Serve has seen, or
\* may see, at zero.
THEOREM WaitIsFinal == Spec => ZeroIsFinal
<1>1. IInv /\ [Next]_vars => [serve # "serving" /\ wg = 0 => wg' = 0]_vars
  BY ZeroStep
<1> QED
  BY <1>1, WorkersInvariant, PTL DEF Spec, ZeroIsFinal
=============================================================================
