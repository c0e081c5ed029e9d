------------------------------ MODULE Workers ------------------------------
(***************************************************************************)
(* The life of the server and of its workers (server.go,                   *)
(* worker/worker.go).  A worker holds the file system, the open files and  *)
(* the caches of one user of one session.  GetWorker finds or makes it for *)
(* every operation of a compound; the operation uses it and calls Close at *)
(* the end.  A worker is discarded after a failure, a change of            *)
(* credentials, five idle minutes or the end of the server's context, and  *)
(* the last to leave it starts the goroutine that cleans it up.  Serve     *)
(* returns when the wait group that counts connections and workers is      *)
(* zero.                                                                   *)
(*                                                                         *)
(* The methods of Worker run under the worker's mutex and are one step     *)
(* each.  GetWorker runs under the server's mutex: it calls one method of  *)
(* the old worker, and the worker it makes is seen by nobody before it     *)
(* returns, so it is one step as well.  cleanup takes no lock; that this   *)
(* is sound is CleanupIsExclusive.                                         *)
(***************************************************************************)
EXTENDS Creds, FiniteSets

CONSTANTS
    Workers,     \* worker objects
    Handlers,    \* goroutines that run a compound, one operation at a time
    Conns,       \* connections
    Sessions,    \* session ids, or the hash of the peer's address before NFSv4.1
    Principals   \* the credentials requests are made with

ASSUME WorkersAssumption ==
    /\ IsFiniteSet(Workers)
    /\ IsFiniteSet(Handlers)
    /\ IsFiniteSet(Conns)
    /\ Principals \subseteq CredsType

VARIABLES
    created,     \* workers made by worker.New
    owner,       \* session and credentials of a created worker
    workers,     \* Server.workers: the latest worker of a session and user
    inUse,       \* Worker.inUse
    discarded,   \* workers with Worker.discarded set
    idle,        \* workers last used more than IdleTimeout ago
    spawned,     \* cleanup goroutines started and not finished, by worker
    cleaned,     \* workers whose cleanup has finished
    ops,         \* operations under way: the handler, its connection, its worker
    conn,        \* state of a connection
    wg,          \* Server.wg
    serve,       \* where Serve is
    ctxDone,     \* the context of Serve is cancelled
    listening    \* the listener is open

workerVars == <<created, owner, workers, inUse, discarded, idle, spawned, cleaned>>
serverVars == <<conn, wg, serve, ctxDone, listening>>
vars == <<workerVars, ops, serverVars>>

\* A connection that will not end is stuck (see Stick).
ConnStates == {"new", "open", "draining", "stuck", "closed"}

Op == [h : Handlers, conn : Conns, w : Workers]

Key(o) == <<o.session, o.creds.uid>>

Owner == [session : Sessions, creds : Principals]

Init ==
    /\ created = {}
    /\ owner = [w \in {} |-> w]
    /\ workers = [k \in {} |-> k]
    /\ inUse = [w \in Workers |-> 0]
    /\ discarded = {}
    /\ idle = {}
    /\ spawned = [w \in Workers |-> 0]
    /\ cleaned = {}
    /\ ops = {}
    /\ conn = [c \in Conns |-> "new"]
    /\ wg = 0
    /\ serve = "serving"
    /\ ctxDone = FALSE
    /\ listening = TRUE
-----------------------------------------------------------------------------
\* The methods of Worker.

\* Worker.Use when the worker is not discarded.
Use(w) ==
    /\ w \notin discarded
    /\ inUse' = [inUse EXCEPT ![w] = @ + 1]
    /\ idle' = idle \ {w}

\* Faulty MarkDiscarded: cleanup starts although the worker is in use.
MarkDiscardedInUse(w) ==
    /\ discarded' = discarded \cup {w}
    /\ spawned' = [spawned EXCEPT ![w] = @ + 1]

\* discarded = true, and the cleanup goroutine if nobody uses the worker: the
\* common part of Discard and autoDiscard.
MarkDiscarded(w) ==
    /\ discarded' = discarded \cup {w}
    /\ spawned' = [spawned EXCEPT ![w] = IF inUse[w] > 0 THEN @ ELSE @ + 1]

\* Worker.Discard.
Discard(w) ==
    IF w \in discarded
    THEN UNCHANGED <<discarded, spawned>>
    ELSE MarkDiscarded(w)

\* Faulty Close: the last user does not start the cleanup.
CloseForgets(w) ==
    /\ inUse' = [inUse EXCEPT ![w] = @ - 1]
    /\ UNCHANGED <<created, owner, workers, discarded, idle, spawned, cleaned>>

\* Worker.Close.
Close(w) ==
    /\ inUse' = [inUse EXCEPT ![w] = @ - 1]
    /\ spawned' = [spawned EXCEPT ![w] =
                     IF w \in discarded /\ inUse[w] = 1 THEN @ + 1 ELSE @]
    /\ UNCHANGED <<created, owner, workers, discarded, idle, cleaned>>

\* Faulty NewWorker: no wg.Add.
NewWorkerUncounted(w, o) ==
    /\ w \notin created
    /\ created' = created \cup {w}
    /\ owner' = [v \in created \cup {w} |-> IF v = w THEN o ELSE owner[v]]
    /\ workers' = [k \in DOMAIN workers \cup {Key(o)} |->
                     IF k = Key(o) THEN w ELSE workers[k]]
    /\ inUse' = [inUse EXCEPT ![w] = 1]
    /\ UNCHANGED <<idle, cleaned, wg>>

\* worker.New for owner o, stored in the table and counted by the wait group.
NewWorker(w, o) ==
    /\ w \notin created
    /\ created' = created \cup {w}
    /\ owner' = [v \in created \cup {w} |-> IF v = w THEN o ELSE owner[v]]
    /\ workers' = [k \in DOMAIN workers \cup {Key(o)} |->
                     IF k = Key(o) THEN w ELSE workers[k]]
    /\ inUse' = [inUse EXCEPT ![w] = 1]
    /\ wg' = wg + 1
    /\ UNCHANGED <<idle, cleaned>>
-----------------------------------------------------------------------------
\* An operation starts: GetWorker.

Begin(h, c, w) ==
    /\ conn[c] \in {"open", "draining", "stuck"}
    /\ \A op \in ops : op.h # h
    /\ ops' = ops \cup {[h |-> h, conn |-> c, w |-> w]}

Found(o) == Key(o) \in DOMAIN workers

SamePrincipal(o) == CredsEqual(owner[workers[Key(o)]].creds, o.creds)

\* GetWorker finds a worker it may use.
GetWorkerReuse(h, c, o) ==
    /\ Found(o)
    /\ SamePrincipal(o)
    /\ Begin(h, c, workers[Key(o)])
    /\ Use(workers[Key(o)])
    /\ UNCHANGED <<created, owner, workers, discarded, spawned, cleaned, serverVars>>

\* GetWorker finds none, or one that is discarded.
GetWorkerNew(h, c, o, w) ==
    /\ Found(o) => SamePrincipal(o) /\ workers[Key(o)] \in discarded
    /\ NewWorker(w, o)
    /\ Begin(h, c, w)
    /\ UNCHANGED <<discarded, spawned, conn, serve, ctxDone, listening>>

\* Faulty GetWorkerReplace: the old worker is not discarded.
GetWorkerReplaceKeeps(h, c, o, w) ==
    /\ Found(o)
    /\ ~SamePrincipal(o)
    /\ NewWorker(w, o)
    /\ Begin(h, c, w)
    /\ UNCHANGED <<discarded, spawned, conn, serve, ctxDone, listening>>

\* GetWorker finds one of the same user with other credentials, and replaces it.
GetWorkerReplace(h, c, o, w) ==
    /\ Found(o)
    /\ ~SamePrincipal(o)
    /\ Discard(workers[Key(o)])
    /\ NewWorker(w, o)
    /\ Begin(h, c, w)
    /\ UNCHANGED <<conn, serve, ctxDone, listening>>

\* An operation discards its worker because the file system failed.
DiscardOnServerFault(op) ==
    /\ Discard(op.w)
    /\ UNCHANGED <<created, owner, workers, inUse, idle, cleaned, ops, serverVars>>

\* An operation ends: the deferred Close of its worker.
EndOperation(op) ==
    /\ ops' = ops \ {op}
    /\ Close(op.w)
    /\ UNCHANGED serverVars

\* IdleTimeout passes without a Use.
GoIdle(w) ==
    /\ w \in created \ discarded
    /\ idle' = idle \cup {w}
    /\ UNCHANGED <<created, owner, workers, inUse, discarded, spawned, cleaned, ops, serverVars>>

\* Faulty AutoDiscard: the end of the context is not noticed.
AutoDiscardIdleOnly(w) ==
    /\ w \in created \ discarded
    /\ w \in idle
    /\ MarkDiscarded(w)
    /\ UNCHANGED <<created, owner, workers, inUse, idle, cleaned, ops, serverVars>>

\* Faulty AutoDiscard: idleness is not noticed.
AutoDiscardCtxOnly(w) ==
    /\ w \in created \ discarded
    /\ ctxDone
    /\ MarkDiscarded(w)
    /\ UNCHANGED <<created, owner, workers, inUse, idle, cleaned, ops, serverVars>>

\* autoDiscard of a worker that has not been discarded yet.
AutoDiscard(w) ==
    /\ w \in created \ discarded
    /\ ctxDone \/ w \in idle
    /\ MarkDiscarded(w)
    /\ UNCHANGED <<created, owner, workers, inUse, idle, cleaned, ops, serverVars>>

\* Faulty Cleanup: it waits until GetWorker has replaced the worker.
CleanupOnceReplaced(w) ==
    /\ spawned[w] > 0
    /\ workers[Key(owner[w])] # w
    /\ spawned' = [spawned EXCEPT ![w] = @ - 1]
    /\ cleaned' = cleaned \cup {w}
    /\ wg' = wg - 1
    /\ UNCHANGED <<created, owner, workers, inUse, discarded, idle, ops,
                   conn, serve, ctxDone, listening>>

\* The cleanup goroutine, with afterCleanup = wg.Done.
Cleanup(w) ==
    /\ spawned[w] > 0
    /\ spawned' = [spawned EXCEPT ![w] = @ - 1]
    /\ cleaned' = cleaned \cup {w}
    /\ wg' = wg - 1
    /\ UNCHANGED <<created, owner, workers, inUse, discarded, idle, ops,
                   conn, serve, ctxDone, listening>>
-----------------------------------------------------------------------------
\* Serve, its listener goroutine, and the connections.

Cancel ==
    /\ ~ctxDone
    /\ ctxDone' = TRUE
    /\ UNCHANGED <<workerVars, ops, conn, wg, serve, listening>>

\* Server.Close, or the goroutine that waits for the context.
CloseListener ==
    /\ listening
    /\ listening' = FALSE
    /\ UNCHANGED <<workerVars, ops, conn, wg, serve, ctxDone>>

\* Faulty Accept: the loop goes on while Serve waits.
AcceptWhileWaiting(c) ==
    /\ listening
    /\ conn[c] = "new"
    /\ conn' = [conn EXCEPT ![c] = "open"]
    /\ wg' = wg + 1
    /\ UNCHANGED <<workerVars, ops, serve, ctxDone, listening>>

\* Accept and wg.Add, for HandleConn or HandleTrap.
Accept(c) ==
    /\ serve = "serving"
    /\ listening
    /\ conn[c] = "new"
    /\ conn' = [conn EXCEPT ![c] = "open"]
    /\ wg' = wg + 1
    /\ UNCHANGED <<workerVars, ops, serve, ctxDone, listening>>

\* Accept fails, for whatever reason, on a cancelled context: Serve leaves its
\* loop and waits.  (On a live context it tries again, which changes nothing.)
AcceptFails ==
    /\ serve = "serving"
    /\ ctxDone
    /\ serve' = "waiting"
    /\ UNCHANGED <<workerVars, ops, conn, wg, ctxDone, listening>>

\* The connection receives no more requests; those under way go on.
Drain(c) ==
    /\ conn[c] = "open"
    /\ conn' = [conn EXCEPT ![c] = "draining"]
    /\ UNCHANGED <<workerVars, ops, wg, serve, ctxDone, listening>>

\* The connection does not end: a compound that is cut short has hung its handler
\* in the decoder, or the peer does not read what SendReplies writes, and nothing
\* bounds either.  The handler has decoded before it calls GetWorker, so it holds
\* no worker, and other handlers go on.
Stick(c) ==
    /\ conn[c] = "draining"
    /\ conn' = [conn EXCEPT ![c] = "stuck"]
    /\ UNCHANGED <<workerVars, ops, wg, serve, ctxDone, listening>>

\* HandleConn returns after its handlers (Conn.Serve waits for them): wg.Done.
EndConn(c) ==
    /\ conn[c] = "draining"
    /\ \A op \in ops : op.conn # c
    /\ conn' = [conn EXCEPT ![c] = "closed"]
    /\ wg' = wg - 1
    /\ UNCHANGED <<workerVars, ops, serve, ctxDone, listening>>

\* Faulty ServeReturns: no wg.Wait.
ServeReturnsEarly ==
    /\ serve = "waiting"
    /\ serve' = "returned"
    /\ UNCHANGED <<workerVars, ops, conn, wg, ctxDone, listening>>

ServeReturns ==
    /\ serve = "waiting"
    /\ wg = 0
    /\ serve' = "returned"
    /\ UNCHANGED <<workerVars, ops, conn, wg, ctxDone, listening>>

GetWorker(h, c, o) ==
    \/ GetWorkerReuse(h, c, o)
    \/ \E w \in Workers : GetWorkerNew(h, c, o, w) \/ GetWorkerReplace(h, c, o, w)

Next ==
    \/ \E h \in Handlers, c \in Conns, o \in Owner : GetWorker(h, c, o)
    \/ \E op \in ops : DiscardOnServerFault(op) \/ EndOperation(op)
    \/ \E w \in Workers : GoIdle(w) \/ AutoDiscard(w) \/ Cleanup(w)
    \/ \E c \in Conns : Accept(c) \/ Drain(c) \/ Stick(c) \/ EndConn(c)
    \/ Cancel \/ CloseListener \/ AcceptFails \/ ServeReturns

Spec == Init /\ [][Next]_vars

\* What the scheduler and the environment grant: goroutines that can run do run,
\* an operation of the file system ends, the listener is closed once the context
\* is cancelled, and Accept fails on a closed listener.  A connection ends when it
\* is drained only if it does not get stuck (ConnectionEnds of Conn).
Fairness ==
    /\ WF_vars(ctxDone /\ CloseListener)
    /\ WF_vars(~listening /\ AcceptFails)
    /\ WF_vars(ServeReturns)
    /\ \A w \in Workers : WF_vars(AutoDiscard(w)) /\ WF_vars(Cleanup(w))
    /\ \A c \in Conns : WF_vars(ctxDone /\ Drain(c)) /\ WF_vars(EndConn(c))
    /\ \A h \in Handlers : WF_vars(\E op \in ops : op.h = h /\ EndOperation(op))

FairSpec == Spec /\ Fairness
-----------------------------------------------------------------------------
UsedBy(w) == {op \in ops : op.w = w}

ActiveConns == {c \in Conns : conn[c] \in {"open", "draining", "stuck"}}

\* Every variable has its type, a handler runs one operation at a time, and on a
\* connection that is not closed.
TypeOK ==
    /\ created \subseteq Workers
    /\ owner \in [created -> Owner]
    /\ DOMAIN workers \subseteq {Key(o) : o \in Owner}
    /\ workers \in [DOMAIN workers -> created]
    /\ inUse \in [Workers -> Int]
    /\ discarded \subseteq created
    /\ idle \subseteq created
    /\ spawned \in [Workers -> Int]
    /\ cleaned \subseteq discarded
    /\ ops \subseteq Op
    /\ \A p, q \in ops : p.h = q.h => p = q
    /\ \A op \in ops : op.w \in created /\ op.conn \in ActiveConns
    /\ conn \in [Conns -> ConnStates]
    /\ wg \in Int
    /\ serve \in {"serving", "waiting", "returned"}
    /\ ctxDone \in BOOLEAN
    /\ listening \in BOOLEAN

\* cleanup reads and resets the worker's maps and closes its file system without
\* the lock: from the moment it is started (Discard, Close, autoDiscard) no
\* operation uses the worker, and none can begin to.
CleanupIsExclusive ==
    \A w \in Workers : spawned[w] > 0 \/ w \in cleaned =>
        w \in discarded /\ UsedBy(w) = {}

\* Discard, autoDiscard and the last Close race to start the cleanup.  A worker
\* that is discarded and unused has been cleaned up or has one cleanup goroutine,
\* never two and never none; any other worker has none.
CleanedUpOnce ==
    \A w \in Workers :
        spawned[w] = IF w \in discarded \ cleaned /\ UsedBy(w) = {} THEN 1 ELSE 0

\* The wait group of the server counts the connections that are served and the
\* workers that are not cleaned up, so that each Add has its one Done.
WaitGroupIsExact ==
    wg = Cardinality(ActiveConns) + Cardinality(created \ cleaned)

\* GetWorker never loses sight of a worker that is not discarded: the table still
\* leads to it, so a session and user have at most one live worker, and with it
\* one set of open files.
LiveWorkerIsInTable ==
    \A w \in created \ discarded :
        LET k == Key(owner[w]) IN k \in DOMAIN workers /\ workers[k] = w

\* When Serve returns, no operation runs, no connection is open, and every worker
\* ever made has been cleaned up.
ServeReturnsClean ==
    serve = "returned" =>
        /\ ops = {}
        /\ ActiveConns = {}
        /\ cleaned = created
        /\ \A w \in Workers : spawned[w] = 0

\* sync.WaitGroup forbids an Add that starts from zero during Wait: once Serve
\* waits and the counter is zero, GetWorker and Accept never raise it again.
ZeroIsFinal == [][serve # "serving" /\ wg = 0 => wg' = 0]_vars

\* Once the context is cancelled, Serve returns, whatever workers and operations
\* there are.  Only a connection that is stuck holds it up: wg.Wait waits for it.
ShutdownCompletes ==
    ctxDone ~> serve = "returned" \/ \E c \in Conns : conn[c] = "stuck"

\* Every discarded worker is cleaned up, whatever still used it, and also when the
\* connection that used it is stuck.
DiscardedIsCleanedUp ==
    \A w \in Workers : w \in discarded ~> w \in cleaned

\* "If a worker is idle for 5 minutes, it will be discarded and the virtual file
\* system will be closed" (README.md), unless it is used again.
IdleIsReleased ==
    \A w \in Workers : w \in idle ~> w \notin idle \/ w \in cleaned
=============================================================================
