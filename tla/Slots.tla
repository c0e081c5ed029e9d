------------------------------- MODULE Slots -------------------------------
(***************************************************************************)
(* One slot of an NFSv4.1 session: the sequence check and the reply cache  *)
(* of RunSequence (mux_v4.go) on the Slot of clients/client.go, and the    *)
(* client that uses the slot.  Several goroutines may run RunSequence on   *)
(* the slot when a request is repeated on a new connection; they share the *)
(* Slot without a lock, so the check, the update and the copy to the cache *)
(* are steps of their own.                                                 *)
(*                                                                         *)
(* The client numbers its requests 1, 2, ...; request n carries the        *)
(* sequence id n modulo SeqMod.  A reply is the sequence of the requests   *)
(* whose results it holds: <<n>> is the reply to request n.                *)
(***************************************************************************)
EXTENDS Integers, Sequences, Functions

CONSTANTS
    Handlers,     \* goroutines that may run RunSequence on the slot
    SeqMod,       \* 2^32 in the code
    MaxRequests,  \* bound on the number of requests
    MaxTries,     \* bound on the transmissions of one request
    Kinds,        \* pairs of the session's persist flag and a request's CacheThis
    Overlap       \* a client may repeat a request before the last copy is gone

ASSUME SlotsAssumption ==
    /\ SeqMod \in Nat /\ SeqMod > 2
    /\ MaxRequests \in Nat
    /\ MaxTries \in Nat \ {0}
    /\ Kinds \subseteq BOOLEAN \X BOOLEAN
    /\ Overlap \in BOOLEAN

VARIABLES
    persist,      \* Slot.Buf is not nil
    SequenceID,   \* Slot.SequenceID
    ContainsData, \* Slot.ContainsData
    Buf,          \* contents of Slot.Buf
    alive,        \* the session still exists
    sent,         \* the client's last request
    tries,        \* how often it was transmitted
    cacheThis,    \* its CacheThis
    done,         \* the client has its answer
    run,          \* invocations of RunSequence, by handler
    executed,     \* how often the operations of a request were executed
    overlapped,   \* history: requests in RunSequence together with another one
    uncached      \* history: requests with no CacheThis, of a persistent session

slotVars == <<persist, SequenceID, ContainsData, Buf, alive>>
clientVars == <<sent, tries, cacheThis, done, overlapped, uncached>>
vars == <<slotVars, clientVars, run, executed>>

Requests == 1..MaxRequests

\* Where an invocation of RunSequence is.  The last four are its answers: the
\* buffer out, and the errors of SEQUENCE.
PCs == {"lookup", "check", "update", "operations", "save",
        "out", "retry_uncached", "misordered", "deadsession"}

Answers == {"out", "retry_uncached", "misordered", "deadsession"}

\* Faulty Init: slots start at sequence id 1.
InitAtOne ==
    /\ persist \in {k[1] : k \in Kinds}
    /\ SequenceID = 1
    /\ ContainsData = FALSE
    /\ Buf = <<>>
    /\ alive = TRUE
    /\ sent = 0
    /\ tries = 0
    /\ cacheThis = FALSE
    /\ done = TRUE
    /\ run = [h \in {} |-> h]
    /\ executed = [n \in Requests |-> 0]
    /\ overlapped = {} /\ uncached = {}

Init ==
    /\ persist \in {k[1] : k \in Kinds}
    /\ SequenceID = 0
    /\ ContainsData = FALSE
    /\ Buf = <<>>
    /\ alive = TRUE
    /\ sent = 0
    /\ tries = 0
    /\ cacheThis = FALSE
    /\ done = TRUE
    /\ run = [h \in {} |-> h]
    /\ executed = [n \in Requests |-> 0]
    /\ overlapped = {} /\ uncached = {}

At(h, pc) == h \in DOMAIN run /\ run[h].pc = pc

SetRun(h, r) ==
    run' = [g \in DOMAIN run \cup {h} |-> IF g = h THEN r ELSE run[g]]

Goto(h, pc, out) ==
    SetRun(h, [req |-> run[h].req, cache |-> run[h].cache, pc |-> pc, out |-> out])

Leave(h) == run' = [g \in DOMAIN run \ {h} |-> run[g]]

SeqOf(n) == n % SeqMod

\* The invocations of RunSequence that have not answered yet.
Serving == {h \in DOMAIN run : run[h].pc \notin Answers}
-----------------------------------------------------------------------------
\* The client, and the network between it and the server.

Arrive(h, n, c) ==
    /\ h \notin DOMAIN run
    /\ SetRun(h, [req |-> n, cache |-> c, pc |-> "lookup", out |-> <<>>])
    /\ overlapped' = IF Serving = {} THEN overlapped
                     ELSE overlapped \cup {n} \cup {run[g].req : g \in Serving}

\* The next request, once the last one is answered.
Send(h, c) ==
    /\ done
    /\ sent < MaxRequests
    /\ <<persist, c>> \in Kinds
    /\ Arrive(h, sent + 1, c)
    /\ sent' = sent + 1
    /\ tries' = 1
    /\ cacheThis' = c
    /\ done' = FALSE
    /\ uncached' = IF persist /\ ~c THEN uncached \cup {sent + 1} ELSE uncached
    /\ UNCHANGED <<slotVars, executed>>

\* The same request again.
Repeat(h) ==
    /\ ~done
    /\ tries < MaxTries
    /\ Overlap \/ DOMAIN run = {}
    /\ Arrive(h, sent, cacheThis)
    /\ tries' = tries + 1
    /\ UNCHANGED <<slotVars, sent, cacheThis, done, executed, uncached>>

\* An answer reaches the client. NFS4ERR_DEADSESSION ends its use of the slot.
Deliver(h) ==
    /\ h \in DOMAIN run
    /\ run[h].pc \in Answers \ {"deadsession"}
    /\ Leave(h)
    /\ done' = (done \/ run[h].req = sent)
    /\ UNCHANGED <<slotVars, sent, tries, cacheThis, executed, overlapped, uncached>>

\* An answer is lost with its connection.
Lose(h) ==
    /\ h \in DOMAIN run
    /\ run[h].pc \in Answers
    /\ Leave(h)
    /\ UNCHANGED <<slotVars, clientVars, executed>>
-----------------------------------------------------------------------------
\* The slot.

\* Client.RemoveSession: later requests find no slot; the buffer is Put, that is
\* reset and returned to the pool, while earlier requests still hold the slot.
RemoveSession ==
    /\ alive
    /\ alive' = FALSE
    /\ Buf' = <<>>
    /\ UNCHANGED <<persist, SequenceID, ContainsData, clientVars, run, executed>>

\* Clients.Get and Client.GetSlot.
GetSlot(h) ==
    /\ At(h, "lookup")
    /\ Goto(h, IF alive THEN "check" ELSE "deadsession", <<>>)
    /\ UNCHANGED <<slotVars, clientVars, executed>>

\* The request has the sequence id of the slot.
Same(h) == SequenceID = SeqOf(run[h].req)

\* Faulty CheckSlot: an uncached retry is not recognised.
CheckSlotNoRetry(h) ==
    CASE Same(h) /\ ContainsData -> Goto(h, "out", Buf)
      [] ~Same(h) /\ (SequenceID + 1) % SeqMod # SeqOf(run[h].req) ->
           Goto(h, "misordered", <<>>)
      [] OTHER -> Goto(h, "update", <<>>)

\* Faulty CheckSlot: the next sequence id does not wrap around.
CheckSlotNoWrap(h) ==
    CASE Same(h) /\ ContainsData -> Goto(h, "out", Buf)
      [] Same(h) /\ ~ContainsData /\ ~persist -> Goto(h, "retry_uncached", <<>>)
      [] ~Same(h) /\ SequenceID + 1 # SeqOf(run[h].req) -> Goto(h, "misordered", <<>>)
      [] OTHER -> Goto(h, "update", <<>>)

\* The three conditions of RunSequence: a cached reply, nothing to reply with, a
\* sequence id that is not the next one.  What passes them is executed.
CheckSlot(h) ==
    CASE Same(h) /\ ContainsData -> Goto(h, "out", Buf)
      [] Same(h) /\ ~ContainsData /\ ~persist -> Goto(h, "retry_uncached", <<>>)
      [] ~Same(h) /\ (SequenceID + 1) % SeqMod # SeqOf(run[h].req) ->
           Goto(h, "misordered", <<>>)
      [] OTHER -> Goto(h, "update", <<>>)

Check(h) ==
    /\ At(h, "check")
    /\ CheckSlot(h)
    /\ UNCHANGED <<slotVars, clientVars, executed>>

\* Faulty Update: the sequence id is counted up and does not wrap around.
UpdateNoWrap(h) ==
    /\ At(h, "update")
    /\ SequenceID' = SequenceID + 1
    /\ ContainsData' = (run[h].cache /\ persist)
    /\ Goto(h, "operations", <<>>)
    /\ UNCHANGED <<persist, Buf, alive, clientVars, executed>>

\* slot.SequenceID and slot.ContainsData are set.
Update(h) ==
    /\ At(h, "update")
    /\ SequenceID' = SeqOf(run[h].req)
    /\ ContainsData' = (run[h].cache /\ persist)
    /\ Goto(h, "operations", <<>>)
    /\ UNCHANGED <<persist, Buf, alive, clientVars, executed>>

\* The operations run and their results are written to out.
Execute(h) ==
    /\ At(h, "operations")
    /\ executed' = [executed EXCEPT ![run[h].req] = @ + 1]
    /\ Goto(h, "save", <<run[h].req>>)
    /\ UNCHANGED <<slotVars, clientVars>>

\* An operation returns an error instead of a status: the compound ends without
\* an answer and its connection is dropped.
ExecuteFails(h) ==
    /\ At(h, "operations")
    /\ executed' = [executed EXCEPT ![run[h].req] = @ + 1]
    /\ Leave(h)
    /\ UNCHANGED <<slotVars, clientVars>>

\* out.Copy(slot.Buf) appends to what the buffer holds.
Save(h) ==
    /\ At(h, "save")
    /\ Buf' = IF ContainsData THEN Buf \o run[h].out ELSE Buf
    /\ Goto(h, "out", run[h].out)
    /\ UNCHANGED <<persist, SequenceID, ContainsData, alive, clientVars, executed>>

RunSequence(h) ==
    \/ GetSlot(h) \/ Check(h) \/ Update(h)
    \/ Execute(h) \/ ExecuteFails(h) \/ Save(h)

Next ==
    \/ \E h \in Handlers : RunSequence(h) \/ Repeat(h) \/ Deliver(h) \/ Lose(h)
    \/ \E h \in Handlers, c \in BOOLEAN : Send(h, c)
    \/ RemoveSession

Spec == Init /\ [][Next]_vars
-----------------------------------------------------------------------------
\* Every variable has its type.
TypeOK ==
    /\ persist \in BOOLEAN
    /\ SequenceID \in 0..SeqMod - 1
    /\ ContainsData \in BOOLEAN
    /\ Buf \in Seq(Requests)
    /\ alive \in BOOLEAN
    /\ sent \in 0..MaxRequests
    /\ tries \in 0..MaxTries
    /\ cacheThis \in BOOLEAN
    /\ done \in BOOLEAN
    /\ DOMAIN run \subseteq Handlers
    /\ run \in [DOMAIN run -> [req : Requests, cache : BOOLEAN, pc : PCs,
                               out : Seq(Requests)]]
    /\ executed \in [Requests -> Nat]
    /\ overlapped \subseteq Requests
    /\ uncached \subseteq Requests

\* The sequence check of RunSequence executes a request at most once, however
\* often it is repeated and whatever answers, connections and earlier requests
\* went wrong, with two exceptions that the code has: nothing locks the slot
\* between the check and the update, so a request that is in RunSequence together
\* with another may be executed again, and so may one whose reply a persistent
\* session does not keep (UncachedRetryIsRefused).
ExecutedAtMostOnce ==
    \A n \in Requests : executed[n] > 1 => n \in overlapped \cup uncached

\* As long as no two requests were in RunSequence together, a client that sends its
\* next request only when the last one is answered is never told that it is out of
\* order, also when the sequence id wraps around.
NeverMisordered ==
    overlapped = {} => \A h \in DOMAIN run : run[h].pc # "misordered"

\* As long as no two requests were in RunSequence together, the client has an
\* answer only to a request that was executed: an error of SEQUENCE never takes the
\* place of the first execution.
AnsweredIsExecuted ==
    overlapped = {} =>
        \A h \in DOMAIN run : run[h].pc \in Answers \ {"deadsession"} =>
            executed[run[h].req] > 0

\* "Copy data from cache" (RunSequence): an answer that has the results of its
\* request has nothing else, whether it is fresh or copied from the cache.
ReplyIsOwn ==
    \A h \in DOMAIN run :
        run[h].pc = "out" /\ run[h].req \in Range(run[h].out) =>
            run[h].out = <<run[h].req>>

\* "Client requests cached information without anything available"
\* (RunSequence): a repeated request of which no reply is cached is answered
\* with NFS4ERR_RETRY_UNCACHED_REP and not executed.
UncachedRetryIsRefused ==
    [][\A h \in DOMAIN run : Execute(h) /\ ~run[h].cache => executed[run[h].req] = 0]_vars
=============================================================================
