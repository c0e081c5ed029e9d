-------------------------------- MODULE Conn --------------------------------
(***************************************************************************)
(* One connection (conn.go, rpc.go, Server.HandleConn) and the pool its    *)
(* buffers come from (bufpool).  Five kinds of goroutine pass a request    *)
(* on: the reader receives it and sends it over a channel of one place to  *)
(* the proxy, which sends it to the mux, which starts a handler, whose     *)
(* response goes to the writer.  A request and a response carry a buffer.  *)
(* Requests are numbered as the peer sends them.  A channel is a sequence  *)
(* and is closed when the goroutine that closes it is done.                *)
(***************************************************************************)
EXTENDS Integers, Sequences, FiniteSets

CONSTANTS
    MaxRequests,  \* requests the peer sends (bound)
    Capacity      \* of the channels Request and Response (50 in the code)

ASSUME ConnAssumption == MaxRequests \in Nat /\ Capacity \in Nat \ {0}

VARIABLES
    pc,           \* where the reader, the proxy, the mux and the writer are
    hand,         \* what the reader, the proxy and the writer have in hand
    received,     \* number of requests received
    intermediate, Request, Response,  \* the channels
    handlers,     \* handlers under way, by request
    ctxDone,      \* the context of Conn.Serve is cancelled
    peer,         \* the peer: up, stalled (it does not read) or gone
    closed,       \* HandleConn has closed the network connection
    buffered,     \* replies in the bufio.Writer
    writeFailed,  \* the sticky error of the bufio.Writer
    errs,         \* Conn.err: what failed, and for which request
    pool,         \* buffers nobody may use: Pool.bufs, and those not made yet
    accepted, answered, delivered  \* history of the requests

channels == <<intermediate, Request, Response>>
writerVars == <<buffered, writeFailed, delivered>>
vars == <<pc, hand, received, channels, handlers, ctxDone, peer, closed, writerVars,
          errs, pool, accepted, answered>>

\* Pool.Get returns the oldest buffer of the pool or a new one.  All of them are
\* alike, so a buffer is named after the request and the use it is got for.
Buffers == {"data", "out", "read"} \X (1..MaxRequests)

None == <<>>   \* no buffer

Nothing == [id |-> 0, buf |-> None]

Init ==
    /\ pc = [reader |-> "loop", proxy |-> "select", mux |-> "range", writer |-> "flush"]
    /\ hand = [reader |-> Nothing, proxy |-> Nothing, writer |-> Nothing]
    /\ received = 0
    /\ intermediate = <<>> /\ Request = <<>> /\ Response = <<>>
    /\ handlers = [r \in {} |-> r]
    /\ ctxDone = FALSE
    /\ peer = "up"
    /\ closed = FALSE
    /\ buffered = {}
    /\ writeFailed = FALSE
    /\ errs = {}
    /\ pool = Buffers
    /\ accepted = {} /\ answered = {} /\ delivered = {}
-----------------------------------------------------------------------------
\* bufpool.

Get(b) == pool' = pool \ {b}

\* Pool.Put, which Discard calls.
Put(b) == pool' = pool \cup {b}
-----------------------------------------------------------------------------
\* The reader goroutine of ReceiveRequests.

ReaderLoop ==
    /\ pc.reader = "loop"
    /\ pc' = [pc EXCEPT !.reader = IF ctxDone THEN "done" ELSE "receive"]
    /\ UNCHANGED <<hand, received, channels, handlers, ctxDone, peer, closed, writerVars,
                   errs, pool, accepted, answered>>

\* ReceiveCall returns a request.  The bufio.Reader may have read it before the
\* connection was closed or the peer went away.
Receive ==
    /\ pc.reader = "receive"
    /\ received < MaxRequests
    /\ received' = received + 1
    /\ LET b == <<"data", received + 1>> IN
         /\ Get(b)
         /\ hand' = [hand EXCEPT !.reader = [id |-> received + 1, buf |-> b]]
    /\ pc' = [pc EXCEPT !.reader = "send"]
    /\ UNCHANGED <<channels, handlers, ctxDone, peer, closed, writerVars, errs, accepted,
                   answered>>

\* ReceiveCall fails: the peer or the server closed the connection, or the
\* message is fragmented or no call.  When its body is cut short, which a
\* bufio.Reader reports, the buffer is dropped.
ReceiveFails ==
    /\ pc.reader = "receive"
    /\ pc' = [pc EXCEPT !.reader = "done"]
    /\ errs' = errs \cup {<<"receive", 0>>}
    /\ UNCHANGED <<hand, received, channels, handlers, ctxDone, peer, closed, writerVars,
                   pool, accepted, answered>>

\* The length of the message is less than that of its header: Allocate slices
\* with the negative rest, and nothing recovers the panic.
ReceivePanics ==
    /\ pc.reader = "receive"
    /\ pc' = [pc EXCEPT !.reader = "panicked"]
    /\ UNCHANGED <<hand, received, channels, handlers, ctxDone, peer, closed, writerVars,
                   errs, pool, accepted, answered>>

\* Faulty ReaderSend: intermediate is not buffered.
ReaderSendUnbuffered ==
    /\ pc.reader = "send"
    /\ Len(intermediate) < 1 /\ pc.proxy = "select"
    /\ intermediate' = Append(intermediate, hand.reader)
    /\ hand' = [hand EXCEPT !.reader = Nothing]
    /\ pc' = [pc EXCEPT !.reader = "loop"]
    /\ UNCHANGED <<received, Request, Response, handlers, ctxDone, peer, closed,
                   writerVars, errs, pool, accepted, answered>>

\* intermediate, a channel of capacity 1, takes the request.
ReaderSend ==
    /\ pc.reader = "send"
    /\ Len(intermediate) < 1
    /\ intermediate' = Append(intermediate, hand.reader)
    /\ hand' = [hand EXCEPT !.reader = Nothing]
    /\ pc' = [pc EXCEPT !.reader = "loop"]
    /\ UNCHANGED <<received, Request, Response, handlers, ctxDone, peer, closed,
                   writerVars, errs, pool, accepted, answered>>
-----------------------------------------------------------------------------
\* The loop of ReceiveRequests that passes requests on.

\* Faulty ProxyEnds: no case for the context.
ProxyEndsWithReader ==
    /\ pc.proxy = "select"
    /\ intermediate = <<>> /\ pc.reader = "done"
    /\ pc' = [pc EXCEPT !.proxy = "done"]
    /\ UNCHANGED <<hand, received, channels, handlers, ctxDone, peer, closed, writerVars,
                   errs, pool, accepted, answered>>

\* The select sees the end of the context or of the reader.
ProxyEnds ==
    /\ pc.proxy = "select"
    /\ ctxDone \/ (intermediate = <<>> /\ pc.reader = "done")
    /\ pc' = [pc EXCEPT !.proxy = "done"]
    /\ UNCHANGED <<hand, received, channels, handlers, ctxDone, peer, closed, writerVars,
                   errs, pool, accepted, answered>>

ProxyReceive ==
    /\ pc.proxy = "select"
    /\ intermediate # <<>>
    /\ hand' = [hand EXCEPT !.proxy = Head(intermediate)]
    /\ intermediate' = Tail(intermediate)
    /\ pc' = [pc EXCEPT !.proxy = "send"]
    /\ UNCHANGED <<received, Request, Response, handlers, ctxDone, peer, closed,
                   writerVars, errs, pool, accepted, answered>>

ProxySend ==
    /\ pc.proxy = "send"
    /\ Len(Request) < Capacity
    /\ Request' = Append(Request, hand.proxy)
    /\ accepted' = accepted \cup {hand.proxy.id}
    /\ hand' = [hand EXCEPT !.proxy = Nothing]
    /\ pc' = [pc EXCEPT !.proxy = "select"]
    /\ UNCHANGED <<received, intermediate, Response, handlers, ctxDone, peer, closed,
                   writerVars, errs, pool, answered>>
-----------------------------------------------------------------------------
\* RunMux.

MuxStart ==
    /\ pc.mux = "range"
    /\ Request # <<>>
    /\ Request' = Tail(Request)
    /\ LET q == Head(Request)
           new == [stage |-> "start", data |-> q.buf, out |-> None, read |-> None]
       IN handlers' = [r \in DOMAIN handlers \cup {q.id} |->
                         IF r = q.id THEN new ELSE handlers[r]]
    /\ UNCHANGED <<pc, hand, received, intermediate, Response, ctxDone, peer, closed,
                   writerVars, errs, pool, accepted, answered>>

\* Request is closed and empty; muxwg.Wait follows.
MuxWait ==
    /\ pc.mux = "range"
    /\ Request = <<>> /\ pc.proxy = "done"
    /\ pc' = [pc EXCEPT !.mux = "wait"]
    /\ UNCHANGED <<hand, received, channels, handlers, ctxDone, peer, closed, writerVars,
                   errs, pool, accepted, answered>>

\* Faulty MuxEnds: Response is closed without waiting for the handlers.
MuxEndsEarly ==
    /\ pc.mux = "wait"
    /\ pc' = [pc EXCEPT !.mux = "done"]
    /\ UNCHANGED <<hand, received, channels, handlers, ctxDone, peer, closed, writerVars,
                   errs, pool, accepted, answered>>

\* All handlers are done; Response is closed.
MuxEnds ==
    /\ pc.mux = "wait"
    /\ DOMAIN handlers = {}
    /\ pc' = [pc EXCEPT !.mux = "done"]
    /\ UNCHANGED <<hand, received, channels, handlers, ctxDone, peer, closed, writerVars,
                   errs, pool, accepted, answered>>
-----------------------------------------------------------------------------
\* A handler: Handle of Muxv4 or MuxMismatch, on the buffer of its request.

handlerUnchanged == <<pc, hand, received, intermediate, Request, ctxDone, peer, closed,
                      writerVars, errs, accepted>>

At(r, stage) == r \in DOMAIN handlers /\ handlers[r].stage = stage

\* The handler of request r comes to a stage, with these buffers.
Become(r, stage, data, out, read) ==
    handlers' = [handlers EXCEPT ![r] = [stage |-> stage, data |-> data,
                                         out |-> out, read |-> read]]

\* HandleProc returns with response buffer b, or with an error if there is none.
Return(r, b) == Become(r, "respond", None, b, None)

\* Void, a denied authentication and MuxMismatch answer in the request's buffer.
AnswerInPlace(r) ==
    /\ At(r, "start")
    /\ Return(r, handlers[r].data)
    /\ UNCHANGED <<handlerUnchanged, Response, pool, answered>>

\* An unknown procedure, or credentials that cannot be decoded: the buffer is
\* dropped.
RefuseCall(r) ==
    /\ At(r, "start")
    /\ Return(r, None)
    /\ UNCHANGED <<handlerUnchanged, Response, pool, answered>>

\* The head of the compound, an operation or its arguments are cut short.  At its
\* end Buf.Read returns no bytes and no error, and io.ReadFull asks again for ever.
Hangs(r) ==
    /\ At(r, "start") \/ At(r, "run") \/ At(r, "ran")
    /\ Become(r, "hung", handlers[r].data, handlers[r].out, None)
    /\ UNCHANGED <<handlerUnchanged, Response, pool, answered>>

\* Compound gets the buffer of its reply.
CompoundStart(r) ==
    /\ At(r, "start")
    /\ Get(<<"out", r>>)
    /\ Become(r, "run", handlers[r].data, <<"out", r>>, None)
    /\ UNCHANGED <<handlerUnchanged, Response, answered>>

\* READ gets a buffer of its own, and returns it at the end or on an error.  One
\* READ stands for those of a compound, which follow each other.
ReadStart(r) ==
    /\ At(r, "run")
    /\ Get(<<"read", r>>)
    /\ Become(r, "read", handlers[r].data, handlers[r].out, <<"read", r>>)
    /\ UNCHANGED <<handlerUnchanged, Response, answered>>

ReadEnds(r) ==
    /\ At(r, "read")
    /\ Put(handlers[r].read)
    /\ Become(r, "ran", handlers[r].data, handlers[r].out, None)
    /\ UNCHANGED <<handlerUnchanged, Response, answered>>

\* Faulty CompoundEnds: the deferred Discard acts on the buffer that data names
\* at the end, which is the reply.
CompoundDiscardsReply(r) ==
    /\ At(r, "run") \/ At(r, "ran")
    /\ Put(handlers[r].out)
    /\ Return(r, handlers[r].out)
    /\ UNCHANGED <<handlerUnchanged, Response, answered>>

\* Compound returns its reply; the deferred Discard returns the request's buffer.
CompoundEnds(r) ==
    /\ At(r, "run") \/ At(r, "ran")
    /\ Put(handlers[r].data)
    /\ Return(r, handlers[r].out)
    /\ UNCHANGED <<handlerUnchanged, Response, answered>>

\* The same with an error, of a union or of a create mode that is unknown: the
\* buffer of the reply is dropped.
CompoundFails(r) ==
    /\ At(r, "run") \/ At(r, "ran")
    /\ Put(handlers[r].data)
    /\ Return(r, None)
    /\ UNCHANGED <<handlerUnchanged, Response, answered>>

\* An operation panics (Panics of Compound).
HandlerPanics(r) ==
    /\ At(r, "run") \/ At(r, "ran")
    /\ Become(r, "panicked", handlers[r].data, handlers[r].out, None)
    /\ UNCHANGED <<handlerUnchanged, Response, pool, answered>>

\* The handler sends its response and ends.
Respond(r) ==
    /\ At(r, "respond")
    /\ Len(Response) < Capacity
    /\ Response' = Append(Response, [id |-> r, buf |-> handlers[r].out])
    /\ handlers' = [q \in DOMAIN handlers \ {r} |-> handlers[q]]
    /\ answered' = answered \cup {r}
    /\ UNCHANGED <<handlerUnchanged, pool>>

Handle(r) ==
    \/ AnswerInPlace(r) \/ RefuseCall(r) \/ Hangs(r)
    \/ CompoundStart(r) \/ ReadStart(r) \/ ReadEnds(r)
    \/ CompoundEnds(r) \/ CompoundFails(r) \/ HandlerPanics(r) \/ Respond(r)
-----------------------------------------------------------------------------
\* SendReplies.

\* There are responses to write first: no flush.
SkipFlush ==
    /\ pc.writer = "flush"
    /\ Response # <<>>
    /\ pc' = [pc EXCEPT !.writer = "receive"]
    /\ UNCHANGED <<hand, received, channels, handlers, ctxDone, peer, closed, writerVars,
                   errs, pool, accepted, answered>>

\* Faulty Flush: it is left to the bufio.Writer to send when it is full.
FlushLeftOut ==
    /\ pc.writer = "flush"
    /\ Response = <<>>
    /\ ~writeFailed
    /\ pc' = [pc EXCEPT !.writer = "receive"]
    /\ UNCHANGED <<hand, received, channels, handlers, ctxDone, peer, closed, writerVars,
                   errs, pool, accepted, answered>>

\* Flush sends what is buffered.  It blocks while the peer does not read.
Flush ==
    /\ pc.writer = "flush"
    /\ Response = <<>>
    /\ ~writeFailed
    /\ buffered = {} \/ peer = "up"
    /\ delivered' = delivered \cup buffered
    /\ buffered' = {}
    /\ pc' = [pc EXCEPT !.writer = "receive"]
    /\ UNCHANGED <<hand, received, channels, handlers, ctxDone, peer, closed, writeFailed,
                   errs, pool, accepted, answered>>

\* Faulty FlushFails: the error is not recorded, as in the call of SendReply.
FlushFailsSilently ==
    /\ pc.writer = "flush"
    /\ Response = <<>>
    /\ writeFailed \/ (buffered # {} /\ peer = "gone")
    /\ writeFailed' = TRUE
    /\ ctxDone' = TRUE
    /\ pc' = [pc EXCEPT !.writer = "receive"]
    /\ UNCHANGED <<hand, received, channels, handlers, peer, closed, buffered, delivered,
                   errs, pool, accepted, answered>>

\* Flush returns an error, and will again: a bufio.Writer keeps its error.
FlushFails ==
    /\ pc.writer = "flush"
    /\ Response = <<>>
    /\ writeFailed \/ (buffered # {} /\ peer = "gone")
    /\ writeFailed' = TRUE
    /\ ctxDone' = TRUE
    /\ errs' = errs \cup {<<"write", 0>>}
    /\ pc' = [pc EXCEPT !.writer = "receive"]
    /\ UNCHANGED <<hand, received, channels, handlers, peer, closed, buffered, delivered,
                   pool, accepted, answered>>

\* A response with an error cancels the connection.
ErrorResponse ==
    /\ pc.writer = "receive"
    /\ Response # <<>> /\ Head(Response).buf = None
    /\ Response' = Tail(Response)
    /\ ctxDone' = TRUE
    /\ errs' = errs \cup {<<"response", Head(Response).id>>}
    /\ pc' = [pc EXCEPT !.writer = "flush"]
    /\ UNCHANGED <<hand, received, intermediate, Request, handlers, peer, closed,
                   writerVars, pool, accepted, answered>>

ReplyResponse ==
    /\ pc.writer = "receive"
    /\ Response # <<>> /\ Head(Response).buf # None
    /\ hand' = [hand EXCEPT !.writer = Head(Response)]
    /\ Response' = Tail(Response)
    /\ pc' = [pc EXCEPT !.writer = "send"]
    /\ UNCHANGED <<received, intermediate, Request, handlers, ctxDone, peer, closed,
                   writerVars, errs, pool, accepted, answered>>

Sent ==
    /\ Put(hand.writer.buf)
    /\ hand' = [hand EXCEPT !.writer = Nothing]
    /\ pc' = [pc EXCEPT !.writer = "flush"]
    /\ UNCHANGED <<received, channels, handlers, peer, closed, errs, accepted, answered>>

\* SendReply writes the reply to the bufio.Writer, which when full first sends
\* what it holds.  Its deferred Discard returns the buffer.
SendReply ==
    /\ pc.writer = "send"
    /\ ~writeFailed
    /\ \/ /\ buffered' = buffered \cup {hand.writer.id}
          /\ UNCHANGED delivered
       \/ /\ peer = "up"
          /\ delivered' = delivered \cup buffered
          /\ buffered' = {hand.writer.id}
    /\ Sent
    /\ UNCHANGED <<ctxDone, writeFailed>>

\* SendReply fails.  The error that is recorded is resp.Error, which is nil.
SendReplyFails ==
    /\ pc.writer = "send"
    /\ writeFailed \/ peer = "gone"
    /\ writeFailed' = TRUE
    /\ ctxDone' = TRUE
    /\ Sent
    /\ UNCHANGED <<buffered, delivered>>

\* Response is closed and empty.
WriterEnds ==
    /\ pc.writer = "receive"
    /\ Response = <<>> /\ pc.mux = "done"
    /\ pc' = [pc EXCEPT !.writer = "done"]
    /\ UNCHANGED <<hand, received, channels, handlers, ctxDone, peer, closed, writerVars,
                   errs, pool, accepted, answered>>
-----------------------------------------------------------------------------
\* Serve has waited for its three goroutines; the reader is not one of them.
Returned == pc.proxy = "done" /\ pc.mux = "done" /\ pc.writer = "done"

\* HandleConn closes the network connection.
CloseConn ==
    /\ Returned
    /\ ~closed
    /\ closed' = TRUE
    /\ UNCHANGED <<pc, hand, received, channels, handlers, ctxDone, peer, writerVars, errs,
                   pool, accepted, answered>>

\* The context of the server is cancelled.
Cancel ==
    /\ ~ctxDone
    /\ ctxDone' = TRUE
    /\ UNCHANGED <<pc, hand, received, channels, handlers, peer, closed, writerVars, errs,
                   pool, accepted, answered>>

\* The peer stops reading, for good, or goes away.
PeerChanges ==
    /\ peer' \in IF peer = "up" THEN {"stalled", "gone"} ELSE {"gone"}
    /\ peer # "gone"
    /\ UNCHANGED <<pc, hand, received, channels, handlers, ctxDone, closed, writerVars,
                   errs, pool, accepted, answered>>

Reader == ReaderLoop \/ Receive \/ ReceiveFails \/ ReceivePanics \/ ReaderSend
Proxy == ProxyEnds \/ ProxyReceive \/ ProxySend
Mux == MuxStart \/ MuxWait \/ MuxEnds
Writer ==
    \/ SkipFlush \/ Flush \/ FlushFails
    \/ ErrorResponse \/ ReplyResponse \/ SendReply \/ SendReplyFails \/ WriterEnds

\* A panic of any goroutine ends the process, and with it all of them.
Running == pc.reader # "panicked" /\ \A r \in 1..MaxRequests : ~At(r, "panicked")

Next ==
    /\ Running
    /\ \/ Reader \/ Proxy \/ Mux \/ Writer
       \/ \E r \in 1..MaxRequests : Handle(r)
       \/ CloseConn \/ Cancel \/ PeerChanges

Spec == Init /\ [][Next]_vars

\* While the process runs, goroutines that can run do run, the calls a handler
\* makes to the file system end, and a read of a dead connection fails once the
\* bufio.Reader is empty.  A handler may hang in a decoder, and nothing makes the
\* peer send or read.
Fairness ==
    /\ WF_vars(Running /\ (ReaderLoop \/ ReaderSend))
    /\ WF_vars(Running /\ (closed \/ peer = "gone") /\ ReceiveFails)
    /\ WF_vars(Running /\ Proxy) /\ WF_vars(Running /\ Mux)
    /\ WF_vars(Running /\ Writer) /\ WF_vars(Running /\ CloseConn)
    /\ \A r \in 1..MaxRequests : WF_vars(Running /\ Handle(r))

FairSpec == Spec /\ Fairness
-----------------------------------------------------------------------------
\* Every place that refers to a buffer, with the buffer.
Holdings ==
    {<<"pool", 0, b>> : b \in pool}
      \cup {<<g, 0, hand[g].buf>> : g \in DOMAIN hand}
      \cup {<<"intermediate", i, intermediate[i].buf>> : i \in DOMAIN intermediate}
      \cup {<<"Request", i, Request[i].buf>> : i \in DOMAIN Request}
      \cup {<<"Response", i, Response[i].buf>> : i \in DOMAIN Response}
      \cup UNION {{<<"data", r, handlers[r].data>>, <<"out", r, handlers[r].out>>,
                   <<"read", r, handlers[r].read>>} : r \in DOMAIN handlers}

\* Buffers have no lock: each is in the pool or in the hands of one goroutine or
\* message, and in one place only, however the replies reuse or replace the
\* buffers of their requests.
BufferHasOneOwner ==
    \A x, y \in Holdings : x[3] = y[3] /\ x[3] # None => x = y

\* SendReplies records nil when SendReply fails (line 200), yet Serve never
\* returns without the error: the bufio.Writer keeps it, and a Flush precedes the
\* end of the loop.
WriteErrorIsReported ==
    Returned /\ writeFailed => <<"write", 0>> \in errs

Promise == INSTANCE Connection WITH
    Requests <- 1..MaxRequests,
    life <- IF closed THEN "closed" ELSE IF pc.proxy = "done" THEN "draining" ELSE "open"

\* The pipeline of conn.go keeps the promise of Connection: each request is
\* answered and delivered at most once, and HandleConn closes the connection only
\* after every request that reached RunMux was answered.
ImplementsConnection == Promise!Spec

\* A request that reached RunMux gets its reply, also when the context is
\* cancelled meanwhile, unless its handler fails or hangs in the decoder, the peer
\* does not read, or the process ends in a panic.  Neither another handler that
\* hangs nor a reply left in the buffer of SendReplies keeps it from the peer.
AcceptedIsAnswered ==
    \A r \in 1..MaxRequests :
        r \in accepted ~>
            \/ r \in delivered \/ <<"response", r>> \in errs \/ At(r, "hung")
            \/ peer # "up" \/ ~Running

\* A connection that is cancelled, that can receive no more, or whose peer is
\* gone is closed.  Only two things in a process that runs keep it open: a peer
\* that stays and does not read, as SendReplies blocks, and a handler that hangs in
\* the decoder, as RunMux waits for it.
ConnectionEnds ==
    ctxDone \/ pc.reader = "done" \/ peer = "gone" ~>
        closed \/ peer = "stalled" \/ (\E r \in 1..MaxRequests : At(r, "hung")) \/ ~Running

\* "Spawn a possibly blocking thread": nobody waits for the reader.  In a process
\* that runs it ends after the connection is closed, unless it has a request in
\* hand while intermediate, which nobody empties any more, is full.
ReaderEnds ==
    closed ~> \/ pc.reader = "done" \/ (pc.reader = "send" /\ intermediate # <<>>)
              \/ ~Running
=============================================================================
