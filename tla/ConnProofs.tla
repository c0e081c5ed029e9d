----------------------------- MODULE ConnProofs -----------------------------
(***************************************************************************)
(* Proofs about Conn, for any number of requests and any capacity of its   *)
(* channels.                                                               *)
(***************************************************************************)
EXTENDS Conn, Functions, TLAPS

\* What channels and goroutines pass on.
Message == [id : 1..MaxRequests, buf : Buffers \cup {None}]

\* The requests of the messages in channel s, each of which is there once.
Ids(s) == {s[i].id : i \in DOMAIN s}
Distinct(s) == \A i, j \in DOMAIN s : s[i].id = s[j].id => i = j

\* The requests that the goroutines have in hand.
InReader == IF pc.reader = "send" THEN {hand.reader.id} ELSE {}
InProxy == IF pc.proxy = "send" THEN {hand.proxy.id} ELSE {}
InWriter == IF pc.writer = "send" THEN {hand.writer.id} ELSE {}

Stages == {"start", "run", "read", "ran", "hung", "panicked", "respond"}

Some == Buffers \cup {None}

Places == [reader : {"loop", "receive", "send", "panicked", "done"},
           proxy : {"select", "send", "done"}, mux : {"range", "wait", "done"},
           writer : {"flush", "receive", "send", "done"}]

Hands == [reader : Message \cup {Nothing}, proxy : Message \cup {Nothing},
          writer : Message \cup {Nothing}]

\* Every variable has its type.
ConnType ==
    /\ pc \in Places
    /\ hand \in Hands
    /\ received \in 0..MaxRequests
    /\ intermediate \in Seq(Message) /\ Request \in Seq(Message) /\ Response \in Seq(Message)
    /\ DOMAIN handlers \subseteq 1..MaxRequests
    /\ handlers \in [DOMAIN handlers -> [stage : Stages, data : Some, out : Some, read : Some]]
    /\ pool \subseteq Buffers

\* Before RunMux, a request that was received is with the reader, in intermediate
\* or with the proxy, or it has been accepted.
Front ==
    /\ Distinct(intermediate)
    /\ InReader \cup Ids(intermediate) \cup InProxy \cup accepted \subseteq 1..received
    /\ InReader \cap Ids(intermediate) = {} /\ InReader \cap InProxy = {}
    /\ InReader \cap accepted = {} /\ Ids(intermediate) \cap InProxy = {}
    /\ Ids(intermediate) \cap accepted = {} /\ InProxy \cap accepted = {}

\* A request that was accepted waits for its handler, has one, or is answered.
Middle ==
    /\ Distinct(Request)
    /\ accepted = Ids(Request) \cup DOMAIN handlers \cup answered
    /\ Ids(Request) \cap DOMAIN handlers = {} /\ Ids(Request) \cap answered = {}
    /\ DOMAIN handlers \cap answered = {}

\* The response to a request is in Response, with the writer, in the bufio.Writer,
\* or delivered, or it was given up.
Back ==
    /\ Distinct(Response)
    /\ Ids(Response) \cup InWriter \cup buffered \cup delivered \subseteq answered
    /\ Ids(Response) \cap InWriter = {} /\ Ids(Response) \cap buffered = {}
    /\ Ids(Response) \cap delivered = {} /\ InWriter \cap buffered = {}
    /\ InWriter \cap delivered = {} /\ buffered \cap delivered = {}

\* The buffers that a handler h of request r has, stage by stage.
Stocked(r, h) ==
    \/ h = [stage |-> "start", data |-> <<"data", r>>, out |-> None, read |-> None]
    \/ /\ h.stage \in {"run", "ran"}
       /\ h.data = <<"data", r>> /\ h.out = <<"out", r>> /\ h.read = None
    \/ /\ h.stage \in {"hung", "panicked"}
       /\ h.data = <<"data", r>> /\ h.out \in {None, <<"out", r>>} /\ h.read = None
    \/ h = [stage |-> "read", data |-> <<"data", r>>, out |-> <<"out", r>>, read |-> <<"read", r>>]
    \/ /\ h.stage = "respond"
       /\ h.data = None /\ h.out \in {None, <<"data", r>>, <<"out", r>>} /\ h.read = None

\* A buffer is named after the request that it is used for.
Loads ==
    /\ IF pc.reader = "send" THEN hand.reader.buf = <<"data", hand.reader.id>>
                             ELSE hand.reader = Nothing
    /\ IF pc.proxy = "send" THEN hand.proxy.buf = <<"data", hand.proxy.id>>
                            ELSE hand.proxy = Nothing
    /\ IF pc.writer = "send"
         THEN hand.writer.buf \in {<<"data", hand.writer.id>>, <<"out", hand.writer.id>>}
         ELSE hand.writer = Nothing
    /\ \A q \in Range(intermediate) : q.buf = <<"data", q.id>>
    /\ \A q \in Range(Request) : q.buf = <<"data", q.id>>
    /\ \A q \in Range(Response) : q.buf \in {None, <<"data", q.id>>, <<"out", q.id>>}
    /\ \A r \in DOMAIN handlers : Stocked(r, handlers[r])

\* A buffer that is in use is not in the pool.
Unpooled ==
    /\ hand.reader.buf \notin pool /\ hand.proxy.buf \notin pool /\ hand.writer.buf \notin pool
    /\ \A q \in Range(intermediate) : q.buf \notin pool
    /\ \A q \in Range(Request) : q.buf \notin pool
    /\ \A q \in Range(Response) : q.buf \notin pool
    /\ \A r \in DOMAIN handlers :
         handlers[r].data \notin pool /\ handlers[r].out \notin pool /\ handlers[r].read \notin pool

\* The goroutines end one after the other, each with nothing left to do.
Order ==
    /\ pc.mux # "range" => Request = <<>> /\ pc.proxy = "done"
    /\ pc.mux = "done" => DOMAIN handlers = {}
    /\ closed => Returned

\* An error of the bufio.Writer that was not recorded yet will be: SendReplies
\* still has to flush, or to try another reply.
Sticky ==
    writeFailed /\ <<"write", 0>> \notin errs =>
        pc.writer \in {"flush", "send"} \/ (pc.writer = "receive" /\ Response # <<>>)

\* The inductive invariant.
ConnInv ==
    /\ ConnType /\ Front /\ Middle /\ Back
    /\ Loads /\ Unpooled
    /\ Order /\ Sticky
-----------------------------------------------------------------------------
\* Sending on a channel.
LEMMA AppendFacts ==
    ASSUME NEW S, NEW s \in Seq(S), NEW m \in S
    PROVE  /\ Append(s, m) \in Seq(S)
           /\ Append(s, m) # <<>>
           /\ Range(Append(s, m)) = Range(s) \cup {m}
           /\ Ids(Append(s, m)) = Ids(s) \cup {m.id}
           /\ Distinct(s) /\ m.id \notin Ids(s) => Distinct(Append(s, m))
<1> DEFINE t == Append(s, m)
<1>1. /\ t \in Seq(S) /\ Len(t) = Len(s) + 1 /\ t # <<>>
      /\ \A i \in 1..Len(s) : t[i] = s[i]
      /\ t[Len(s) + 1] = m
  OBVIOUS
<1>2. /\ DOMAIN s = 1..Len(s) /\ DOMAIN t = 1..Len(s) + 1 /\ Len(s) \in Nat
      /\ 1..Len(s) + 1 = (1..Len(s)) \cup {Len(s) + 1}
  BY <1>1
<1> HIDE DEF t
<1>3. Range(t) = Range(s) \cup {m}
  BY <1>1, <1>2 DEF Range
<1>4. Ids(t) = Ids(s) \cup {m.id}
  BY <1>1, <1>2 DEF Ids
<1>5. ASSUME Distinct(s), m.id \notin Ids(s)
      PROVE  Distinct(t)
  BY <1>1, <1>2, <1>5 DEF Distinct, Ids
<1> QED
  BY <1>1, <1>3, <1>4, <1>5 DEF t

\* Receiving from a channel.
LEMMA TailFacts ==
    ASSUME NEW S, NEW s \in Seq(S), s # <<>>
    PROVE  /\ Tail(s) \in Seq(S)
           /\ Head(s) \in Range(s) /\ Head(s) \in S /\ Head(s).id \in Ids(s)
           /\ Range(Tail(s)) \subseteq Range(s)
           /\ Distinct(s) => Distinct(Tail(s)) /\ Ids(Tail(s)) = Ids(s) \ {Head(s).id}
<1> DEFINE t == Tail(s)
<1>1. /\ t \in Seq(S) /\ Len(t) = Len(s) - 1 /\ Len(s) \in Nat \ {0}
      /\ \A i \in 1..Len(s) - 1 : t[i] = s[i + 1]
      /\ Head(s) = s[1] /\ s[1] \in S
  OBVIOUS
<1>2. /\ DOMAIN s = 1..Len(s) /\ DOMAIN t = 1..Len(s) - 1 /\ 1 \in 1..Len(s)
      /\ \A i \in 1..Len(s) - 1 : i + 1 \in 1..Len(s) /\ i + 1 # 1
      /\ \A i \in 1..Len(s) : i # 1 => i - 1 \in 1..Len(s) - 1 /\ (i - 1) + 1 = i
  BY <1>1
<1> HIDE DEF t
<1>3. Head(s) \in Range(s) /\ Head(s).id \in Ids(s) /\ Range(t) \subseteq Range(s)
  BY <1>1, <1>2, SMTT(60) DEF Range, Ids
<1>4. ASSUME Distinct(s)
      PROVE  Distinct(t) /\ Ids(t) = Ids(s) \ {Head(s).id}
  <2>1. Distinct(t)
    <3> SUFFICES ASSUME NEW i \in DOMAIN t, NEW j \in DOMAIN t, t[i].id = t[j].id
                 PROVE  i = j
      BY DEF Distinct
    <3>1. i + 1 \in DOMAIN s /\ j + 1 \in DOMAIN s /\ t[i] = s[i + 1] /\ t[j] = s[j + 1]
      BY <1>1, <1>2
    <3>2. i + 1 = j + 1
      BY <1>4, <3>1 DEF Distinct
    <3> QED
      BY <1>2, <3>2
  <2>2. ASSUME NEW i \in DOMAIN s, s[i].id # s[1].id
        PROVE  s[i].id \in Ids(t)
    <3>1. i - 1 \in DOMAIN t /\ t[i - 1] = s[i]
      BY <1>1, <1>2, <2>2
    <3> QED
      BY <3>1 DEF Ids
  <2>3. ASSUME NEW i \in DOMAIN t
        PROVE  t[i].id \in Ids(s) /\ t[i].id # s[1].id
    <3>1. i + 1 \in DOMAIN s /\ 1 \in DOMAIN s /\ i + 1 # 1 /\ t[i] = s[i + 1]
      BY <1>1, <1>2
    <3>2. s[i + 1].id \in Ids(s) /\ s[i + 1].id # s[1].id
      BY <1>4, <3>1 DEF Distinct, Ids
    <3> QED
      BY <3>1, <3>2
  <2> QED
    BY <1>1, <2>1, <2>2, <2>3, ZenonT(60) DEF Ids
<1> QED
  BY <1>1, <1>3, <1>4 DEF t
-----------------------------------------------------------------------------
\* No name of a buffer is the absence of one.
LEMMA NoneIsNoBuffer ==
    ASSUME NEW k, NEW r
    PROVE  <<k, r>> # None
BY DEF None

\* The pool holds buffers.
LEMMA NoneNotPooled ==
    ASSUME ConnType
    PROVE  None \notin pool
BY NoneIsNoBuffer DEF ConnType, Buffers

\* The steps of the reader keep the invariant.
LEMMA ReaderStep ==
    ASSUME ConnInv, Reader
    PROVE  ConnInv'
<1> USE DEF ConnInv
<1>1. CASE ReaderLoop \/ ReceiveFails \/ ReceivePanics
  <2>1. /\ pc.reader # "send"
        /\ \E p \in {"receive", "panicked", "done"} : pc' = [pc EXCEPT !.reader = p]
        /\ errs \subseteq errs'
        /\ UNCHANGED <<hand, received, channels, handlers, closed, writerVars, pool, accepted,
                       answered>>
    BY <1>1 DEF ReaderLoop, ReceiveFails, ReceivePanics
  <2>2. /\ pc'.reader # "send" /\ pc'.proxy = pc.proxy /\ pc'.mux = pc.mux /\ pc'.writer = pc.writer
        /\ pc' \in Places
    BY <2>1, Zenon DEF ConnType, Places
  <2>3. ConnType'
    BY <2>1, <2>2 DEF ConnType, channels
  <2>4. Front' /\ Middle' /\ Back'
    BY <2>1, <2>2 DEF Front, Middle, Back, channels, writerVars, InReader, InProxy, InWriter
  <2>5. Loads' /\ Unpooled'
    BY <2>1, <2>2 DEF Loads, Unpooled, channels
  <2>6. Order' /\ Sticky'
    BY <2>1, <2>2 DEF Order, Sticky, Returned, channels, writerVars
  <2> QED
    BY <2>3, <2>4, <2>5, <2>6
<1>2. CASE Receive
  <2> DEFINE b == <<"data", received + 1>>
  <2>1. /\ pc.reader = "receive" /\ received < MaxRequests /\ received' = received + 1
        /\ pool' = pool \ {b}
        /\ hand' = [hand EXCEPT !.reader = [id |-> received + 1, buf |-> b]]
        /\ pc' = [pc EXCEPT !.reader = "send"]
        /\ UNCHANGED <<channels, handlers, closed, writerVars, errs, accepted, answered>>
    BY <1>2 DEF Receive, Get
  <2>2. /\ pc'.reader = "send" /\ pc'.proxy = pc.proxy /\ pc'.mux = pc.mux /\ pc'.writer = pc.writer
        /\ pc' \in Places
    BY <2>1, Zenon DEF ConnType, Places
  <2>3. received + 1 \in 1..MaxRequests /\ b \in Buffers
    BY <2>1, ConnAssumption DEF ConnType, Buffers
  <2>4. /\ hand'.reader = [id |-> received + 1, buf |-> b]
        /\ hand'.proxy = hand.proxy /\ hand'.writer = hand.writer
        /\ hand' \in Hands
    BY <2>1, <2>3, Zenon DEF ConnType, Hands, Message
  <2>5. ConnType'
    BY <2>1, <2>2, <2>3, <2>4 DEF ConnType, channels
  <2>6. InReader' = {received + 1} /\ InReader = {} /\ InProxy' = InProxy /\ InWriter' = InWriter
    BY <2>1, <2>2, <2>4 DEF InReader, InProxy, InWriter
  <2>7. Front'
    BY <2>1, <2>3, <2>6 DEF Front, channels, ConnType
  <2>8. Middle' /\ Back'
    BY <2>1, <2>6 DEF Middle, Back, channels, writerVars
  <2>9. Loads'
    BY <2>1, <2>2, <2>4 DEF Loads, channels
  <2>10. Unpooled'
    BY <2>1, <2>4 DEF Unpooled, channels
  <2>11. Order' /\ Sticky'
    BY <2>1, <2>2 DEF Order, Sticky, Returned, channels, writerVars
  <2> QED
    BY <2>5, <2>7, <2>8, <2>9, <2>10, <2>11
<1>3. CASE ReaderSend
  <2>1. /\ pc.reader = "send"
        /\ intermediate' = Append(intermediate, hand.reader)
        /\ hand' = [hand EXCEPT !.reader = Nothing]
        /\ pc' = [pc EXCEPT !.reader = "loop"]
        /\ UNCHANGED <<received, Request, Response, handlers, closed, writerVars, errs, pool,
                       accepted, answered>>
    BY <1>3 DEF ReaderSend
  <2>2. /\ pc'.reader = "loop" /\ pc'.proxy = pc.proxy /\ pc'.mux = pc.mux /\ pc'.writer = pc.writer
        /\ pc' \in Places
    BY <2>1, Zenon DEF ConnType, Places
  <2>3. /\ hand'.reader = Nothing /\ hand'.proxy = hand.proxy /\ hand'.writer = hand.writer
        /\ hand' \in Hands
    BY <2>1, Zenon DEF ConnType, Hands
  <2>4. hand.reader \in Message
    BY <2>1 DEF ConnType, Hands, Front, InReader, Nothing
  <2>5. /\ intermediate' \in Seq(Message)
        /\ Range(intermediate') = Range(intermediate) \cup {hand.reader}
        /\ Ids(intermediate') = Ids(intermediate) \cup {hand.reader.id}
        /\ hand.reader.id \notin Ids(intermediate) => Distinct(intermediate')
    BY <2>1, <2>4, AppendFacts DEF ConnType, Front
  <2>6. InReader = {hand.reader.id} /\ InReader' = {} /\ InProxy' = InProxy /\ InWriter' = InWriter
    BY <2>1, <2>2, <2>3 DEF InReader, InProxy, InWriter
  <2>7. ConnType'
    BY <2>1, <2>2, <2>3, <2>5 DEF ConnType
  <2>8. Front'
    BY <2>1, <2>5, <2>6 DEF Front
  <2>9. Middle' /\ Back'
    BY <2>1, <2>6 DEF Middle, Back, writerVars
  <2>10. Loads'
    BY <2>1, <2>2, <2>3, <2>5 DEF Loads
  <2>11. Unpooled'
    BY <2>1, <2>3, <2>5, NoneNotPooled DEF Unpooled, Nothing
  <2>12. Order' /\ Sticky'
    BY <2>1, <2>2 DEF Order, Sticky, Returned, writerVars
  <2> QED
    BY <2>7, <2>8, <2>9, <2>10, <2>11, <2>12
<1> QED
  BY <1>1, <1>2, <1>3 DEF Reader

\* The steps of the proxy keep the invariant.
LEMMA ProxyStep ==
    ASSUME ConnInv, Proxy
    PROVE  ConnInv'
<1> USE DEF ConnInv
<1>1. CASE ProxyEnds
  <2>1. /\ pc.proxy = "select" /\ pc' = [pc EXCEPT !.proxy = "done"]
        /\ UNCHANGED <<hand, received, channels, handlers, closed, writerVars, errs, pool,
                       accepted, answered>>
    BY <1>1 DEF ProxyEnds
  <2>2. /\ pc'.proxy = "done" /\ pc'.reader = pc.reader /\ pc'.mux = pc.mux /\ pc'.writer = pc.writer
        /\ pc' \in Places
    BY <2>1, Zenon DEF ConnType, Places
  <2>3. ConnType'
    BY <2>1, <2>2 DEF ConnType, channels
  <2>4. Front' /\ Middle' /\ Back'
    BY <2>1, <2>2 DEF Front, Middle, Back, channels, writerVars, InReader, InProxy, InWriter
  <2>5. Loads' /\ Unpooled'
    BY <2>1, <2>2 DEF Loads, Unpooled, channels
  <2>6. Order' /\ Sticky'
    BY <2>1, <2>2 DEF Order, Sticky, Returned, channels, writerVars
  <2> QED
    BY <2>3, <2>4, <2>5, <2>6
<1>2. CASE ProxyReceive
  <2>1. /\ pc.proxy = "select" /\ intermediate # <<>>
        /\ hand' = [hand EXCEPT !.proxy = Head(intermediate)]
        /\ intermediate' = Tail(intermediate)
        /\ pc' = [pc EXCEPT !.proxy = "send"]
        /\ UNCHANGED <<received, Request, Response, handlers, closed, writerVars, errs, pool,
                       accepted, answered>>
    BY <1>2 DEF ProxyReceive
  <2>2. /\ pc'.proxy = "send" /\ pc'.reader = pc.reader /\ pc'.mux = pc.mux /\ pc'.writer = pc.writer
        /\ pc' \in Places
    BY <2>1, Zenon DEF ConnType, Places
  <2>3. /\ intermediate' \in Seq(Message)
        /\ Head(intermediate) \in Range(intermediate) /\ Head(intermediate) \in Message
        /\ Head(intermediate).id \in Ids(intermediate)
        /\ Range(intermediate') \subseteq Range(intermediate)
        /\ Distinct(intermediate')
        /\ Ids(intermediate') = Ids(intermediate) \ {Head(intermediate).id}
    BY <2>1, TailFacts DEF ConnType, Front
  <2>4. /\ hand'.proxy = Head(intermediate) /\ hand'.reader = hand.reader
        /\ hand'.writer = hand.writer /\ hand' \in Hands
    BY <2>1, <2>3, Zenon DEF ConnType, Hands
  <2>5. /\ InProxy = {} /\ InProxy' = {Head(intermediate).id}
        /\ InReader' = InReader /\ InWriter' = InWriter
    BY <2>1, <2>2, <2>4 DEF InReader, InProxy, InWriter
  <2>6. ConnType'
    BY <2>1, <2>2, <2>3, <2>4 DEF ConnType
  <2>7. Front'
    BY <2>1, <2>3, <2>5 DEF Front
  <2>8. Middle' /\ Back'
    BY <2>1, <2>5 DEF Middle, Back, writerVars
  <2>9. Loads'
    BY <2>1, <2>2, <2>3, <2>4 DEF Loads
  <2>10. Unpooled'
    BY <2>1, <2>3, <2>4 DEF Unpooled
  <2>11. Order' /\ Sticky'
    BY <2>1, <2>2 DEF Order, Sticky, Returned, writerVars
  <2> QED
    BY <2>6, <2>7, <2>8, <2>9, <2>10, <2>11
<1>3. CASE ProxySend
  <2>1. /\ pc.proxy = "send"
        /\ Request' = Append(Request, hand.proxy)
        /\ accepted' = accepted \cup {hand.proxy.id}
        /\ hand' = [hand EXCEPT !.proxy = Nothing]
        /\ pc' = [pc EXCEPT !.proxy = "select"]
        /\ UNCHANGED <<received, intermediate, Response, handlers, closed, writerVars, errs,
                       pool, answered>>
    BY <1>3 DEF ProxySend
  <2>2. /\ pc'.proxy = "select" /\ pc'.reader = pc.reader /\ pc'.mux = pc.mux
        /\ pc'.writer = pc.writer /\ pc' \in Places
    BY <2>1, Zenon DEF ConnType, Places
  <2>3. /\ hand'.proxy = Nothing /\ hand'.reader = hand.reader /\ hand'.writer = hand.writer
        /\ hand' \in Hands
    BY <2>1, Zenon DEF ConnType, Hands
  <2>4. hand.proxy \in Message
    BY <2>1 DEF ConnType, Hands, Front, InProxy, Nothing
  <2>5. InProxy = {hand.proxy.id} /\ InProxy' = {} /\ InReader' = InReader /\ InWriter' = InWriter
    BY <2>1, <2>2, <2>3 DEF InReader, InProxy, InWriter
  <2>6. hand.proxy.id \notin accepted /\ hand.proxy.id \notin Ids(Request)
    BY <2>5 DEF Front, Middle
  <2>7. /\ Request' \in Seq(Message)
        /\ Range(Request') = Range(Request) \cup {hand.proxy}
        /\ Ids(Request') = Ids(Request) \cup {hand.proxy.id}
        /\ Distinct(Request')
    BY <2>1, <2>4, <2>6, AppendFacts DEF ConnType, Middle
  <2>8. ConnType'
    BY <2>1, <2>2, <2>3, <2>7 DEF ConnType
  <2>9. Front'
    BY <2>1, <2>5 DEF Front
  <2>10. Middle'
    BY <2>1, <2>6, <2>7 DEF Middle
  <2>11. Back'
    BY <2>1, <2>5 DEF Back, writerVars
  <2>12. Loads'
    BY <2>1, <2>2, <2>3, <2>7 DEF Loads
  <2>13. Unpooled'
    BY <2>1, <2>3, <2>7, NoneNotPooled DEF Unpooled, Nothing
  <2>14. Order' /\ Sticky'
    BY <2>1, <2>2 DEF Order, Sticky, Returned, writerVars
  <2> QED
    BY <2>8, <2>9, <2>10, <2>11, <2>12, <2>13, <2>14
<1> QED
  BY <1>1, <1>2, <1>3 DEF Proxy

\* The steps of the mux keep the invariant.
LEMMA MuxStep ==
    ASSUME ConnInv, Mux
    PROVE  ConnInv'
<1> USE DEF ConnInv
<1>1. CASE MuxStart
  <2> DEFINE q == Head(Request)
             new == [stage |-> "start", data |-> q.buf, out |-> None, read |-> None]
  <2>1. /\ Request # <<>> /\ Request' = Tail(Request) /\ pc.mux = "range"
        /\ handlers' = [r \in DOMAIN handlers \cup {q.id} |-> IF r = q.id THEN new ELSE handlers[r]]
        /\ UNCHANGED <<pc, hand, received, intermediate, Response, closed, writerVars, errs, pool,
                       accepted, answered>>
    BY <1>1 DEF MuxStart
  <2>2. /\ Request' \in Seq(Message)
        /\ q \in Range(Request) /\ q \in Message /\ q.id \in Ids(Request)
        /\ Range(Request') \subseteq Range(Request)
        /\ Distinct(Request')
        /\ Ids(Request') = Ids(Request) \ {q.id}
    BY <2>1, TailFacts DEF ConnType, Middle
  <2>3. q.id \in 1..MaxRequests /\ q.buf = <<"data", q.id>> /\ q.buf \in Some /\ q.buf \notin pool
    BY <2>2 DEF Loads, Unpooled, Message, Some
  <2>4. new = [stage |-> "start", data |-> <<"data", q.id>>, out |-> None, read |-> None]
    BY <2>3
  <2>5. new \in [stage : Stages, data : Some, out : Some, read : Some] /\ Stocked(q.id, new)
    BY <2>3, <2>4 DEF Stages, Some, Stocked
  <2>6. q.id \notin DOMAIN handlers
    BY <2>2 DEF Middle
  <2>7. /\ DOMAIN handlers' = DOMAIN handlers \cup {q.id} /\ handlers'[q.id] = new
        /\ \A r \in DOMAIN handlers : handlers'[r] = handlers[r]
        /\ handlers' \in [DOMAIN handlers' -> [stage : Stages, data : Some, out : Some, read : Some]]
    BY <2>1, <2>5, <2>6 DEF ConnType
  <2>8. new.data = q.buf /\ new.out = None /\ new.read = None
    OBVIOUS
  <2> HIDE DEF q, new
  <2>9. ConnType'
    BY <2>1, <2>2, <2>3, <2>7, Zenon DEF ConnType
  <2>10. Front' /\ Back'
    BY <2>1 DEF Front, Back, InReader, InProxy, InWriter, writerVars
  <2>11. Middle'
    BY <2>1, <2>2, <2>7, ZenonT(60) DEF Middle
  <2>12. Loads'
    BY <2>1, <2>2, <2>5, <2>7 DEF Loads
  <2>13. Unpooled'
    BY <2>1, <2>2, <2>3, <2>7, <2>8, NoneNotPooled, ZenonT(60) DEF Unpooled
  <2>14. Order' /\ Sticky'
    BY <2>1 DEF Order, Sticky, Returned, writerVars, ConnType, Places
  <2> QED
    BY <2>9, <2>10, <2>11, <2>12, <2>13, <2>14
<1>2. CASE MuxWait \/ MuxEnds
  <2>1. \E p \in {"wait", "done"} :
          /\ pc' = [pc EXCEPT !.mux = p]
          /\ Request = <<>> /\ pc.proxy = "done"
          /\ p = "done" => DOMAIN handlers = {}
    BY <1>2 DEF MuxWait, MuxEnds, Order
  <2>2. UNCHANGED <<hand, received, channels, handlers, closed, writerVars, errs, pool, accepted,
                    answered>>
    BY <1>2 DEF MuxWait, MuxEnds
  <2>3. pc.mux # "done"
    BY <1>2 DEF MuxWait, MuxEnds
  <2>4. /\ pc'.reader = pc.reader /\ pc'.proxy = pc.proxy /\ pc'.writer = pc.writer /\ pc' \in Places
        /\ pc'.mux = "done" => DOMAIN handlers = {}
    BY <2>1, Zenon DEF ConnType, Places
  <2>5. ConnType'
    BY <2>2, <2>4 DEF ConnType, channels
  <2>6. Front' /\ Middle' /\ Back'
    BY <2>2, <2>4 DEF Front, Middle, Back, channels, writerVars, InReader, InProxy, InWriter
  <2>7. Loads' /\ Unpooled'
    BY <2>2, <2>4 DEF Loads, Unpooled, channels
  <2>8. Order' /\ Sticky'
    BY <2>1, <2>2, <2>3, <2>4, Zenon DEF Order, Sticky, Returned, channels, writerVars
  <2> QED
    BY <2>5, <2>6, <2>7, <2>8
<1> QED
  BY <1>1, <1>2 DEF Mux

\* A buffer that is named after request r is with no other request.
LEMMA BufferElsewhere ==
    ASSUME ConnInv, NEW k, NEW r
    PROVE  /\ r \notin InReader => hand.reader.buf # <<k, r>>
           /\ r \notin InProxy => hand.proxy.buf # <<k, r>>
           /\ r \notin InWriter => hand.writer.buf # <<k, r>>
           /\ r \notin Ids(intermediate) => \A q \in Range(intermediate) : q.buf # <<k, r>>
           /\ r \notin Ids(Request) => \A q \in Range(Request) : q.buf # <<k, r>>
           /\ r \notin Ids(Response) => \A q \in Range(Response) : q.buf # <<k, r>>
           /\ \A g \in DOMAIN handlers : g # r =>
                /\ handlers[g].data # <<k, r>> /\ handlers[g].out # <<k, r>>
                /\ handlers[g].read # <<k, r>>
<1> USE DEF ConnInv
<1>1. Nothing.buf # <<k, r>>
  <2>1. Nothing.buf = None
    BY DEF Nothing
  <2> QED
    BY <2>1, NoneIsNoBuffer
<1>2. r \notin InReader => hand.reader.buf # <<k, r>>
  BY <1>1 DEF Loads, InReader
<1>3. r \notin InProxy => hand.proxy.buf # <<k, r>>
  BY <1>1 DEF Loads, InProxy
<1>4. r \notin InWriter => hand.writer.buf # <<k, r>>
  BY <1>1 DEF Loads, InWriter
<1>5. ASSUME NEW s, \A q \in Range(s) : q.buf = None \/ \E j : q.buf = <<j, q.id>>, r \notin Ids(s)
      PROVE  \A q \in Range(s) : q.buf # <<k, r>>
  BY <1>5, NoneIsNoBuffer DEF Range, Ids
<1>6. /\ r \notin Ids(intermediate) => \A q \in Range(intermediate) : q.buf # <<k, r>>
      /\ r \notin Ids(Request) => \A q \in Range(Request) : q.buf # <<k, r>>
      /\ r \notin Ids(Response) => \A q \in Range(Response) : q.buf # <<k, r>>
  BY <1>5 DEF Loads
<1>7. ASSUME NEW g \in DOMAIN handlers, g # r
      PROVE  /\ handlers[g].data # <<k, r>> /\ handlers[g].out # <<k, r>>
             /\ handlers[g].read # <<k, r>>
  <2>1. Stocked(g, handlers[g])
    BY DEF Loads
  <2> QED
    BY <1>7, <2>1, NoneIsNoBuffer DEF Stocked
<1> QED
  BY <1>2, <1>3, <1>4, <1>6, <1>7, Zenon

\* A handler goes on to another stage, and returns at most one buffer of its own
\* request to the pool: nobody else has that buffer.
LEMMA BecomeStep ==
    ASSUME ConnInv, NEW r \in DOMAIN handlers, NEW stage \in Stages,
           NEW data \in Some, NEW out \in Some, NEW read \in Some,
           Become(r, stage, data, out, read),
           Stocked(r, [stage |-> stage, data |-> data, out |-> out, read |-> read]),
           NEW k, pool' \subseteq pool \cup {<<k, r>>}, pool' \subseteq Buffers,
           data \notin pool', out \notin pool', read \notin pool',
           UNCHANGED <<handlerUnchanged, Response, answered>>
    PROVE  ConnInv'
<1> USE DEF ConnInv
<1> DEFINE new == [stage |-> stage, data |-> data, out |-> out, read |-> read]
<1>1. UNCHANGED <<pc, hand, received, channels, closed, writerVars, errs, accepted, answered>>
  BY DEF handlerUnchanged, channels
<1>2. new \in [stage : Stages, data : Some, out : Some, read : Some]
  OBVIOUS
<1>3. /\ DOMAIN handlers' = DOMAIN handlers /\ handlers'[r] = new
      /\ \A g \in DOMAIN handlers : g # r => handlers'[g] = handlers[g]
      /\ handlers' \in [DOMAIN handlers' -> [stage : Stages, data : Some, out : Some, read : Some]]
  BY <1>2 DEF Become, ConnType
<1>4. new.data = data /\ new.out = out /\ new.read = read /\ Stocked(r, new)
  OBVIOUS
<1> HIDE DEF new
<1>5. ConnType'
  BY <1>1, <1>3, Zenon DEF ConnType, channels
<1>6. Front' /\ Middle' /\ Back'
  BY <1>1, <1>3, Zenon DEF Front, Middle, Back, channels, writerVars, InReader, InProxy, InWriter
<1>7. Loads'
  BY <1>1, <1>3, <1>4, Zenon DEF Loads, channels
<1>8. /\ r \in accepted /\ r \notin Ids(Request) /\ r \notin answered
      /\ r \notin InReader /\ r \notin Ids(intermediate) /\ r \notin InProxy
      /\ r \notin Ids(Response) /\ r \notin InWriter
  BY Zenon DEF Front, Middle, Back
<1>9. /\ \A q \in Range(intermediate) : q.buf # <<k, r>>
      /\ \A q \in Range(Request) : q.buf # <<k, r>>
      /\ \A q \in Range(Response) : q.buf # <<k, r>>
      /\ hand.reader.buf # <<k, r>> /\ hand.proxy.buf # <<k, r>> /\ hand.writer.buf # <<k, r>>
      /\ \A g \in DOMAIN handlers : g # r =>
           /\ handlers[g].data # <<k, r>> /\ handlers[g].out # <<k, r>>
           /\ handlers[g].read # <<k, r>>
  BY <1>8, BufferElsewhere, Zenon
<1>10. Unpooled'
  BY <1>1, <1>3, <1>4, <1>9, ZenonT(60) DEF Unpooled, channels
<1>11. Order' /\ Sticky'
  BY <1>1, <1>3, Zenon DEF Order, Sticky, Returned, channels, writerVars
<1> QED
  BY <1>5, <1>6, <1>7, <1>10, <1>11

\* The steps of a handler keep the invariant.
LEMMA HandlerStep ==
    ASSUME ConnInv, NEW r \in 1..MaxRequests, Handle(r)
    PROVE  ConnInv'
<1> USE DEF ConnInv
<1>1. r \in DOMAIN handlers /\ Stocked(r, handlers[r])
  BY DEF Handle, AnswerInPlace, RefuseCall, Hangs, CompoundStart, ReadStart, ReadEnds,
         CompoundEnds, CompoundFails, HandlerPanics, Respond, At, Loads
<1>2. /\ {<<"data", r>>, <<"out", r>>, <<"read", r>>} \subseteq Buffers
      /\ <<"data", r>> # <<"out", r>> /\ <<"data", r>> # <<"read", r>> /\ <<"out", r>> # <<"read", r>>
      /\ <<"data", r>> # None /\ <<"out", r>> # None /\ <<"read", r>> # None
      /\ pool \subseteq Buffers /\ None \notin pool
  BY NoneIsNoBuffer, NoneNotPooled DEF Buffers, ConnType
<1>3. /\ handlers[r].data \notin pool /\ handlers[r].out \notin pool /\ handlers[r].read \notin pool
  BY <1>1, Zenon DEF Unpooled
<1>4. ASSUME At(r, "start")
      PROVE  handlers[r].data = <<"data", r>>
  BY <1>1, <1>4 DEF At, Stocked
<1>5. ASSUME At(r, "run") \/ At(r, "ran") \/ At(r, "read")
      PROVE  handlers[r].data = <<"data", r>> /\ handlers[r].out = <<"out", r>>
  BY <1>1, <1>5 DEF At, Stocked
<1>6. ASSUME NEW b \in {None, <<"data", r>>, <<"out", r>>}
      PROVE  Stocked(r, [stage |-> "respond", data |-> None, out |-> b, read |-> None])
  BY Zenon DEF Stocked
<1>7. CASE AnswerInPlace(r)
  <2>1. Become(r, "respond", None, <<"data", r>>, None) /\ handlers[r].data = <<"data", r>>
    BY <1>4, <1>7, Zenon DEF AnswerInPlace, Return, Become
  <2> QED
    BY <1>1, <1>2, <1>3, <1>6, <1>7, <2>1, BecomeStep DEF AnswerInPlace, Stages, Some
<1>8. CASE RefuseCall(r)
  <2>1. Become(r, "respond", None, None, None)
    BY <1>8, Zenon DEF RefuseCall, Return
  <2> QED
    BY <1>1, <1>2, <1>3, <1>6, <1>8, <2>1, BecomeStep DEF RefuseCall, Stages, Some
<1>9. CASE Hangs(r) \/ HandlerPanics(r)
  <2>1. PICK stage \in {"hung", "panicked"} :
          Become(r, stage, handlers[r].data, handlers[r].out, None)
    BY <1>9, Zenon DEF Hangs, HandlerPanics
  <2>2. handlers[r].data = <<"data", r>> /\ handlers[r].out \in {None, <<"out", r>>}
    BY <1>1, <1>9 DEF Hangs, HandlerPanics, At, Stocked
  <2>3. Stocked(r, [stage |-> stage, data |-> handlers[r].data, out |-> handlers[r].out,
                    read |-> None])
    BY <2>2, Zenon DEF Stocked
  <2>4. /\ handlers[r].data \in Some /\ handlers[r].out \in Some /\ None \in Some
        /\ stage \in Stages
    BY <1>2, <2>2 DEF Some, Stages
  <2>5. pool' = pool /\ UNCHANGED <<handlerUnchanged, Response, answered>>
    BY <1>9, Zenon DEF Hangs, HandlerPanics
  <2> QED
    BY <1>1, <1>2, <1>3, <2>1, <2>3, <2>4, <2>5, BecomeStep
<1>10. CASE CompoundStart(r)
  <2>1. /\ Become(r, "run", <<"data", r>>, <<"out", r>>, None) /\ pool' = pool \ {<<"out", r>>}
        /\ handlers[r].data = <<"data", r>>
    BY <1>4, <1>10, Zenon DEF CompoundStart, Become, Get
  <2>2. Stocked(r, [stage |-> "run", data |-> <<"data", r>>, out |-> <<"out", r>>, read |-> None])
    BY Zenon DEF Stocked
  <2> QED
    BY <1>1, <1>2, <1>3, <1>10, <2>1, <2>2, BecomeStep, ZenonT(60) DEF CompoundStart, Stages, Some
<1>11. CASE ReadStart(r)
  <2>1. /\ Become(r, "read", <<"data", r>>, <<"out", r>>, <<"read", r>>)
        /\ pool' = pool \ {<<"read", r>>}
        /\ handlers[r].data = <<"data", r>> /\ handlers[r].out = <<"out", r>>
    BY <1>5, <1>11, Zenon DEF ReadStart, Become, Get
  <2>2. Stocked(r, [stage |-> "read", data |-> <<"data", r>>, out |-> <<"out", r>>,
                    read |-> <<"read", r>>])
    BY Zenon DEF Stocked
  <2>3. /\ <<"data", r>> \in Some /\ <<"out", r>> \in Some /\ <<"read", r>> \in Some
        /\ <<"data", r>> \notin pool' /\ <<"out", r>> \notin pool' /\ <<"read", r>> \notin pool'
        /\ pool' \subseteq pool \cup {<<"read", r>>} /\ pool' \subseteq Buffers
    BY <1>2, <1>3, <2>1 DEF Some
  <2>4. "read" \in Stages /\ UNCHANGED <<handlerUnchanged, Response, answered>>
    BY <1>11 DEF ReadStart, Stages
  <2> QED
    BY <1>1, <2>1, <2>2, <2>3, <2>4, BecomeStep, Zenon
<1>12. CASE ReadEnds(r)
  <2>1. handlers[r].read = <<"read", r>>
    BY <1>1, <1>12 DEF ReadEnds, At, Stocked
  <2>2. /\ Become(r, "ran", <<"data", r>>, <<"out", r>>, None)
        /\ pool' = pool \cup {<<"read", r>>}
        /\ handlers[r].data = <<"data", r>> /\ handlers[r].out = <<"out", r>>
    BY <1>5, <1>12, <2>1, Zenon DEF ReadEnds, Become, Put
  <2>3. Stocked(r, [stage |-> "ran", data |-> <<"data", r>>, out |-> <<"out", r>>, read |-> None])
    BY Zenon DEF Stocked
  <2> QED
    BY <1>1, <1>2, <1>3, <1>12, <2>2, <2>3, BecomeStep, SMTT(60) DEF ReadEnds, Stages, Some
<1>13. CASE CompoundEnds(r) \/ CompoundFails(r)
  <2>1. PICK b \in {None, <<"out", r>>} : Become(r, "respond", None, b, None)
    BY <1>5, <1>13, Zenon DEF CompoundEnds, CompoundFails, Return, Become
  <2>2. /\ pool' = pool \cup {<<"data", r>>} /\ handlers[r].out = <<"out", r>>
        /\ UNCHANGED <<handlerUnchanged, Response, answered>>
    BY <1>5, <1>13 DEF CompoundEnds, CompoundFails, Put
  <2>3. b \in Some /\ b \notin pool' /\ None \in Some /\ None \notin pool' /\ pool' \subseteq Buffers
    BY <1>2, <1>3, <2>2 DEF Some
  <2> QED
    BY <1>1, <1>6, <2>1, <2>2, <2>3, BecomeStep, Zenon DEF Stages
<1>14. CASE Respond(r)
  <2> DEFINE m == [id |-> r, buf |-> handlers[r].out]
  <2>1. /\ At(r, "respond")
        /\ Response' = Append(Response, m)
        /\ handlers' = [q \in DOMAIN handlers \ {r} |-> handlers[q]]
        /\ answered' = answered \cup {r}
        /\ UNCHANGED <<handlerUnchanged, pool>>
    BY <1>14, Zenon DEF Respond
  <2>a. handlers[r].out \in {None, <<"data", r>>, <<"out", r>>}
    BY <1>1, <2>1 DEF At, Stocked
  <2>b. handlers[r].out \in Buffers \cup {None}
    BY <1>2, <2>a
  <2>2. m.buf \in {None, <<"data", r>>, <<"out", r>>} /\ m \in Message /\ m.id = r /\ m.buf \notin pool
    BY <1>3, <2>a, <2>b, Zenon DEF Message
  <2> HIDE DEF m
  <2>3. UNCHANGED <<pc, hand, received, intermediate, Request, closed, writerVars, errs, accepted>>
    BY <2>1 DEF handlerUnchanged
  <2>4. r \notin answered /\ r \notin Ids(Response)
    BY <1>1 DEF Middle, Back
  <2>5. /\ Response' \in Seq(Message) /\ Response' # <<>>
        /\ Range(Response') = Range(Response) \cup {m}
        /\ Ids(Response') = Ids(Response) \cup {r}
        /\ Distinct(Response')
    BY <2>1, <2>2, <2>4, AppendFacts DEF ConnType, Back
  <2>6. /\ DOMAIN handlers' = DOMAIN handlers \ {r}
        /\ \A g \in DOMAIN handlers' : handlers'[g] = handlers[g]
    BY <2>1
  <2>7. ConnType'
    BY <2>1, <2>3, <2>5, <2>6, Zenon DEF ConnType
  <2>8. Front'
    BY <2>3 DEF Front, InReader, InProxy
  <2>9. Middle'
    BY <1>1, <2>1, <2>3, <2>6, Zenon DEF Middle
  <2>10. Back'
    BY <2>1, <2>3, <2>4, <2>5, ZenonT(60) DEF Back, InWriter, writerVars
  <2>11. Loads'
    BY <2>2, <2>3, <2>5, <2>6, Zenon DEF Loads
  <2>12. Unpooled'
    BY <2>1, <2>2, <2>3, <2>5, <2>6, Zenon DEF Unpooled
  <2>13. Order' /\ Sticky'
    BY <2>3, <2>5, <2>6 DEF Order, Sticky, Returned, writerVars
  <2> QED
    BY <2>7, <2>8, <2>9, <2>10, <2>11, <2>12, <2>13
<1> QED
  BY <1>7, <1>8, <1>9, <1>10, <1>11, <1>12, <1>13, <1>14, Zenon DEF Handle

\* The steps of the writer keep the invariant.
LEMMA WriterStep ==
    ASSUME ConnInv, Writer
    PROVE  ConnInv'
<1> USE DEF ConnInv
<1>1. CASE SkipFlush \/ Flush \/ FlushFails \/ WriterEnds
  <2>1. /\ pc.writer \in {"flush", "receive"}
        /\ \E p \in {"receive", "done"} : pc' = [pc EXCEPT !.writer = p]
        /\ UNCHANGED <<hand, received, channels, handlers, closed, pool, accepted, answered>>
    BY <1>1 DEF SkipFlush, Flush, FlushFails, WriterEnds
  <2>2. /\ pc'.writer \in {"receive", "done"} /\ pc'.reader = pc.reader /\ pc'.proxy = pc.proxy
        /\ pc'.mux = pc.mux /\ pc' \in Places
    BY <2>1, Zenon DEF ConnType, Places
  <2>3. ConnType'
    BY <2>1, <2>2 DEF ConnType, channels
  <2>4. Front' /\ Middle'
    BY <2>1, <2>2 DEF Front, Middle, channels, InReader, InProxy
  <2>5. \/ UNCHANGED <<buffered, delivered>>
        \/ delivered' = delivered \cup buffered /\ buffered' = {}
    BY <1>1 DEF SkipFlush, Flush, FlushFails, WriterEnds, writerVars
  <2>6. Back'
    BY <2>1, <2>2, <2>5 DEF Back, InWriter, channels
  <2>7. Loads' /\ Unpooled'
    BY <2>1, <2>2 DEF Loads, Unpooled, channels
  <2>8. Order'
    BY <2>1, <2>2 DEF Order, Returned, channels
  <2>9. Sticky'
    <3>1. CASE SkipFlush
      BY <2>1, <3>1 DEF SkipFlush, Sticky, channels, writerVars, ConnType, Places
    <3>2. CASE Flush
      BY <3>2 DEF Flush, Sticky
    <3>3. CASE FlushFails
      BY <3>3 DEF FlushFails, Sticky
    <3>4. CASE WriterEnds
      BY <3>4 DEF WriterEnds, Sticky, writerVars
    <3> QED
      BY <1>1, <3>1, <3>2, <3>3, <3>4
  <2> QED
    BY <2>3, <2>4, <2>6, <2>7, <2>8, <2>9
<1>2. CASE ErrorResponse \/ ReplyResponse
  <2> DEFINE m == Head(Response)
  <2>1. /\ pc.writer = "receive" /\ Response # <<>> /\ Response' = Tail(Response)
        /\ UNCHANGED <<received, intermediate, Request, handlers, closed, writerVars, pool,
                       accepted, answered>>
        /\ errs \subseteq errs'
    BY <1>2 DEF ErrorResponse, ReplyResponse
  <2>2. \/ hand' = hand /\ pc' = [pc EXCEPT !.writer = "flush"]
        \/ m.buf # None /\ hand' = [hand EXCEPT !.writer = m] /\ pc' = [pc EXCEPT !.writer = "send"]
    BY <1>2 DEF ErrorResponse, ReplyResponse
  <2>3. /\ Response' \in Seq(Message)
        /\ m \in Range(Response) /\ m \in Message /\ m.id \in Ids(Response)
        /\ Range(Response') \subseteq Range(Response)
        /\ Distinct(Response')
        /\ Ids(Response') = Ids(Response) \ {m.id}
    BY <2>1, TailFacts DEF ConnType, Back
  <2> HIDE DEF m
  <2>4. /\ pc'.reader = pc.reader /\ pc'.proxy = pc.proxy /\ pc'.mux = pc.mux /\ pc' \in Places
        /\ hand'.reader = hand.reader /\ hand'.proxy = hand.proxy /\ hand' \in Hands
        /\ \/ hand'.writer = hand.writer /\ pc'.writer = "flush"
           \/ m.buf # None /\ hand'.writer = m /\ pc'.writer = "send"
    BY <2>2, <2>3 DEF ConnType, Places, Hands
  <2>5. InReader' = InReader /\ InProxy' = InProxy /\ InWriter = {} /\ InWriter' \subseteq {m.id}
    BY <2>1, <2>4 DEF InReader, InProxy, InWriter
  <2>6. ConnType'
    BY <2>1, <2>3, <2>4, Zenon DEF ConnType
  <2>7. Front' /\ Middle'
    BY <2>1, <2>5, Zenon DEF Front, Middle
  <2>8. Back'
    BY <2>1, <2>3, <2>5, ZenonT(60) DEF Back, writerVars
  <2>9. Loads'
    BY <2>1, <2>3, <2>4, Zenon DEF Loads
  <2>10. Unpooled'
    BY <2>1, <2>3, <2>4, Zenon DEF Unpooled
  <2>11. Order' /\ Sticky'
    BY <2>1, <2>4 DEF Order, Sticky, Returned, writerVars
  <2> QED
    BY <2>6, <2>7, <2>8, <2>9, <2>10, <2>11
<1>3. CASE SendReply \/ SendReplyFails
  <2>1. pc.writer = "send" /\ Sent
    BY <1>3 DEF SendReply, SendReplyFails
  <2>2. PICK r, k : r = hand.writer.id /\ k \in {"data", "out"} /\ hand.writer.buf = <<k, r>>
    BY <2>1 DEF Loads
  <2>3. /\ pool' = pool \cup {<<k, r>>}
        /\ hand' = [hand EXCEPT !.writer = Nothing]
        /\ pc' = [pc EXCEPT !.writer = "flush"]
        /\ UNCHANGED <<received, channels, handlers, closed, errs, accepted, answered>>
    BY <2>1, <2>2 DEF Sent, Put
  <2>4. /\ pc'.reader = pc.reader /\ pc'.proxy = pc.proxy /\ pc'.mux = pc.mux
        /\ pc'.writer = "flush" /\ pc' \in Places
        /\ hand'.reader = hand.reader /\ hand'.proxy = hand.proxy /\ hand'.writer = Nothing
        /\ hand' \in Hands
    BY <2>3, Zenon DEF ConnType, Places, Hands
  <2>5. InReader' = InReader /\ InProxy' = InProxy /\ InWriter = {r} /\ InWriter' = {}
    BY <2>1, <2>2, <2>4 DEF InReader, InProxy, InWriter
  <2>6. hand.writer \in Message /\ <<k, r>> \in Buffers
    <3>1. hand.writer # Nothing
      BY <2>2, NoneIsNoBuffer DEF Nothing
    <3>2. hand.writer \in Message
      BY <3>1 DEF ConnType, Hands
    <3>3. <<k, r>> # None
      BY NoneIsNoBuffer
    <3> QED
      BY <2>2, <3>2, <3>3, Zenon DEF Message
  <2>7. ConnType'
    BY <2>3, <2>4, <2>6, ZenonT(60) DEF ConnType, channels
  <2>8. Front' /\ Middle'
    BY <2>3, <2>5 DEF Front, Middle, channels
  <2>9. \/ UNCHANGED <<buffered, delivered>>
        \/ buffered' = buffered \cup {r} /\ delivered' = delivered
        \/ delivered' = delivered \cup buffered /\ buffered' = {r}
    BY <1>3, <2>2 DEF SendReply, SendReplyFails
  <2>10. Back'
    BY <2>3, <2>5, <2>9 DEF Back, channels
  <2>11. Loads'
    BY <2>3, <2>4, Zenon DEF Loads, channels
  <2>12. /\ r \in answered /\ r \in accepted /\ r \notin Ids(Request) /\ r \notin DOMAIN handlers
         /\ r \notin InReader /\ r \notin Ids(intermediate) /\ r \notin InProxy
         /\ r \notin Ids(Response)
    BY <2>5, Zenon DEF Front, Middle, Back
  <2>13. /\ \A q \in Range(intermediate) : q.buf # <<k, r>>
         /\ \A q \in Range(Request) : q.buf # <<k, r>>
         /\ \A q \in Range(Response) : q.buf # <<k, r>>
         /\ hand.reader.buf # <<k, r>> /\ hand.proxy.buf # <<k, r>>
         /\ \A g \in DOMAIN handlers :
              /\ handlers[g].data # <<k, r>> /\ handlers[g].out # <<k, r>>
              /\ handlers[g].read # <<k, r>>
    BY <2>12, BufferElsewhere
  <2>14. Nothing.buf \notin pool'
    BY <2>3, NoneNotPooled, NoneIsNoBuffer DEF Nothing
  <2>15. Unpooled'
    BY <2>3, <2>4, <2>13, <2>14 DEF Unpooled, channels
  <2>16. Order'
    BY <2>1, <2>3, <2>4 DEF Order, Returned, channels
  <2>17. Sticky'
    BY <2>4 DEF Sticky
  <2> QED
    BY <2>7, <2>8, <2>10, <2>11, <2>15, <2>16, <2>17
<1> QED
  BY <1>1, <1>2, <1>3 DEF Writer

\* The remaining steps keep the invariant.
LEMMA OtherStep ==
    ASSUME ConnInv, CloseConn \/ Cancel \/ PeerChanges \/ UNCHANGED vars
    PROVE  ConnInv'
<1> USE DEF ConnInv
<1>1. /\ UNCHANGED <<pc, hand, received, channels, handlers, writerVars, errs, pool, accepted,
                     answered>>
      /\ closed' => closed \/ Returned
  BY DEF CloseConn, Cancel, PeerChanges, vars
<1>2. ConnType'
  BY <1>1 DEF ConnType, channels
<1>3. Front' /\ Middle' /\ Back'
  BY <1>1, ZenonT(60) DEF Front, Middle, Back, channels, writerVars, InReader, InProxy, InWriter
<1>4. Loads' /\ Unpooled'
  BY <1>1, Zenon DEF Loads, Unpooled, channels
<1>5. Order' /\ Sticky'
  BY <1>1 DEF Order, Sticky, Returned, channels, writerVars
<1> QED
  BY <1>2, <1>3, <1>4, <1>5, Zenon

\* The invariant holds when the connection is accepted.
LEMMA InitConnInv ==
    ASSUME Init
    PROVE  ConnInv
<1>1. /\ pc \in Places /\ pc.reader = "loop" /\ pc.proxy = "select" /\ pc.mux = "range"
      /\ pc.writer = "flush"
  BY DEF Init, Places
<1>2. /\ hand \in Hands /\ hand.reader = Nothing /\ hand.proxy = Nothing /\ hand.writer = Nothing
  BY DEF Init, Hands
<1>3. /\ intermediate \in Seq(Message) /\ Request \in Seq(Message) /\ Response \in Seq(Message)
      /\ DOMAIN intermediate = {} /\ DOMAIN Request = {} /\ DOMAIN Response = {}
  BY DEF Init
<1>4. /\ DOMAIN handlers = {}
      /\ handlers \in [DOMAIN handlers -> [stage : Stages, data : Some, out : Some, read : Some]]
  BY DEF Init
<1>5. InReader = {} /\ InProxy = {} /\ InWriter = {}
  BY <1>1, Zenon DEF InReader, InProxy, InWriter
<1>6. /\ Ids(intermediate) = {} /\ Ids(Request) = {} /\ Ids(Response) = {}
      /\ Distinct(intermediate) /\ Distinct(Request) /\ Distinct(Response)
      /\ Range(intermediate) = {} /\ Range(Request) = {} /\ Range(Response) = {}
  BY <1>3, Zenon DEF Ids, Distinct, Range
<1>7. ConnType
  BY <1>1, <1>2, <1>3, <1>4, ConnAssumption, SMTT(60) DEF Init, ConnType
<1>8. Front /\ Middle /\ Back
  BY <1>4, <1>5, <1>6 DEF Init, Front, Middle, Back
<1>9. Loads
  BY <1>1, <1>2, <1>4, <1>6 DEF Loads
<1>10. Nothing.buf \notin pool
  BY <1>7, NoneNotPooled DEF Nothing
<1>11. Unpooled
  BY <1>2, <1>4, <1>6, <1>10, Zenon DEF Unpooled
<1>12. Order /\ Sticky
  BY <1>1 DEF Init, Order, Sticky
<1> QED
  BY <1>7, <1>8, <1>9, <1>11, <1>12, Zenon DEF ConnInv

\* The inductive invariant holds on every connection.
THEOREM ConnInvariant == Spec => []ConnInv
<1>1. ConnInv /\ [Next]_vars => ConnInv'
  BY ReaderStep, ProxyStep, MuxStep, HandlerStep, WriterStep, OtherStep DEF Next
<1> QED
  BY <1>1, InitConnInv, PTL DEF Spec
-----------------------------------------------------------------------------
\* Serve never returns without the error of a failed write, although SendReplies
\* records nil where SendReply fails.
THEOREM WriteErrors == Spec => []WriteErrorIsReported
<1>1. ConnInv => WriteErrorIsReported
  BY Zenon DEF ConnInv, Sticky, WriteErrorIsReported, Returned
<1> QED
  BY <1>1, ConnInvariant, PTL

\* Place x has the buffer of kind k that is named after request r, and with it
\* that request.
Spot(x, k, r) ==
    /\ x[3] = <<k, r>>
    /\ \/ x = <<"reader", 0, x[3]>> /\ r \in InReader
       \/ x = <<"proxy", 0, x[3]>> /\ r \in InProxy
       \/ x = <<"writer", 0, x[3]>> /\ r \in InWriter
       \/ \E i \in DOMAIN intermediate : x = <<"intermediate", i, x[3]>> /\ intermediate[i].id = r
       \/ \E i \in DOMAIN Request : x = <<"Request", i, x[3]>> /\ Request[i].id = r
       \/ \E i \in DOMAIN Response : x = <<"Response", i, x[3]>> /\ Response[i].id = r
       \/ /\ r \in DOMAIN handlers
          /\ \/ x = <<"data", r, x[3]>> /\ x[3] = handlers[r].data
             \/ x = <<"out", r, x[3]>> /\ x[3] = handlers[r].out
             \/ x = <<"read", r, x[3]>> /\ x[3] = handlers[r].read

\* Every holding of a buffer outside the pool is a spot, and not of a free buffer.
LEMMA HoldingIsSpot ==
    ASSUME ConnInv, NEW x \in Holdings, x[3] # None
    PROVE  \/ x = <<"pool", 0, x[3]>> /\ x[3] \in pool
           \/ x[3] \notin pool /\ \E k, r : Spot(x, k, r)
<1> USE DEF ConnInv
<1>1. DOMAIN hand = {"reader", "proxy", "writer"} /\ Nothing.buf = None
  BY DEF ConnType, Hands, Nothing
<1>2. CASE x \in {<<"pool", 0, b>> : b \in pool}
  BY <1>2, SMTT(60)
<1>3. CASE x = <<"reader", 0, hand.reader.buf>>
  BY <1>1, <1>3, Zenon DEF Loads, Unpooled, Spot, InReader
<1>4. CASE x = <<"proxy", 0, hand.proxy.buf>>
  BY <1>1, <1>4, Zenon DEF Loads, Unpooled, Spot, InProxy
<1>5. CASE x = <<"writer", 0, hand.writer.buf>>
  BY <1>1, <1>5, Zenon DEF Loads, Unpooled, Spot, InWriter
<1>6. ASSUME NEW i \in DOMAIN intermediate, x = <<"intermediate", i, intermediate[i].buf>>
      PROVE  x[3] \notin pool /\ \E k, r : Spot(x, k, r)
  <2>1. intermediate[i] \in Range(intermediate)
    BY Zenon DEF Range
  <2> QED
    BY <1>6, <2>1, Zenon DEF Loads, Unpooled, Spot
<1>7. ASSUME NEW i \in DOMAIN Request, x = <<"Request", i, Request[i].buf>>
      PROVE  x[3] \notin pool /\ \E k, r : Spot(x, k, r)
  <2>1. Request[i] \in Range(Request)
    BY DEF Range
  <2> QED
    BY <1>7, <2>1, Zenon DEF Loads, Unpooled, Spot
<1>8. ASSUME NEW i \in DOMAIN Response, x = <<"Response", i, Response[i].buf>>
      PROVE  x[3] \notin pool /\ \E k, r : Spot(x, k, r)
  <2>1. Response[i] \in Range(Response)
    BY DEF Range
  <2> QED
    BY <1>8, <2>1 DEF Loads, Unpooled, Spot
<1>9. ASSUME NEW r \in DOMAIN handlers,
             x \in {<<"data", r, handlers[r].data>>, <<"out", r, handlers[r].out>>,
                    <<"read", r, handlers[r].read>>}
      PROVE  x[3] \notin pool /\ \E k, q : Spot(x, k, q)
  <2>1. Stocked(r, handlers[r])
    BY Zenon DEF Loads
  <2>2. x[3] \notin pool
    BY <1>9 DEF Unpooled
  <2>3. PICK k : x[3] = <<k, r>>
    BY <1>9, <2>1 DEF Stocked
  <2>4. \/ x = <<"data", r, x[3]>> /\ x[3] = handlers[r].data
        \/ x = <<"out", r, x[3]>> /\ x[3] = handlers[r].out
        \/ x = <<"read", r, x[3]>> /\ x[3] = handlers[r].read
    BY <1>9
  <2>5. Spot(x, k, r)
    BY <1>9, <2>3, <2>4, ZenonT(60) DEF Spot
  <2> QED
    BY <2>2, <2>5, ZenonT(60)
<1> QED
  BY <1>1, <1>2, <1>3, <1>4, <1>5, <1>6, <1>7, <1>8, <1>9, Zenon DEF Holdings

\* A buffer has one spot.
LEMMA OneSpot ==
    ASSUME ConnInv, NEW k, NEW r, NEW x, NEW y, Spot(x, k, r), Spot(y, k, r)
    PROVE  x = y
<1> USE DEF ConnInv
<1>1. /\ \A i \in DOMAIN intermediate : intermediate[i].id \in Ids(intermediate)
      /\ \A i \in DOMAIN Request : Request[i].id \in Ids(Request)
      /\ \A i \in DOMAIN Response : Response[i].id \in Ids(Response)
  BY Zenon DEF Ids
<1>2. x[3] = y[3]
  BY Zenon DEF Spot
<1>3. CASE r \in InReader
  <2>1. /\ r \notin Ids(intermediate) /\ r \notin InProxy /\ r \notin accepted
        /\ r \notin Ids(Request) /\ r \notin DOMAIN handlers /\ r \notin answered
        /\ r \notin Ids(Response) /\ r \notin InWriter
    BY <1>3, Zenon DEF Front, Middle, Back
  <2> QED
    BY <1>1, <1>2, <2>1, Zenon DEF Spot
<1>4. CASE r \in InProxy
  <2>1. /\ r \notin Ids(intermediate) /\ r \notin InReader /\ r \notin accepted
        /\ r \notin Ids(Request) /\ r \notin DOMAIN handlers /\ r \notin answered
        /\ r \notin Ids(Response) /\ r \notin InWriter
    BY <1>4, Zenon DEF Front, Middle, Back
  <2> QED
    BY <1>1, <1>2, <2>1, Zenon DEF Spot
<1>5. CASE r \in Ids(intermediate)
  <2>1. /\ r \notin InProxy /\ r \notin InReader /\ r \notin accepted
        /\ r \notin Ids(Request) /\ r \notin DOMAIN handlers /\ r \notin answered
        /\ r \notin Ids(Response) /\ r \notin InWriter
    BY <1>5, Zenon DEF Front, Middle, Back
  <2> QED
    BY <1>1, <1>2, <2>1, ZenonT(60) DEF Spot, Front, Distinct
<1>6. CASE r \in Ids(Request)
  <2>1. /\ r \notin InProxy /\ r \notin InReader /\ r \notin Ids(intermediate)
        /\ r \notin DOMAIN handlers /\ r \notin answered
        /\ r \notin Ids(Response) /\ r \notin InWriter
    BY <1>6, Zenon DEF Front, Middle, Back
  <2> QED
    BY <1>1, <1>2, <2>1, ZenonT(60) DEF Spot, Middle, Distinct
<1>7. CASE r \in Ids(Response)
  <2>1. /\ r \notin InProxy /\ r \notin InReader /\ r \notin Ids(intermediate)
        /\ r \notin DOMAIN handlers /\ r \notin Ids(Request) /\ r \notin InWriter
    BY <1>7, Zenon DEF Front, Middle, Back
  <2> QED
    BY <1>1, <1>2, <2>1, ZenonT(60) DEF Spot, Back, Distinct
<1>8. CASE r \in InWriter
  <2>1. /\ r \notin InProxy /\ r \notin InReader /\ r \notin Ids(intermediate)
        /\ r \notin DOMAIN handlers /\ r \notin Ids(Request) /\ r \notin Ids(Response)
    BY <1>8, Zenon DEF Front, Middle, Back
  <2> QED
    BY <1>1, <1>2, <2>1, Zenon DEF Spot
<1>9. CASE r \in DOMAIN handlers
  <2>1. /\ r \notin InProxy /\ r \notin InReader /\ r \notin Ids(intermediate)
        /\ r \notin InWriter /\ r \notin Ids(Request) /\ r \notin Ids(Response)
    BY <1>9, Zenon DEF Front, Middle, Back
  <2>2. /\ x \in {<<"data", r, x[3]>>, <<"out", r, x[3]>>, <<"read", r, x[3]>>}
        /\ x = <<"data", r, x[3]>> => x[3] = handlers[r].data
        /\ x = <<"out", r, x[3]>> => x[3] = handlers[r].out
        /\ x = <<"read", r, x[3]>> => x[3] = handlers[r].read
    BY <1>1, <2>1, SMTT(60) DEF Spot
  <2>3. /\ y \in {<<"data", r, y[3]>>, <<"out", r, y[3]>>, <<"read", r, y[3]>>}
        /\ y = <<"data", r, y[3]>> => y[3] = handlers[r].data
        /\ y = <<"out", r, y[3]>> => y[3] = handlers[r].out
        /\ y = <<"read", r, y[3]>> => y[3] = handlers[r].read
    BY <1>1, <2>1, SMTT(60) DEF Spot
  <2>4. Stocked(r, handlers[r]) /\ x[3] # None
    BY <1>9, NoneIsNoBuffer, Zenon DEF Loads, Spot
  <2>5. /\ handlers[r].data = handlers[r].out => handlers[r].data = None
        /\ handlers[r].data = handlers[r].read => handlers[r].data = None
        /\ handlers[r].out = handlers[r].read => handlers[r].out = None
    <3>1. PICK d, o, e : d = <<"data", r>> /\ o = <<"out", r>> /\ e = <<"read", r>>
      BY Zenon
    <3>2. d # o /\ d # e /\ o # e
      BY <3>1, ZenonT(60)
    <3>3. LET h == handlers[r]
          IN  \/ h.data = d /\ h.out = None /\ h.read = None
              \/ h.data = d /\ h.out = o /\ h.read = None
              \/ h.data = d /\ h.out = o /\ h.read = e
              \/ h.data = None /\ h.out \in {None, d, o} /\ h.read = None
      BY <2>4, <3>1 DEF Stocked
    <3> QED
      BY <3>2, <3>3
  <2> QED
    BY <1>2, <2>2, <2>3, <2>4, <2>5, SMTT(60)
<1> QED
  BY <1>1, <1>3, <1>4, <1>5, <1>6, <1>7, <1>8, <1>9, Zenon DEF Spot

\* Buffers are never shared, whatever the goroutines of the connection do: a
\* buffer is in the pool, in one message, or with one goroutine.
THEOREM OneOwner == Spec => []BufferHasOneOwner
<1>1. ConnInv => BufferHasOneOwner
  <2> SUFFICES ASSUME ConnInv, NEW x \in Holdings, NEW y \in Holdings, x[3] = y[3], x[3] # None
               PROVE  x = y
    BY DEF BufferHasOneOwner
  <2>1. CASE x[3] \in pool
    BY <2>1, HoldingIsSpot
  <2>2. CASE x[3] \notin pool
    <3>1. PICK k, r : Spot(x, k, r)
      BY <2>2, HoldingIsSpot
    <3>2. PICK j, q : Spot(y, j, q)
      BY <2>2, HoldingIsSpot, Zenon
    <3>3. j = k /\ q = r
      BY <3>1, <3>2 DEF Spot
    <3> QED
      BY <3>1, <3>2, <3>3, OneSpot
  <2> QED
    BY <2>1, <2>2
<1> QED
  BY <1>1, ConnInvariant, PTL
-----------------------------------------------------------------------------
\* A step that touches none of what Connection speaks about is a stutter of it.
LEMMA Stutter ==
    ASSUME closed' = closed, (pc.proxy = "done") <=> (pc'.proxy = "done"),
           UNCHANGED <<accepted, answered, delivered>>
    PROVE  UNCHANGED Promise!connectionVars
BY DEF Promise!connectionVars

\* A step of the reader, the mux or the environment stutters.
LEMMA ReaderStutters ==
    ASSUME ConnInv, Reader \/ Mux \/ Cancel \/ PeerChanges \/ UNCHANGED vars
    PROVE  UNCHANGED Promise!connectionVars
<1>1. pc \in Places
  BY DEF ConnInv, ConnType
<1>2. CASE Reader
  <2>1. /\ closed' = closed /\ pc'.proxy = pc.proxy
        /\ UNCHANGED <<accepted, answered, delivered>>
    BY <1>1, <1>2, Zenon DEF Reader, ReaderLoop, Receive, ReceiveFails, ReceivePanics, ReaderSend,
       Places, writerVars
  <2> QED
    BY <2>1, Stutter
<1>3. CASE Mux
  <2>1. /\ closed' = closed /\ pc'.proxy = pc.proxy
        /\ UNCHANGED <<accepted, answered, delivered>>
    BY <1>1, <1>3 DEF Mux, MuxStart, MuxWait, MuxEnds, Places, writerVars
  <2> QED
    BY <2>1, Stutter
<1>4. CASE Cancel \/ PeerChanges \/ UNCHANGED vars
  <2>1. /\ closed' = closed /\ pc' = pc
        /\ UNCHANGED <<accepted, answered, delivered>>
    BY <1>4 DEF Cancel, PeerChanges, vars, writerVars
  <2> QED
    BY <2>1, Stutter, Zenon
<1> QED
  BY <1>2, <1>3, <1>4

\* ReceiveRequests accepts a request when it sends it to RunMux, and drains the
\* connection when it ends.
LEMMA ProxyImplements ==
    ASSUME ConnInv, Proxy
    PROVE  [Promise!Next]_(Promise!connectionVars)
<1>1. pc \in Places
  BY DEF ConnInv, ConnType
<1>2. pc.proxy # "done" /\ ~closed
  BY DEF ConnInv, Order, Returned, Proxy, ProxyEnds, ProxyReceive, ProxySend
<1>3. CASE ProxyEnds
  <2>1. /\ closed' = closed /\ pc'.proxy = "done"
        /\ UNCHANGED <<accepted, answered, delivered>>
    BY <1>1, <1>3 DEF ProxyEnds, Places, writerVars
  <2>2. Promise!Drain
    BY <1>2, <2>1 DEF Promise!Drain
  <2> QED
    BY <2>2 DEF Promise!Next
<1>4. CASE ProxyReceive
  <2>1. /\ closed' = closed /\ pc'.proxy = "send"
        /\ UNCHANGED <<accepted, answered, delivered>>
    BY <1>1, <1>4 DEF ProxyReceive, Places, writerVars
  <2> QED
    BY <1>2, <2>1, Stutter
<1>5. CASE ProxySend
  <2>1. PICK r : r = hand.proxy.id
    OBVIOUS
  <2>2. /\ closed' = closed /\ pc'.proxy = "select"
        /\ accepted' = accepted \cup {r}
        /\ UNCHANGED <<answered, delivered>>
    BY <1>1, <1>5, <2>1 DEF ProxySend, Places, writerVars
  <2>3. r \in 1..received /\ r \notin accepted /\ received \in 0..MaxRequests
    BY <1>5, <2>1 DEF ConnInv, ConnType, Front, InProxy, ProxySend
  <2>4. r \in 1..MaxRequests
    BY <2>3, ConnAssumption
  <2>5. Promise!Accept(r)
    BY <1>2, <2>2, <2>3 DEF Promise!Accept
  <2> QED
    BY <2>4, <2>5 DEF Promise!Next
<1> QED
  BY <1>3, <1>4, <1>5 DEF Proxy

\* A handler answers its request when it sends the response.
LEMMA HandlerImplements ==
    ASSUME ConnInv, NEW r \in 1..MaxRequests, Handle(r)
    PROVE  [Promise!Next]_(Promise!connectionVars)
<1>1. CASE Respond(r)
  <2>1. /\ UNCHANGED <<closed, pc, accepted, delivered>>
        /\ answered' = answered \cup {r}
    BY <1>1, ZenonT(60) DEF Respond, handlerUnchanged, writerVars
  <2>2. r \in DOMAIN handlers
    BY <1>1 DEF Respond, At
  <2>3. r \in accepted \ answered
    BY <2>2 DEF ConnInv, Middle
  <2>4. ~closed
    BY <2>2 DEF ConnInv, Order, Returned
  <2>5. Promise!Answer(r)
    BY <2>1, <2>3, <2>4 DEF Promise!Answer
  <2> QED
    BY <2>5, Zenon DEF Promise!Next
<1>2. CASE ~Respond(r)
  <2>1. UNCHANGED <<closed, pc, accepted, answered, delivered>>
    BY <1>2, Zenon DEF Handle, AnswerInPlace, RefuseCall, Hangs, CompoundStart, ReadStart,
       ReadEnds, CompoundEnds, CompoundFails, HandlerPanics, handlerUnchanged, writerVars
  <2> QED
    BY <2>1, Stutter, Zenon
<1> QED
  BY <1>1, <1>2

\* SendReplies delivers what the bufio.Writer holds when that is written.
LEMMA WriterImplements ==
    ASSUME ConnInv, Writer
    PROVE  [Promise!Next]_(Promise!connectionVars)
<1>1. pc \in Places
  BY DEF ConnInv, ConnType
<1>2. ~closed
  BY DEF ConnInv, Order, Returned, Writer, SkipFlush, Flush, FlushFails, ErrorResponse,
     ReplyResponse, SendReply, SendReplyFails, WriterEnds
<1>3. /\ UNCHANGED <<closed, accepted, answered>>
      /\ pc'.proxy = pc.proxy
      /\ delivered' = delivered \/ delivered' = delivered \cup buffered
  BY <1>1 DEF Writer, SkipFlush, Flush, FlushFails, ErrorResponse, ReplyResponse, SendReply,
     SendReplyFails, WriterEnds, Sent, Places, writerVars
<1>4. CASE delivered' = delivered
  BY <1>3, <1>4, Stutter
<1>5. CASE delivered' # delivered
  <2>1. PICK R : R = buffered
    BY Zenon
  <2>2. R # {} /\ delivered' = delivered \cup R
    BY <1>3, <1>5, <2>1
  <2>3. R \in SUBSET answered /\ R \cap delivered = {}
    BY <2>1 DEF ConnInv, Back
  <2>4. Promise!Deliver(R)
    BY <1>2, <1>3, <2>2, <2>3 DEF Promise!Deliver
  <2> QED
    BY <2>3, <2>4 DEF Promise!Next
<1> QED
  BY <1>4, <1>5, Zenon

\* HandleConn closes the connection when every accepted request is answered.
LEMMA CloseImplements ==
    ASSUME ConnInv, CloseConn
    PROVE  [Promise!Next]_(Promise!connectionVars)
<1>1. /\ ~closed /\ closed' = TRUE /\ pc.proxy = "done" /\ pc.mux = "done"
      /\ UNCHANGED <<accepted, answered, delivered>>
  BY DEF CloseConn, Returned, writerVars
<1>2. Ids(Request) = {} /\ DOMAIN handlers = {}
  BY <1>1 DEF ConnInv, Order, Ids
<1>3. accepted = answered
  BY <1>2 DEF ConnInv, Middle
<1>4. Promise!End
  BY <1>1, <1>3 DEF Promise!End
<1> QED
  BY <1>4 DEF Promise!Next

\* The pipeline of goroutines and channels implements the abstract connection:
\* requests are accepted, answered and delivered at most once each, and the
\* connection is closed after the last answer.
THEOREM KeepsPromise == Spec => ImplementsConnection
<1>1. Init => Promise!Init
  BY DEF Init, Promise!Init
<1>2. ConnInv /\ [Next]_vars => [Promise!Next]_(Promise!connectionVars)
  BY ReaderStutters, ProxyImplements, HandlerImplements, WriterImplements, CloseImplements
     DEF Next
<1> QED
  BY <1>1, <1>2, ConnInvariant, PTL DEF Spec, ImplementsConnection, Promise!Spec
=============================================================================
