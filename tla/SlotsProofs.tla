---------------------------- MODULE SlotsProofs ----------------------------
(***************************************************************************)
(* Proofs about Slots, for any number of handlers, requests and            *)
(* transmissions and any modulus of the sequence ids.                      *)
(***************************************************************************)
EXTENDS Slots, TLAPS

\* The client waits for an answer only when it has sent a request.
Numbered == ~done => sent > 0

\* Invocations are for requests that were sent.  Those that have not answered and
\* are not for the last request, or are not alone, are for overlapped requests.
Invocations ==
    /\ \A h \in DOMAIN run : run[h].req <= sent
    /\ \A h \in Serving : run[h].req # sent => run[h].req \in overlapped
    /\ sent \notin overlapped =>
         /\ \A g, h \in Serving : g = h
         /\ \A h \in Serving : run[h].req = sent
    /\ \A h \in DOMAIN run : run[h].req = sent => run[h].cache = cacheThis
    /\ sent > 0 => (sent \in uncached <=> persist /\ ~cacheThis)
    /\ \A n \in overlapped \cup uncached : n <= sent

\* The sequence check guards the last request.
Guarded == sent > 0 /\ sent \notin overlapped \cup uncached

\* The guarded request has not passed the check, or waits for the update.
Fresh ==
    /\ executed[sent] = 0
    /\ \A h \in Serving : run[h].pc \in {"lookup", "check", "update"}

\* It has, and the slot says so.
Settled ==
    /\ SequenceID = SeqOf(sent)
    /\ ContainsData = persist
    /\ executed[sent] = IF \E h \in Serving : run[h].pc = "operations" THEN 0 ELSE 1
    /\ \A h \in Serving : run[h].pc # "update"

\* Earlier requests that the check guarded were executed at most once, later ones
\* not at all.
OthersOnce ==
    \A n \in Requests :
        /\ n < sent /\ n \notin overlapped \cup uncached => executed[n] <= 1
        /\ n > sent => executed[n] = 0

\* The inductive invariant for the number of executions.
OnceInv == TypeOK /\ Numbered /\ Invocations /\ OthersOnce /\ (Guarded => Fresh \/ Settled)

\* The slot is one behind the last request, which was not executed.
Pending ==
    /\ sent > 0 /\ ~done
    /\ SequenceID = SeqOf(sent - 1)
    /\ executed[sent] = 0
    /\ \A h \in Serving : run[h].pc \in {"lookup", "check", "update"}

\* The slot is at the last request, which was executed or is about to be.
Taken ==
    /\ SequenceID = SeqOf(sent)
    /\ sent > 0 => executed[sent] > 0 \/ \E h \in Serving : run[h].pc = "operations"

\* The inductive invariant for the answers.
OrderInv ==
    /\ OnceInv /\ NeverMisordered /\ AnsweredIsExecuted
    /\ overlapped = {} => Pending \/ Taken
-----------------------------------------------------------------------------
\* A quotient and a remainder in range determine n % m.
LEMMA ModUnique ==
    ASSUME NEW m \in Nat, m > 2, NEW n \in Nat, NEW q \in Nat, NEW r \in 0..m - 1,
           n = m * q + r
    PROVE  n % m = r
OBVIOUS

\* The sequence id after that of n is the one of n + 1, also where it wraps.
LEMMA ModSuccessor ==
    ASSUME NEW m \in Nat, m > 2, NEW n \in Nat
    PROVE  (n + 1) % m = IF n % m = m - 1 THEN 0 ELSE (n % m) + 1
<1>1. n % m \in 0..m - 1 /\ n \div m \in Nat
  OBVIOUS
<1>2. n = m * (n \div m) + (n % m)
  OBVIOUS
<1>3. PICK q \in Nat, r \in 0..m - 1 : r = n % m /\ n = m * q + r
  BY <1>1, <1>2
<1>4. CASE r = m - 1
  <2>1. n + 1 = m * (q + 1) + 0 /\ q + 1 \in Nat /\ 0 \in 0..m - 1 /\ n + 1 \in Nat
    BY <1>3, <1>4
  <2>2. (n + 1) % m = 0
    BY <2>1, ModUnique, Zenon
  <2> QED
    BY <1>3, <1>4, <2>2
<1>5. CASE r # m - 1
  <2>1. n + 1 = m * q + (r + 1) /\ r + 1 \in 0..m - 1 /\ n + 1 \in Nat
    BY <1>3, <1>5
  <2>2. (n + 1) % m = r + 1
    BY <1>3, <2>1, ModUnique, Zenon
  <2> QED
    BY <1>3, <1>5, <2>2
<1> QED
  BY <1>4, <1>5

\* The sequence ids of a request and of the next one differ, and the second is
\* what the check expects after the first.
LEMMA NextSeq ==
    ASSUME NEW n \in Nat
    PROVE  /\ SeqOf(n) \in 0..SeqMod - 1
           /\ SeqOf(n + 1) # SeqOf(n)
           /\ (SeqOf(n) + 1) % SeqMod = SeqOf(n + 1)
<1>1. SeqMod \in Nat /\ SeqMod > 2
  BY SlotsAssumption
<1>2. PICK r \in 0..SeqMod - 1 : r = n % SeqMod
  BY <1>1
<1>3. (n + 1) % SeqMod = IF r = SeqMod - 1 THEN 0 ELSE r + 1
  BY <1>1, <1>2, ModSuccessor, Zenon
<1>4. r % SeqMod = r
  <2>1. r = SeqMod * 0 + r /\ r \in Nat
    BY <1>1, <1>2
  <2> QED
    BY <1>1, <2>1, ModUnique
<1>5. (r + 1) % SeqMod = IF r = SeqMod - 1 THEN 0 ELSE r + 1
  <2>1. r \in Nat
    BY <1>1
  <2>2. (r + 1) % SeqMod = IF r % SeqMod = SeqMod - 1 THEN 0 ELSE (r % SeqMod) + 1
    BY <1>1, <2>1, ModSuccessor, Zenon
  <2> QED
    BY <1>4, <2>2
<1> QED
  BY <1>1, <1>2, <1>3, <1>5 DEF SeqOf
-----------------------------------------------------------------------------
\* Goto changes one invocation of RunSequence, and there only pc and out.
LEMMA GotoChanges ==
    ASSUME TypeOK, NEW h \in DOMAIN run, NEW pc, NEW out, Goto(h, pc, out)
    PROVE  /\ DOMAIN run' = DOMAIN run
           /\ run'[h] = [req |-> run[h].req, cache |-> run[h].cache, pc |-> pc, out |-> out]
           /\ \A g \in DOMAIN run : g # h => run'[g] = run[g]
BY DEF Goto, SetRun

\* The type of run after each of its updates.
RunType ==
    /\ DOMAIN run \subseteq Handlers
    /\ run \in [DOMAIN run -> [req : Requests, cache : BOOLEAN, pc : PCs, out : Seq(Requests)]]

\* A step of RunSequence keeps the type of run.
LEMMA GotoTyped ==
    ASSUME TypeOK, NEW h \in DOMAIN run, NEW pc \in PCs, NEW out \in Seq(Requests),
           Goto(h, pc, out)
    PROVE  RunType'
<1>1. run[h].req \in Requests /\ run[h].cache \in BOOLEAN
  BY DEF TypeOK
<1> QED
  BY <1>1 DEF Goto, SetRun, RunType, TypeOK

\* So does a request that arrives.
LEMMA ArriveTyped ==
    ASSUME TypeOK, NEW h \in Handlers, NEW n \in Requests, NEW c \in BOOLEAN, Arrive(h, n, c)
    PROVE  RunType' /\ overlapped' \subseteq Requests
<1>1. RunType'
  BY DEF Arrive, SetRun, RunType, TypeOK, PCs
<1>2. overlapped' \subseteq Requests
  BY DEF Arrive, Serving, TypeOK
<1> QED
  BY <1>1, <1>2

\* So does an invocation that ends.
LEMMA LeaveTyped ==
    ASSUME TypeOK, NEW h, Leave(h)
    PROVE  RunType'
BY DEF Leave, RunType, TypeOK

\* The check leads to an answer or to the update.
LEMMA CheckGoes ==
    ASSUME NEW h, CheckSlot(h)
    PROVE  \/ Same(h) /\ ContainsData /\ Goto(h, "out", Buf)
           \/ Same(h) /\ ~ContainsData /\ ~persist /\ Goto(h, "retry_uncached", <<>>)
           \/ /\ ~Same(h) /\ (SequenceID + 1) % SeqMod # SeqOf(run[h].req)
              /\ Goto(h, "misordered", <<>>)
           \/ /\ Same(h) => ~ContainsData /\ persist
              /\ ~Same(h) => (SequenceID + 1) % SeqMod = SeqOf(run[h].req)
              /\ Goto(h, "update", <<>>)
<1> DEFINE A == Same(h) /\ ContainsData
           B == Same(h) /\ ~ContainsData /\ ~persist
           C == ~Same(h) /\ (SequenceID + 1) % SeqMod # SeqOf(run[h].req)
<1>1. CASE A
  BY <1>1 DEF CheckSlot
<1>2. CASE B
  BY <1>2 DEF CheckSlot
<1>3. CASE C
  BY <1>3 DEF CheckSlot
<1>4. CASE ~A /\ ~B /\ ~C
  BY <1>4 DEF CheckSlot
<1> QED
  BY <1>1, <1>2, <1>3, <1>4

\* Every step keeps the types, whatever the client does.
LEMMA TypeStep ==
    ASSUME TypeOK, Numbered, [Next]_vars
    PROVE  TypeOK' /\ Numbered'
<1>n. Numbered'
  <2>1. UNCHANGED <<sent, done>> => Numbered'
    BY DEF Numbered
  <2>2. ASSUME NEW h \in Handlers, RunSequence(h)
        PROVE  UNCHANGED <<sent, done>>
    BY <2>2 DEF RunSequence, GetSlot, Check, Update, Execute, ExecuteFails, Save, clientVars
  <2>3. ASSUME NEW h \in Handlers, Repeat(h) \/ Lose(h)
        PROVE  UNCHANGED <<sent, done>>
    BY <2>3 DEF Repeat, Lose, clientVars
  <2>4. ASSUME NEW h \in Handlers, Deliver(h)
        PROVE  Numbered'
    BY <2>4, Zenon DEF Deliver, Numbered
  <2>5. ASSUME NEW h \in Handlers, NEW c \in BOOLEAN, Send(h, c)
        PROVE  Numbered'
    BY <2>5 DEF Send, Numbered, TypeOK
  <2>6. CASE RemoveSession \/ UNCHANGED vars
    BY <2>1, <2>6 DEF RemoveSession, vars, clientVars
  <2> QED
    BY <2>1, <2>2, <2>3, <2>4, <2>5, <2>6 DEF Next
<1> DEFINE Rest ==
      /\ persist' \in BOOLEAN /\ SequenceID' \in 0..SeqMod - 1 /\ ContainsData' \in BOOLEAN
      /\ Buf' \in Seq(Requests) /\ alive' \in BOOLEAN
      /\ sent' \in 0..MaxRequests /\ tries' \in 0..MaxTries
      /\ cacheThis' \in BOOLEAN /\ done' \in BOOLEAN
      /\ executed' \in [Requests -> Nat]
      /\ overlapped' \subseteq Requests /\ uncached' \subseteq Requests
<1>g. Rest /\ RunType' => TypeOK'
  BY DEF TypeOK, RunType
<1>e. <<>> \in Seq(Requests)
  OBVIOUS
<1>u. UNCHANGED <<slotVars, clientVars, executed>> => Rest
  BY DEF slotVars, clientVars, TypeOK
<1>1. ASSUME NEW h \in Handlers, GetSlot(h)
      PROVE  TypeOK'
  <2>1. PICK pc \in PCs : Goto(h, pc, <<>>)
    BY <1>1 DEF GetSlot, PCs
  <2> QED
    BY <1>1, <1>e, <1>g, <1>u, <2>1, GotoTyped, Zenon DEF GetSlot, At
<1>2. ASSUME NEW h \in Handlers, Check(h)
      PROVE  TypeOK'
  <2>1. PICK b \in Seq(Requests) : b = Buf
    BY DEF TypeOK
  <2>2. \/ Goto(h, "out", b) \/ Goto(h, "retry_uncached", <<>>)
        \/ Goto(h, "misordered", <<>>) \/ Goto(h, "update", <<>>)
    BY <1>2, <2>1, CheckGoes DEF Check, Goto
  <2>3. {"out", "retry_uncached", "misordered", "update"} \subseteq PCs
    BY DEF PCs
  <2>4. RunType'
    BY <1>2, <1>e, <2>2, <2>3, GotoTyped, Zenon DEF Check, At
  <2> QED
    BY <1>2, <1>g, <1>u, <2>4 DEF Check
<1>3. ASSUME NEW h \in Handlers, Update(h)
      PROVE  TypeOK'
  <2>1. RunType'
    BY <1>3, <1>e, GotoTyped, Zenon DEF Update, At, PCs
  <2>2. run[h].req \in Nat
    BY <1>3 DEF Update, At, TypeOK, Requests
  <2>3. SequenceID' \in 0..SeqMod - 1
    BY <1>3, <2>2, NextSeq DEF Update
  <2>4. ContainsData' \in BOOLEAN
    BY <1>3 DEF Update
  <2> QED
    BY <1>3, <1>g, <2>1, <2>3, <2>4 DEF Update, clientVars, TypeOK
<1>4. ASSUME NEW h \in Handlers, Execute(h) \/ ExecuteFails(h)
      PROVE  TypeOK'
  <2>1. h \in DOMAIN run
    BY <1>4 DEF Execute, ExecuteFails, At
  <2>2. PICK n \in Requests : n = run[h].req
    BY <2>1 DEF TypeOK
  <2>3. Goto(h, "save", <<n>>) \/ Leave(h)
    BY <1>4, <2>2 DEF Execute, ExecuteFails, Goto
  <2>4. RunType'
    <3>1. <<n>> \in Seq(Requests) /\ "save" \in PCs
      BY DEF PCs
    <3> QED
      BY <2>1, <2>3, <3>1, GotoTyped, LeaveTyped, Zenon
  <2>5. executed' \in [Requests -> Nat]
    <3>1. executed' = [executed EXCEPT ![n] = @ + 1]
      BY <1>4, <2>2 DEF Execute, ExecuteFails
    <3> QED
      BY <3>1 DEF TypeOK
  <2> QED
    BY <1>4, <1>g, <2>4, <2>5 DEF Execute, ExecuteFails, slotVars, clientVars, TypeOK
<1>5. ASSUME NEW h \in Handlers, Save(h)
      PROVE  TypeOK'
  <2>1. h \in DOMAIN run
    BY <1>5 DEF Save, At
  <2>2. PICK o \in Seq(Requests) : o = run[h].out
    BY <2>1 DEF TypeOK
  <2>3. Goto(h, "out", o)
    BY <1>5, <2>2 DEF Save, Goto
  <2>4. RunType'
    BY <2>1, <2>3, GotoTyped DEF PCs
  <2>5. Buf' \in Seq(Requests)
    BY <1>5, <2>2 DEF Save, TypeOK
  <2> QED
    BY <1>5, <1>g, <2>4, <2>5 DEF Save, clientVars, TypeOK
<1>6. ASSUME NEW h \in Handlers, Repeat(h)
      PROVE  TypeOK'
  <2>1. PICK n \in Requests, c \in BOOLEAN : n = sent /\ c = cacheThis
    BY <1>6, SlotsAssumption DEF Repeat, Numbered, TypeOK, Requests
  <2>2. Arrive(h, n, c)
    BY <1>6, <2>1 DEF Repeat, Arrive, SetRun
  <2>3. RunType'
    BY <2>2, ArriveTyped
  <2>o. overlapped' \subseteq Requests
    BY <2>2, ArriveTyped
  <2>4. tries' \in 0..MaxTries
    BY <1>6, SlotsAssumption DEF Repeat, TypeOK
  <2> QED
    BY <1>6, <1>g, <2>3, <2>o, <2>4 DEF Repeat, slotVars, TypeOK
<1>7. ASSUME NEW h \in Handlers, Deliver(h) \/ Lose(h)
      PROVE  TypeOK'
  <2>1. RunType'
    BY <1>7, LeaveTyped DEF Deliver, Lose
  <2>2. done' \in BOOLEAN
    BY <1>7, Zenon DEF Deliver, Lose, clientVars, TypeOK
  <2> QED
    BY <1>7, <1>g, <2>1, <2>2 DEF Deliver, Lose, slotVars, clientVars, TypeOK
<1>8. ASSUME NEW h \in Handlers, NEW c \in BOOLEAN, Send(h, c)
      PROVE  TypeOK'
  <2>1. PICK n \in Requests : n = sent + 1
    BY <1>8, SlotsAssumption DEF Send, TypeOK, Requests
  <2>2. Arrive(h, n, c)
    BY <1>8, <2>1 DEF Send, Arrive, SetRun
  <2>3. RunType'
    BY <2>2, ArriveTyped
  <2>o. overlapped' \subseteq Requests /\ uncached' \subseteq Requests
    BY <1>8, <2>1, <2>2, ArriveTyped DEF Send, TypeOK
  <2>4. sent' \in 0..MaxRequests /\ tries' \in 0..MaxTries
    BY <1>8, <2>1, SlotsAssumption, SMTT(60) DEF Send, TypeOK, Requests
  <2> QED
    BY <1>8, <1>g, <2>3, <2>o, <2>4, Zenon DEF Send, slotVars, TypeOK
<1>9. CASE RemoveSession
  BY <1>9, <1>e, <1>n, Zenon DEF RemoveSession, clientVars, TypeOK
<1>10. CASE UNCHANGED vars
  BY <1>10, <1>n DEF vars, slotVars, clientVars, TypeOK
<1> QED
  BY <1>n, <1>1, <1>2, <1>3, <1>4, <1>5, <1>6, <1>7, <1>8, <1>9, <1>10 DEF Next, RunSequence
-----------------------------------------------------------------------------
\* An invocation h goes on, answers or ends; nothing else happens to run.
Advanced(h) ==
    /\ DOMAIN run' \subseteq DOMAIN run
    /\ \A g \in DOMAIN run' : run'[g].req = run[g].req /\ run'[g].cache = run[g].cache
    /\ \A g \in DOMAIN run \ {h} : g \in DOMAIN run' /\ run'[g] = run[g]
    /\ Serving' \subseteq Serving /\ Serving \ {h} \subseteq Serving'

\* Goto advances an invocation, which goes on or answers.
LEMMA GotoAdvances ==
    ASSUME TypeOK, NEW h \in Serving, NEW pc, NEW out, Goto(h, pc, out)
    PROVE  /\ Advanced(h) /\ h \in DOMAIN run' /\ run'[h].pc = pc
           /\ h \in Serving' <=> pc \notin Answers
<1>1. h \in DOMAIN run /\ run[h].pc \notin Answers
  BY DEF Serving
<1>2. /\ DOMAIN run' = DOMAIN run
      /\ run'[h] = [req |-> run[h].req, cache |-> run[h].cache, pc |-> pc, out |-> out]
      /\ \A g \in DOMAIN run : g # h => run'[g] = run[g]
  BY <1>1, GotoChanges, Zenon
<1>3. run'[h].pc = pc /\ run'[h].req = run[h].req /\ run'[h].cache = run[h].cache
  BY <1>2
<1> QED
  BY <1>1, <1>2, <1>3, Zenon DEF Advanced, Serving

\* So does Leave, and the invocation ends.
LEMMA LeaveAdvances ==
    ASSUME NEW h \in DOMAIN run, Leave(h)
    PROVE  Advanced(h) /\ h \notin DOMAIN run' /\ h \notin Serving'
<1>1. DOMAIN run' = DOMAIN run \ {h} /\ \A g \in DOMAIN run' : run'[g] = run[g]
  BY DEF Leave
<1> QED
  BY <1>1, Zenon DEF Advanced, Serving

\* A request that arrives is served, and marked if others are.
LEMMA ArriveServes ==
    ASSUME NEW h, NEW n, NEW c, Arrive(h, n, c)
    PROVE  /\ h \notin DOMAIN run /\ DOMAIN run' = DOMAIN run \cup {h}
           /\ run'[h].req = n /\ run'[h].cache = c /\ run'[h].pc = "lookup"
           /\ \A g \in DOMAIN run : run'[g] = run[g]
           /\ Serving' = Serving \cup {h}
           /\ overlapped \subseteq overlapped'
           /\ Serving = {} => overlapped' = overlapped
           /\ Serving # {} => n \in overlapped' /\ \A g \in Serving : run[g].req \in overlapped'
           /\ overlapped' \subseteq overlapped \cup {n} \cup {run[g].req : g \in DOMAIN run}
<1>1. /\ h \notin DOMAIN run /\ DOMAIN run' = DOMAIN run \cup {h}
      /\ run'[h] = [req |-> n, cache |-> c, pc |-> "lookup", out |-> <<>>]
      /\ \A g \in DOMAIN run : run'[g] = run[g]
  BY DEF Arrive, SetRun
<1>2. run'[h].req = n /\ run'[h].cache = c /\ run'[h].pc = "lookup" /\ "lookup" \notin Answers
  BY <1>1 DEF Answers
<1>3. Serving' = Serving \cup {h}
  BY <1>1, <1>2, Zenon DEF Serving
<1>4. /\ overlapped \subseteq overlapped'
      /\ Serving = {} => overlapped' = overlapped
      /\ Serving # {} => n \in overlapped' /\ \A g \in Serving : run[g].req \in overlapped'
      /\ overlapped' \subseteq overlapped \cup {n} \cup {run[g].req : g \in DOMAIN run}
  BY DEF Arrive, Serving
<1> QED
  BY <1>1, <1>2, <1>3, <1>4, Zenon

\* Every step of RunSequence advances an invocation that has not answered, and
\* leaves the client alone.
LEMMA RunSequenceAdvances ==
    ASSUME TypeOK, NEW h, RunSequence(h)
    PROVE  h \in Serving /\ Advanced(h) /\ UNCHANGED <<persist, clientVars>>
<1>1. h \in Serving
  BY DEF RunSequence, GetSlot, Check, Update, Execute, ExecuteFails, Save, At, Serving, Answers
<1>2. UNCHANGED <<persist, clientVars>>
  BY DEF RunSequence, GetSlot, Check, Update, Execute, ExecuteFails, Save, slotVars
<1>3. CASE ExecuteFails(h)
  BY <1>1, <1>2, <1>3, LeaveAdvances, Zenon DEF ExecuteFails, Serving
<1>4. CASE ~ExecuteFails(h)
  <2>1. PICK pc, out : Goto(h, pc, out)
    BY <1>4, CheckGoes, Zenon DEF RunSequence, GetSlot, Check, Update, Execute, Save
  <2> QED
    BY <1>1, <1>2, <2>1, GotoAdvances, Zenon
<1> QED
  BY <1>3, <1>4

\* Invocations is kept where the client does nothing.
LEMMA InvocationsAdvance ==
    ASSUME Invocations, NEW h, Advanced(h),
           UNCHANGED <<persist, sent, cacheThis, overlapped, uncached>>
    PROVE  Invocations'
<1>1. /\ \A g \in DOMAIN run' : g \in DOMAIN run /\ run'[g].req = run[g].req
                                /\ run'[g].cache = run[g].cache
      /\ \A g \in Serving' : g \in Serving /\ run'[g].req = run[g].req
  BY Zenon DEF Advanced, Serving
<1> QED
  BY <1>1, Zenon DEF Invocations

\* Invocations is kept by every step.
LEMMA InvocationsStep ==
    ASSUME TypeOK, Numbered, Invocations, [Next]_vars
    PROVE  Invocations'
<1>s. sent \in Nat /\ \A n \in Requests : n \in Nat
  BY DEF TypeOK, Requests
<1>1. ASSUME NEW h \in Handlers, RunSequence(h)
      PROVE  Invocations'
  BY <1>1, RunSequenceAdvances, InvocationsAdvance, Zenon DEF clientVars
<1>2. ASSUME NEW h \in Handlers, Deliver(h) \/ Lose(h)
      PROVE  Invocations'
  <2>1. /\ h \in DOMAIN run /\ Leave(h)
        /\ UNCHANGED <<persist, sent, cacheThis, overlapped, uncached>>
    BY <1>2, Zenon DEF Deliver, Lose, slotVars, clientVars
  <2> QED
    BY <2>1, LeaveAdvances, InvocationsAdvance, Zenon
<1>3. ASSUME NEW h \in Handlers, Repeat(h)
      PROVE  Invocations'
  <2>1. PICK n, c : n = sent /\ c = cacheThis
    OBVIOUS
  <2>2. Arrive(h, n, c) /\ UNCHANGED <<persist, sent, cacheThis, uncached>>
    BY <1>3, <2>1 DEF Repeat, Arrive, SetRun, slotVars
  <2>3. /\ h \notin DOMAIN run /\ DOMAIN run' = DOMAIN run \cup {h}
        /\ run'[h].req = sent /\ run'[h].cache = cacheThis
        /\ \A g \in DOMAIN run : run'[g] = run[g]
        /\ Serving' = Serving \cup {h}
        /\ overlapped \subseteq overlapped'
        /\ Serving = {} => overlapped' = overlapped
        /\ Serving # {} => sent \in overlapped' /\ \A g \in Serving : run[g].req \in overlapped'
        /\ overlapped' \subseteq overlapped \cup {sent} \cup {run[g].req : g \in DOMAIN run}
    BY <2>1, <2>2, ArriveServes, Zenon
  <2>4. sent <= sent
    BY <1>s
  <2>5. \A m \in (overlapped \cup uncached)' : m <= sent'
    BY <2>2, <2>3, <2>4 DEF Invocations
  <2>6. \A g \in Serving : g \in DOMAIN run
    BY DEF Serving
  <2>7. \A g \in DOMAIN run' : run'[g].req <= sent' /\ (run'[g].req = sent' => run'[g].cache = cacheThis')
    BY <2>2, <2>3, <2>4, Zenon DEF Invocations
  <2>8. \A g \in Serving' : run'[g].req # sent' => run'[g].req \in overlapped'
    BY <2>2, <2>3, <2>6, Zenon DEF Invocations
  <2>9. sent' \notin overlapped' =>
          /\ \A f, g \in Serving' : f = g
          /\ \A g \in Serving' : run'[g].req = sent'
    BY <2>2, <2>3, Zenon
  <2>10. sent' > 0 => (sent' \in uncached' <=> persist' /\ ~cacheThis')
    BY <2>2, Zenon DEF Invocations
  <2> QED
    BY <2>5, <2>7, <2>8, <2>9, <2>10, Zenon DEF Invocations
<1>4. ASSUME NEW h \in Handlers, NEW c \in BOOLEAN, Send(h, c)
      PROVE  Invocations'
  <2>1. PICK n \in Nat : n = sent + 1
    BY <1>s
  <2>2. /\ Arrive(h, n, c) /\ sent' = n /\ cacheThis' = c /\ persist' = persist
        /\ uncached' = IF persist /\ ~c THEN uncached \cup {n} ELSE uncached
    BY <1>4, <2>1 DEF Send, Arrive, SetRun, slotVars
  <2>3. /\ h \notin DOMAIN run /\ DOMAIN run' = DOMAIN run \cup {h}
        /\ run'[h].req = n /\ run'[h].cache = c
        /\ \A g \in DOMAIN run : run'[g] = run[g]
        /\ Serving' = Serving \cup {h}
        /\ overlapped \subseteq overlapped'
        /\ Serving # {} => n \in overlapped' /\ \A g \in Serving : run[g].req \in overlapped'
        /\ overlapped' \subseteq overlapped \cup {n} \cup {run[g].req : g \in DOMAIN run}
    BY <2>2, ArriveServes, Zenon
  <2>4. \A m \in Requests : m <= sent => m <= n /\ m # n
    BY <1>s, <2>1
  <2>5. \A g \in DOMAIN run : run[g].req \in Requests /\ run[g].req <= n /\ run[g].req # n
    BY <2>4 DEF TypeOK, Invocations
  <2>6. /\ \A m \in overlapped \cup uncached : m <= n /\ m # n
        /\ n <= n
    BY <2>1, <2>4 DEF TypeOK, Invocations
  <2>7. \A m \in (overlapped \cup uncached)' : m <= sent'
    BY <2>2, <2>3, <2>5, <2>6
  <2>8. \A g \in Serving : g \in DOMAIN run
    BY DEF Serving
  <2>9. \A g \in DOMAIN run' : run'[g].req <= sent' /\ (run'[g].req = sent' => run'[g].cache = cacheThis')
    BY <2>2, <2>3, <2>5, <2>6, Zenon
  <2>10. \A g \in Serving' : run'[g].req # sent' => run'[g].req \in overlapped'
    BY <2>2, <2>3, <2>8, Zenon
  <2>11. sent' \notin overlapped' =>
          /\ \A f, g \in Serving' : f = g
          /\ \A g \in Serving' : run'[g].req = sent'
    BY <2>2, <2>3, Zenon
  <2>12. sent' \in uncached' <=> persist' /\ ~cacheThis'
    BY <2>2, <2>6, Zenon
  <2> QED
    BY <2>7, <2>9, <2>10, <2>11, <2>12, Zenon DEF Invocations
<1>5. CASE RemoveSession \/ UNCHANGED vars
  <2>1. UNCHANGED <<persist, sent, cacheThis, overlapped, uncached, run>>
    BY <1>5 DEF RemoveSession, vars, slotVars, clientVars
  <2> QED
    BY <2>1, Zenon DEF Invocations, Serving
<1> QED
  BY <1>1, <1>2, <1>3, <1>4, <1>5, Zenon DEF Next

\* While the last request has not overlapped, an invocation that has not answered
\* is the only one, and it is for that request.
LEMMA Alone ==
    ASSUME OnceInv, NEW h \in Serving, sent \notin overlapped
    PROVE  /\ Serving = {h} /\ h \in DOMAIN run
           /\ run[h].req = sent /\ run[h].cache = cacheThis /\ sent > 0 /\ sent \in Requests
<1>1. Serving = {h} /\ h \in DOMAIN run /\ run[h].req = sent
  BY Zenon DEF OnceInv, Invocations, Serving
<1>2. sent \in Requests /\ run[h].cache = cacheThis
  BY <1>1, Zenon DEF OnceInv, TypeOK, Invocations
<1>3. sent > 0
  BY <1>2 DEF Requests
<1> QED
  BY <1>1, <1>2, <1>3

\* Every step keeps the invariant for the number of executions.
LEMMA OnceStep ==
    ASSUME OnceInv, [Next]_vars
    PROVE  OnceInv'
<1>t. TypeOK' /\ Numbered' /\ Invocations'
  BY TypeStep, InvocationsStep DEF OnceInv
<1>s. sent \in Nat /\ \A n \in Requests : n \in Nat
  BY DEF OnceInv, TypeOK, Requests
<1>g. OthersOnce' /\ (Guarded => Fresh \/ Settled)' => OnceInv'
  BY <1>t DEF OnceInv
<1>o. UNCHANGED <<sent, overlapped, uncached, executed>> => OthersOnce'
  BY DEF OnceInv, OthersOnce
<1>1. ASSUME NEW h \in Handlers, GetSlot(h) \/ Check(h)
      PROVE  OnceInv'
  <2>1. /\ h \in Serving /\ Advanced(h) /\ run[h].pc \in {"lookup", "check"}
        /\ UNCHANGED <<slotVars, clientVars, executed>>
    BY <1>1, RunSequenceAdvances DEF OnceInv, RunSequence, GetSlot, Check, At
  <2>2. ASSUME Guarded'
        PROVE  (Fresh \/ Settled)'
    <3>1. Guarded /\ sent \notin overlapped /\ (Fresh \/ Settled)
      BY <2>1, <2>2 DEF OnceInv, Guarded, clientVars
    <3>2. Serving = {h} /\ run[h].req = sent
      BY <2>1, <3>1, Alone, Zenon
    <3>3. Serving' \subseteq {h}
      BY <2>1, <3>2, Zenon DEF Advanced
    <3>4. h \in Serving' => run'[h].pc \in {"check", "update"}
      <4>1. PICK pc, out : /\ Goto(h, pc, out)
                           /\ pc \in {"check", "update"} \cup Answers
        BY <1>1, CheckGoes DEF GetSlot, Check, Answers
      <4>2. run'[h].pc = pc /\ (h \in Serving' <=> pc \notin Answers)
        BY <2>1, <4>1, GotoAdvances, Zenon DEF OnceInv
      <4> QED
        BY <4>1, <4>2
    <3>5. CASE Fresh
      BY <2>1, <3>3, <3>4, <3>5 DEF Fresh, clientVars
    <3>6. CASE Settled
      <4>1. executed[sent] = 1
        BY <2>1, <3>2, <3>6 DEF Settled
      <4>2. h \in Serving' => run'[h].pc = "check"
        <5>1. CASE GetSlot(h)
          BY <2>1, <5>1, GotoAdvances, Zenon DEF GetSlot, OnceInv, Answers
        <5>2. CASE Check(h)
          <6>1. Same(h) /\ ContainsData = persist
            BY <3>2, <3>6 DEF Same, Settled
          <6>2. PICK pc, out : pc \in {"out", "retry_uncached"} /\ Goto(h, pc, out)
            BY <5>2, <6>1, CheckGoes DEF Check
          <6> QED
            BY <2>1, <6>2, GotoAdvances DEF OnceInv, Answers
        <5> QED
          BY <1>1, <5>1, <5>2
      <4> QED
        BY <2>1, <3>3, <3>6, <4>1, <4>2 DEF Settled, slotVars, clientVars
    <3> QED
      BY <3>1, <3>5, <3>6
  <2> QED
    BY <1>g, <1>o, <2>1, <2>2, Zenon DEF clientVars
<1>2. ASSUME NEW h \in Handlers, Update(h)
      PROVE  OnceInv'
  <2>1. /\ h \in Serving /\ Advanced(h) /\ run[h].pc = "update" /\ Goto(h, "operations", <<>>)
        /\ SequenceID' = SeqOf(run[h].req) /\ ContainsData' = (run[h].cache /\ persist)
        /\ UNCHANGED <<persist, clientVars, executed>>
    BY <1>2, RunSequenceAdvances DEF OnceInv, RunSequence, Update, At
  <2>2. ASSUME Guarded'
        PROVE  Settled'
    <3>1. Guarded /\ sent \notin overlapped /\ sent \notin uncached /\ (Fresh \/ Settled)
      BY <2>1, <2>2 DEF OnceInv, Guarded, clientVars
    <3>2. Serving = {h} /\ run[h].req = sent /\ run[h].cache = cacheThis /\ sent > 0
      BY <2>1, <3>1, Alone, Zenon
    <3>3. executed[sent] = 0
      BY <2>1, <3>1 DEF Fresh, Settled
    <3>4. run'[h].pc = "operations" /\ h \in Serving' /\ Serving' = {h}
      <4>1. PICK pc, out : pc = "operations" /\ out = <<>>
        OBVIOUS
      <4>2. run'[h].pc = pc /\ (h \in Serving' <=> pc \notin Answers)
        BY <2>1, <4>1, GotoAdvances DEF OnceInv
      <4> QED
        BY <2>1, <3>2, <4>1, <4>2 DEF Advanced, Answers
    <3>5. ContainsData' = persist'
      BY <2>1, <3>1, <3>2 DEF OnceInv, Invocations, TypeOK
    <3> QED
      BY <2>1, <3>2, <3>3, <3>4, <3>5 DEF Settled, clientVars
  <2> QED
    BY <1>g, <1>o, <2>1, <2>2, Zenon DEF clientVars
<1>3. ASSUME NEW h \in Handlers, Execute(h) \/ ExecuteFails(h)
      PROVE  OnceInv'
  <2>1. /\ h \in Serving /\ h \in DOMAIN run /\ Advanced(h) /\ run[h].pc = "operations"
        /\ executed' = [executed EXCEPT ![run[h].req] = @ + 1]
        /\ UNCHANGED <<slotVars, clientVars>>
    BY <1>3, RunSequenceAdvances DEF OnceInv, RunSequence, Execute, ExecuteFails, At
  <2>2. PICK n \in Requests : n = run[h].req /\ n <= sent /\ (n # sent => n \in overlapped)
    BY <2>1 DEF OnceInv, TypeOK, Invocations
  <2>3. executed'[n] = executed[n] + 1 /\ \A m \in Requests : m # n => executed'[m] = executed[m]
    BY <2>1, <2>2 DEF OnceInv, TypeOK
  <2>4. OthersOnce'
    BY <1>s, <2>1, <2>2, <2>3 DEF OnceInv, OthersOnce, clientVars
  <2>5. ASSUME Guarded'
        PROVE  Settled'
    <3>1. Guarded /\ sent \notin overlapped /\ (Fresh \/ Settled)
      BY <2>1, <2>5 DEF OnceInv, Guarded, clientVars
    <3>2. Serving = {h} /\ run[h].req = sent /\ sent \in Requests
      BY <2>1, <3>1, Alone, Zenon
    <3>3. Settled /\ executed[sent] = 0
      BY <2>1, <3>1 DEF Fresh, Settled
    <3>4. h \in Serving' => run'[h].pc = "save"
      <4>1. PICK pc, out : pc = "save" /\ (Goto(h, pc, out) \/ Leave(h))
        BY <1>3 DEF Execute, ExecuteFails, Goto
      <4> QED
        BY <2>1, <4>1, GotoAdvances, LeaveAdvances, Zenon DEF OnceInv
    <3>5. Serving' \subseteq {h}
      BY <2>1, <3>2, Zenon DEF Advanced
    <3> QED
      BY <2>1, <2>2, <2>3, <3>2, <3>3, <3>4, <3>5 DEF Settled, slotVars, clientVars
  <2> QED
    BY <1>g, <2>4, <2>5, Zenon
<1>4. ASSUME NEW h \in Handlers, Save(h)
      PROVE  OnceInv'
  <2>1. /\ h \in Serving /\ Advanced(h) /\ run[h].pc = "save"
        /\ UNCHANGED <<persist, SequenceID, ContainsData, clientVars, executed>>
    BY <1>4, RunSequenceAdvances DEF OnceInv, RunSequence, Save, At
  <2>2. ASSUME Guarded'
        PROVE  Settled'
    <3>1. Guarded /\ sent \notin overlapped /\ (Fresh \/ Settled)
      BY <2>1, <2>2 DEF OnceInv, Guarded, clientVars
    <3>2. Serving = {h}
      BY <2>1, <3>1, Alone, Zenon
    <3>3. Settled /\ executed[sent] = 1
      BY <2>1, <3>1, <3>2 DEF Fresh, Settled
    <3>4. h \notin Serving'
      <4>1. PICK pc, out : pc = "out" /\ Goto(h, pc, out)
        BY <1>4 DEF Save, Goto
      <4> QED
        BY <2>1, <4>1, GotoAdvances DEF OnceInv, Answers
    <3>5. Serving' = {}
      BY <2>1, <3>2, <3>4, Zenon DEF Advanced
    <3> QED
      BY <2>1, <3>3, <3>5 DEF Settled, clientVars
  <2> QED
    BY <1>g, <1>o, <2>1, <2>2, Zenon DEF clientVars
<1>5. ASSUME NEW h \in Handlers, Repeat(h)
      PROVE  OnceInv'
  <2>1. PICK n, c : n = sent /\ c = cacheThis
    OBVIOUS
  <2>2. Arrive(h, n, c) /\ UNCHANGED <<slotVars, sent, uncached, executed>>
    BY <1>5, <2>1 DEF Repeat, Arrive, SetRun
  <2>3. /\ Serving' = Serving \cup {h} /\ run'[h].pc = "lookup"
        /\ overlapped \subseteq overlapped'
        /\ Serving # {} => sent \in overlapped'
    BY <2>1, <2>2, ArriveServes, Zenon
  <2>4. OthersOnce'
    BY <2>2, <2>3 DEF OnceInv, OthersOnce
  <2>5. ASSUME Guarded'
        PROVE  (Fresh \/ Settled)'
    <3>1. Guarded /\ (Fresh \/ Settled) /\ Serving = {}
      BY <2>2, <2>3, <2>5 DEF OnceInv, Guarded
    <3> QED
      BY <2>2, <2>3, <3>1 DEF Fresh, Settled, slotVars
  <2> QED
    BY <1>g, <2>4, <2>5, Zenon
<1>6. ASSUME NEW h \in Handlers, Deliver(h) \/ Lose(h)
      PROVE  OnceInv'
  <2>1. /\ h \in DOMAIN run /\ run[h].pc \in Answers /\ Leave(h)
        /\ UNCHANGED <<slotVars, sent, overlapped, uncached, executed>>
    BY <1>6, Zenon DEF Deliver, Lose, clientVars
  <2>2. Advanced(h) /\ h \notin Serving
    BY <2>1, LeaveAdvances, Zenon DEF Serving
  <2>3. Serving' = Serving /\ \A g \in Serving : run'[g] = run[g]
    BY <2>2, Zenon DEF Advanced, Serving
  <2>4. (Guarded => Fresh \/ Settled)'
    BY <2>1, <2>3 DEF OnceInv, Guarded, Fresh, Settled, slotVars
  <2> QED
    BY <1>g, <1>o, <2>1, <2>4, Zenon
<1>7. ASSUME NEW h \in Handlers, NEW c \in BOOLEAN, Send(h, c)
      PROVE  OnceInv'
  <2>1. PICK n \in Nat : n = sent + 1
    BY <1>s
  <2>2. /\ Arrive(h, n, c) /\ sent' = n /\ n <= MaxRequests /\ uncached \subseteq uncached'
        /\ UNCHANGED <<slotVars, executed>>
    <3>1. Arrive(h, n, c)
      BY <1>7, <2>1, Zenon DEF Send
    <3> QED
      BY <1>7, <1>s, <2>1, <3>1, SlotsAssumption DEF Send
  <2>3. /\ Serving' = Serving \cup {h} /\ run'[h].pc = "lookup"
        /\ overlapped \subseteq overlapped'
        /\ Serving # {} => n \in overlapped'
    BY <2>2, ArriveServes, Zenon
  <2>4. n \in Requests /\ n > sent
    BY <1>s, <2>1, <2>2, SlotsAssumption DEF Requests
  <2>5. sent > 0 /\ sent \notin overlapped' \cup uncached' => executed[sent] <= 1
    BY <2>2, <2>3 DEF OnceInv, Guarded, Fresh, Settled
  <2>6. OthersOnce'
    BY <1>s, <2>1, <2>2, <2>3, <2>5 DEF OnceInv, OthersOnce, Requests
  <2>7. ASSUME Guarded'
        PROVE  Fresh'
    <3>1. Serving = {} /\ executed[n] = 0
      BY <2>2, <2>3, <2>4, <2>7 DEF OnceInv, OthersOnce, Guarded
    <3> QED
      BY <2>2, <2>3, <3>1 DEF Fresh
  <2> QED
    BY <1>g, <2>6, <2>7, Zenon
<1>8. CASE RemoveSession \/ UNCHANGED vars
  <2>1. UNCHANGED <<persist, SequenceID, ContainsData, clientVars, run, executed>>
    BY <1>8 DEF RemoveSession, vars, slotVars
  <2>2. (Guarded => Fresh \/ Settled)'
    BY <2>1 DEF OnceInv, Guarded, Fresh, Settled, Serving, clientVars
  <2> QED
    BY <1>g, <1>o, <2>1, <2>2 DEF clientVars
<1> QED
  BY <1>1, <1>2, <1>3, <1>4, <1>5, <1>6, <1>7, <1>8, Zenon DEF Next, RunSequence

\* What was executed stays executed, and overlapped requests stay so.
LEMMA Monotone ==
    ASSUME TypeOK, [Next]_vars
    PROVE  /\ overlapped \subseteq overlapped'
           /\ \A n \in Requests : executed[n] > 0 => executed'[n] > 0
<1>1. ASSUME NEW h \in Handlers, RunSequence(h)
      PROVE  /\ overlapped' = overlapped
             /\ \A n \in Requests : executed[n] > 0 => executed'[n] > 0
  <2>1. overlapped' = overlapped
    BY <1>1, RunSequenceAdvances DEF clientVars
  <2>2. CASE UNCHANGED executed
    BY <2>1, <2>2
  <2>3. CASE Execute(h) \/ ExecuteFails(h)
    <3>1. executed' = [executed EXCEPT ![run[h].req] = @ + 1]
      BY <2>3 DEF Execute, ExecuteFails
    <3> QED
      BY <2>1, <3>1 DEF TypeOK
  <2> QED
    BY <1>1, <2>2, <2>3 DEF RunSequence, GetSlot, Check, Update, Save
<1>2. ASSUME NEW h \in Handlers, Repeat(h) \/ Deliver(h) \/ Lose(h) \/ \E c \in BOOLEAN : Send(h, c)
      PROVE  overlapped \subseteq overlapped' /\ executed' = executed
  BY <1>2 DEF Repeat, Deliver, Lose, Send, Arrive, clientVars
<1>3. CASE RemoveSession \/ UNCHANGED vars
  BY <1>3 DEF RemoveSession, clientVars, vars
<1> QED
  BY <1>1, <1>2, <1>3, Zenon DEF Next

\* The two properties of the answers are kept when every answer is an earlier one
\* or is that of h, and h's is in order and for an executed request.
LEMMA AnswersKept ==
    ASSUME TypeOK, NeverMisordered, AnsweredIsExecuted, [Next]_vars, NEW h,
           \A g \in DOMAIN run' : g # h => g \in DOMAIN run /\ run'[g] = run[g],
           overlapped' = {} /\ h \in DOMAIN run' /\ run'[h].pc \in Answers =>
               \/ run'[h].pc = "deadsession"
               \/ /\ run'[h].pc \in {"out", "retry_uncached"}
                  /\ executed'[run'[h].req] > 0
    PROVE  (NeverMisordered /\ AnsweredIsExecuted)'
<1> SUFFICES ASSUME overlapped' = {}, NEW g \in DOMAIN run'
             PROVE  /\ run'[g].pc # "misordered"
                    /\ run'[g].pc \in Answers \ {"deadsession"} => executed'[run'[g].req] > 0
  BY Zenon DEF NeverMisordered, AnsweredIsExecuted
<1>1. overlapped = {}
  BY Monotone
<1>2. CASE g = h
  BY <1>2 DEF Answers
<1>3. CASE g # h
  <2>1. g \in DOMAIN run /\ run'[g] = run[g] /\ run[g].req \in Requests
    BY <1>3 DEF TypeOK
  <2> QED
    BY <1>1, <2>1, Monotone, Zenon DEF NeverMisordered, AnsweredIsExecuted
<1> QED
  BY <1>2, <1>3

\* Every step keeps the invariant for the answers.
LEMMA OrderStep ==
    ASSUME OrderInv, [Next]_vars
    PROVE  OrderInv'
<1>i. OnceInv /\ OnceInv' /\ TypeOK /\ NeverMisordered /\ AnsweredIsExecuted
  BY OnceStep DEF OrderInv, OnceInv
<1>o. overlapped' = {} => overlapped = {} /\ (Pending \/ Taken) /\ sent \notin overlapped
  BY <1>i, Monotone DEF OrderInv
<1>s. sent \in Nat /\ sent - 1 + 1 = sent
  BY <1>i DEF TypeOK
<1>g. (NeverMisordered /\ AnsweredIsExecuted)' /\ (overlapped' = {} => (Pending \/ Taken)') => OrderInv'
  BY <1>i DEF OrderInv
<1>k. ASSUME NEW h, Advanced(h)
      PROVE  \A g \in DOMAIN run' : g # h => g \in DOMAIN run /\ run'[g] = run[g]
  BY <1>k, Zenon DEF Advanced
<1>1. ASSUME NEW h \in Handlers, GetSlot(h)
      PROVE  OrderInv'
  <2>1. /\ h \in Serving /\ Advanced(h) /\ run[h].pc = "lookup"
        /\ UNCHANGED <<SequenceID, sent, done, executed>>
    BY <1>1, <1>i, RunSequenceAdvances DEF RunSequence, GetSlot, At, slotVars, clientVars
  <2>2. PICK pc \in {"check", "deadsession"} : \E out : Goto(h, pc, out)
    BY <1>1 DEF GetSlot
  <2>3. run'[h].pc = pc /\ (h \in Serving' <=> pc \notin Answers)
    BY <1>i, <2>1, <2>2, GotoAdvances, Zenon
  <2>4. (NeverMisordered /\ AnsweredIsExecuted)'
    <3>1. run'[h].pc \in Answers => run'[h].pc = "deadsession"
      BY <2>3 DEF Answers
    <3> QED
      BY <1>i, <1>k, <2>1, <3>1, AnswersKept, Zenon
  <2>5. ASSUME overlapped' = {}
        PROVE  (Pending \/ Taken)'
    <3>1. Serving = {h}
      BY <1>i, <1>o, <2>1, <2>5, Alone, Zenon
    <3>2. Serving' \subseteq {h}
      BY <2>1, <3>1, Zenon DEF Advanced
    <3> QED
      BY <1>o, <2>1, <2>3, <2>5, <3>1, <3>2 DEF Pending, Taken, Answers
  <2> QED
    BY <1>g, <2>4, <2>5, Zenon
<1>2. ASSUME NEW h \in Handlers, Check(h)
      PROVE  OrderInv'
  <2>1. /\ h \in Serving /\ Advanced(h) /\ run[h].pc = "check" /\ CheckSlot(h)
        /\ UNCHANGED <<SequenceID, sent, done, executed>>
    BY <1>2, <1>i, RunSequenceAdvances DEF RunSequence, Check, At, slotVars, clientVars
  <2>2. PICK pc \in {"out", "retry_uncached", "misordered", "update"} :
            /\ \E out : Goto(h, pc, out)
            /\ pc \in {"out", "retry_uncached"} => Same(h)
            /\ pc = "misordered" =>
                 ~Same(h) /\ (SequenceID + 1) % SeqMod # SeqOf(run[h].req)
    BY <2>1, CheckGoes
  <2>3. run'[h].pc = pc /\ (h \in Serving' <=> pc \notin Answers)
    BY <1>i, <2>1, <2>2, GotoAdvances, Zenon
  <2>4. ASSUME overlapped' = {}
        PROVE  /\ Serving = {h} /\ run[h].req = sent /\ sent > 0
               /\ \/ Pending /\ pc = "update"
                  \/ Taken /\ executed[sent] > 0 /\ pc # "misordered"
    <3>1. Serving = {h} /\ run[h].req = sent /\ sent > 0
      BY <1>i, <1>o, <2>1, <2>4, Alone, Zenon
    <3>2. CASE Pending
      <4>1. SeqOf(sent) # SequenceID /\ (SequenceID + 1) % SeqMod = SeqOf(sent)
        <5>1. PICK n \in Nat : n = sent - 1
          BY <1>s, <3>1
        <5>2. sent = n + 1 /\ SequenceID = SeqOf(n)
          BY <1>s, <3>2, <5>1 DEF Pending
        <5> QED
          BY <5>2, NextSeq
      <4> QED
        BY <2>2, <3>1, <3>2, <4>1 DEF Same
    <3>3. CASE Taken
      BY <2>1, <2>2, <3>1, <3>3 DEF Same, Taken
    <3> QED
      BY <1>o, <2>4, <3>1, <3>2, <3>3
  <2>5. (NeverMisordered /\ AnsweredIsExecuted)'
    <3>1. run'[h].req = run[h].req \/ h \notin DOMAIN run'
      BY <2>1, Zenon DEF Advanced
    <3>2. overlapped' = {} /\ h \in DOMAIN run' /\ run'[h].pc \in Answers =>
               \/ run'[h].pc = "deadsession"
               \/ /\ run'[h].pc \in {"out", "retry_uncached"}
                  /\ executed'[run'[h].req] > 0
      BY <2>1, <2>2, <2>3, <2>4, <3>1 DEF Answers
    <3> QED
      BY <1>i, <1>k, <2>1, <3>2, AnswersKept, Zenon
  <2>6. ASSUME overlapped' = {}
        PROVE  (Pending \/ Taken)'
    <3>1. Serving' \subseteq {h}
      BY <2>1, <2>4, <2>6, Zenon DEF Advanced
    <3> QED
      BY <2>1, <2>3, <2>4, <2>6, <3>1 DEF Pending, Taken
  <2> QED
    BY <1>g, <2>5, <2>6, Zenon
<1>3. ASSUME NEW h \in Handlers, Update(h)
      PROVE  OrderInv'
  <2>1. /\ h \in Serving /\ Advanced(h) /\ Goto(h, "operations", <<>>)
        /\ SequenceID' = SeqOf(run[h].req)
        /\ UNCHANGED <<sent, done, executed>>
    BY <1>3, <1>i, RunSequenceAdvances DEF RunSequence, Update, clientVars
  <2>2. run'[h].pc = "operations" /\ h \in Serving' /\ run'[h].pc \notin Answers
    <3>1. PICK pc, out : pc = "operations" /\ Goto(h, pc, out)
      BY <2>1, Zenon
    <3>2. run'[h].pc = pc /\ (h \in Serving' <=> pc \notin Answers)
      BY <1>i, <2>1, <3>1, GotoAdvances, Zenon
    <3> QED
      BY <3>1, <3>2 DEF Answers
  <2>3. (NeverMisordered /\ AnsweredIsExecuted)'
    BY <1>i, <1>k, <2>1, <2>2, AnswersKept, Zenon
  <2>4. ASSUME overlapped' = {}
        PROVE  Taken'
    <3>1. run[h].req = sent
      BY <1>i, <1>o, <2>1, <2>4, Alone, Zenon
    <3> QED
      BY <2>1, <2>2, <3>1 DEF Taken
  <2> QED
    BY <1>g, <2>3, <2>4, Zenon
<1>4. ASSUME NEW h \in Handlers, Execute(h) \/ ExecuteFails(h)
      PROVE  OrderInv'
  <2>1. /\ h \in Serving /\ h \in DOMAIN run /\ Advanced(h) /\ run[h].pc = "operations"
        /\ executed' = [executed EXCEPT ![run[h].req] = @ + 1]
        /\ UNCHANGED <<SequenceID, sent>>
    BY <1>4, <1>i, RunSequenceAdvances
       DEF RunSequence, Execute, ExecuteFails, At, slotVars, clientVars
  <2>2. h \in DOMAIN run' => run'[h].pc \notin Answers
    <3>1. CASE Leave(h)
      BY <2>1, <3>1, LeaveAdvances, Zenon
    <3>2. CASE Goto(h, "save", <<run[h].req>>)
      <4>1. PICK pc, out : pc = "save" /\ Goto(h, pc, out)
        BY <3>2, Zenon
      <4>2. run'[h].pc = pc
        BY <1>i, <2>1, <4>1, GotoAdvances, Zenon
      <4> QED
        BY <4>1, <4>2 DEF Answers
    <3> QED
      BY <1>4, <3>1, <3>2, Zenon DEF Execute, ExecuteFails
  <2>3. (NeverMisordered /\ AnsweredIsExecuted)'
    BY <1>i, <1>k, <2>1, <2>2, AnswersKept, Zenon
  <2>4. ASSUME overlapped' = {}
        PROVE  Taken'
    <3>1. run[h].req = sent /\ sent \in Requests
      BY <1>i, <1>o, <2>1, <2>4, Alone, Zenon
    <3>2. Taken
      BY <1>o, <2>1, <2>4 DEF Pending
    <3>3. executed'[sent] > 0
      BY <1>i, <2>1, <3>1 DEF TypeOK
    <3> QED
      BY <2>1, <3>2, <3>3 DEF Taken
  <2> QED
    BY <1>g, <2>3, <2>4, Zenon
<1>5. ASSUME NEW h \in Handlers, Save(h)
      PROVE  OrderInv'
  <2>1. /\ h \in Serving /\ Advanced(h) /\ run[h].pc = "save"
        /\ UNCHANGED <<SequenceID, sent, executed>>
    BY <1>5, <1>i, RunSequenceAdvances DEF RunSequence, Save, At, clientVars
  <2>2. run'[h].pc = "out"
    <3>1. PICK pc, out : pc = "out" /\ Goto(h, pc, out)
      BY <1>5, Zenon DEF Save
    <3> QED
      BY <1>i, <2>1, <3>1, GotoAdvances, Zenon
  <2>3. ASSUME overlapped' = {}
        PROVE  Taken /\ executed[sent] > 0 /\ run[h].req = sent
    <3>1. Serving = {h} /\ run[h].req = sent /\ sent > 0
      BY <1>i, <1>o, <2>1, <2>3, Alone, Zenon
    <3>2. Taken
      BY <1>o, <2>1, <2>3 DEF Pending
    <3> QED
      BY <2>1, <3>1, <3>2 DEF Taken
  <2>4. (NeverMisordered /\ AnsweredIsExecuted)'
    <3>1. run'[h].req = run[h].req \/ h \notin DOMAIN run'
      BY <2>1, Zenon DEF Advanced
    <3>2. overlapped' = {} /\ h \in DOMAIN run' =>
               run'[h].pc \in {"out", "retry_uncached"} /\ executed'[run'[h].req] > 0
      BY <2>1, <2>2, <2>3, <3>1
    <3> QED
      BY <1>i, <1>k, <2>1, <3>2, AnswersKept, Zenon
  <2>5. overlapped' = {} => Taken'
    BY <2>1, <2>3 DEF Taken
  <2> QED
    BY <1>g, <2>4, <2>5, Zenon
<1>6. ASSUME NEW h \in Handlers, Repeat(h)
      PROVE  OrderInv'
  <2>1. PICK n, c : n = sent /\ c = cacheThis
    OBVIOUS
  <2>2. Arrive(h, n, c) /\ UNCHANGED <<SequenceID, sent, done, executed>>
    BY <1>6, <2>1, Zenon DEF Repeat, slotVars
  <2>3. /\ Serving' = Serving \cup {h} /\ run'[h].pc = "lookup" /\ DOMAIN run' = DOMAIN run \cup {h}
        /\ \A g \in DOMAIN run : run'[g] = run[g]
    BY <2>2, ArriveServes, Zenon
  <2>4. (NeverMisordered /\ AnsweredIsExecuted)'
    <3>1. run'[h].pc \notin Answers
      BY <2>3 DEF Answers
    <3>2. \A g \in DOMAIN run' : g # h => g \in DOMAIN run /\ run'[g] = run[g]
      BY <2>3, Zenon
    <3> QED
      BY <1>i, <3>1, <3>2, AnswersKept, Zenon
  <2>5. \A g \in Serving : g \in Serving' /\ run'[g] = run[g]
    BY <2>3, Zenon DEF Serving
  <2>6. \A g \in Serving' : g \in Serving \/ g = h
    BY <2>3, Zenon
  <2>7. overlapped' = {} => (Pending \/ Taken)'
    BY <1>o, <2>2, <2>3, <2>5, <2>6 DEF Pending, Taken
  <2> QED
    BY <1>g, <2>4, <2>7, Zenon
<1>7. ASSUME NEW h \in Handlers, Deliver(h) \/ Lose(h)
      PROVE  OrderInv'
  <2>1. /\ h \in DOMAIN run /\ run[h].pc \in Answers /\ Leave(h)
        /\ UNCHANGED <<SequenceID, sent, executed>>
        /\ \/ done' = done
           \/ run[h].pc # "deadsession" /\ done' = (done \/ run[h].req = sent)
    BY <1>7 DEF Deliver, Lose, slotVars, clientVars
  <2>2. Advanced(h) /\ h \notin DOMAIN run' /\ h \notin Serving
    BY <2>1, LeaveAdvances, Zenon DEF Serving
  <2>3. Serving' = Serving /\ \A g \in Serving : run'[g] = run[g]
    BY <2>2, Zenon DEF Advanced, Serving
  <2>4. (NeverMisordered /\ AnsweredIsExecuted)'
    BY <1>i, <1>k, <2>2, AnswersKept, Zenon
  <2>5. ASSUME overlapped' = {}
        PROVE  (Pending \/ Taken)'
    <3>1. CASE Taken
      BY <2>1, <2>3, <3>1 DEF Taken
    <3>2. CASE Pending
      <4>1. ~done'
        <5>1. run[h].pc # "deadsession" => executed[run[h].req] > 0
          BY <1>i, <1>o, <2>1, <2>5 DEF AnsweredIsExecuted
        <5>2. run[h].pc # "deadsession" => run[h].req # sent
          BY <3>2, <5>1 DEF Pending
        <5> QED
          BY <2>1, <3>2, <5>2, Zenon DEF Pending
      <4> QED
        BY <2>1, <2>3, <3>2, <4>1 DEF Pending
    <3> QED
      BY <1>o, <2>5, <3>1, <3>2
  <2> QED
    BY <1>g, <2>4, <2>5, Zenon
<1>8. ASSUME NEW h \in Handlers, NEW c \in BOOLEAN, Send(h, c)
      PROVE  OrderInv'
  <2>1. PICK n \in Nat : n = sent + 1
    BY <1>s
  <2>2. /\ Arrive(h, n, c) /\ sent' = n /\ done /\ ~done'
        /\ UNCHANGED <<SequenceID, executed>>
    BY <1>8, <2>1, Zenon DEF Send, slotVars
  <2>3. /\ Serving' = Serving \cup {h} /\ run'[h].pc = "lookup" /\ DOMAIN run' = DOMAIN run \cup {h}
        /\ \A g \in DOMAIN run : run'[g] = run[g]
        /\ Serving # {} => n \in overlapped'
    BY <2>2, ArriveServes, Zenon
  <2>4. (NeverMisordered /\ AnsweredIsExecuted)'
    <3>1. run'[h].pc \notin Answers
      BY <2>3 DEF Answers
    <3>2. \A g \in DOMAIN run' : g # h => g \in DOMAIN run /\ run'[g] = run[g]
      BY <2>3, Zenon
    <3> QED
      BY <1>i, <3>1, <3>2, AnswersKept, Zenon
  <2>5. ASSUME overlapped' = {}
        PROVE  Pending'
    <3>1. Serving = {} /\ Taken
      BY <1>o, <2>2, <2>3, <2>5 DEF Pending
    <3>2. n \in Requests /\ n > sent /\ n - 1 = sent /\ n > 0
      BY <1>8, <1>s, <2>1, SlotsAssumption DEF Send, Requests
    <3>3. executed[n] = 0
      BY <1>i, <3>2 DEF OnceInv, OthersOnce
    <3> QED
      BY <2>2, <2>3, <3>1, <3>2, <3>3 DEF Pending, Taken
  <2> QED
    BY <1>g, <2>4, <2>5, Zenon
<1>9. CASE RemoveSession \/ UNCHANGED vars
  <2>1. UNCHANGED <<SequenceID, clientVars, run, executed>>
    BY <1>9 DEF RemoveSession, vars, slotVars
  <2>2. /\ (NeverMisordered /\ AnsweredIsExecuted)'
        /\ overlapped' = {} => (Pending \/ Taken)'
    BY <1>i, <1>o, <2>1
       DEF NeverMisordered, AnsweredIsExecuted, Pending, Taken, Serving, clientVars
  <2> QED
    BY <1>g, <2>2, Zenon
<1> QED
  BY <1>1, <1>2, <1>3, <1>4, <1>5, <1>6, <1>7, <1>8, <1>9, Zenon DEF Next, RunSequence
-----------------------------------------------------------------------------
\* The slot starts one behind the first request, which was not sent.
LEMMA InitOrderInv == Init => OrderInv
<1> SUFFICES ASSUME Init
             PROVE  OrderInv
  OBVIOUS
<1>1. /\ DOMAIN run = {} /\ SequenceID = 0 /\ sent = 0 /\ done = TRUE /\ tries = 0
      /\ executed = [n \in Requests |-> 0] /\ overlapped = {} /\ uncached = {}
      /\ ContainsData = FALSE /\ cacheThis = FALSE /\ alive = TRUE /\ Buf = <<>>
  BY DEF Init
<1>2. persist \in BOOLEAN /\ Buf \in Seq(Requests) /\ executed \in [Requests -> Nat]
  BY <1>1, SlotsAssumption DEF Init
<1>3. run \in [DOMAIN run -> [req : Requests, cache : BOOLEAN, pc : PCs, out : Seq(Requests)]]
  BY DEF Init
<1>4. 0 \in 0..SeqMod - 1 /\ 0 \in 0..MaxRequests /\ 0 \in 0..MaxTries
  BY SlotsAssumption
<1>5. TypeOK /\ Numbered
  BY <1>1, <1>2, <1>3, <1>4 DEF TypeOK, Numbered
<1>6. Serving = {}
  BY <1>1 DEF Serving
<1>7. Invocations /\ OthersOnce /\ ~Guarded
  BY <1>1, <1>6 DEF Invocations, OthersOnce, Guarded
<1>8. SeqOf(0) = 0
  <2>1. SeqMod \in Nat /\ SeqMod > 2 /\ 0 = SeqMod * 0 + 0 /\ 0 \in 0..SeqMod - 1
    BY SlotsAssumption
  <2> QED
    BY <2>1, ModUnique DEF SeqOf
<1>9. Taken /\ NeverMisordered /\ AnsweredIsExecuted
  BY <1>1, <1>8 DEF Taken, NeverMisordered, AnsweredIsExecuted
<1> QED
  BY <1>5, <1>7, <1>9 DEF OrderInv, OnceInv

\* The inductive invariant holds in every use of the slot: with and without
\* persistence and CacheThis, and when requests are repeated while they are served.
THEOREM SlotInvariant == Spec => []OrderInv
<1>1. OrderInv /\ [Next]_vars => OrderInv'
  BY OrderStep
<1> QED
  BY <1>1, InitOrderInv, PTL DEF Spec

\* TypeOK holds always.
THEOREM SlotsTyped == Spec => []TypeOK
<1>1. OrderInv => TypeOK
  BY DEF OrderInv, OnceInv
<1> QED
  BY <1>1, SlotInvariant, PTL

\* The sequence check executes a request at most once, for any number of requests,
\* repetitions, lost answers and wraps of the sequence id, unless the request was in
\* RunSequence together with another or has no reply that a persistent session keeps.
THEOREM AtMostOnce == Spec => []ExecutedAtMostOnce
<1>1. OrderInv => ExecutedAtMostOnce
  <2> SUFFICES ASSUME OrderInv, NEW n \in Requests, n \notin overlapped \cup uncached
               PROVE  executed[n] <= 1
    BY DEF ExecutedAtMostOnce, OrderInv, OnceInv, TypeOK
  <2>1. n \in Nat /\ n > 0 /\ sent \in Nat
    BY SlotsAssumption DEF OrderInv, OnceInv, TypeOK, Requests
  <2>2. CASE n = sent
    BY <2>1, <2>2 DEF OrderInv, OnceInv, Guarded, Fresh, Settled
  <2>3. CASE n # sent
    BY <2>1, <2>3 DEF OrderInv, OnceInv, OthersOnce
  <2> QED
    BY <2>2, <2>3
<1> QED
  BY <1>1, SlotInvariant, PTL

\* As long as no two requests were in RunSequence together, the client is never
\* told that it is out of order.
THEOREM InOrder == Spec => []NeverMisordered
<1>1. OrderInv => NeverMisordered
  BY DEF OrderInv
<1> QED
  BY <1>1, SlotInvariant, PTL

\* As long as no two requests were in RunSequence together, only a request that
\* was executed is answered.
THEOREM ExecutedBeforeAnswer == Spec => []AnsweredIsExecuted
<1>1. OrderInv => AnsweredIsExecuted
  BY DEF OrderInv
<1> QED
  BY <1>1, SlotInvariant, PTL
=============================================================================
