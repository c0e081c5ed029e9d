--------------------------- MODULE ClientsProofs ---------------------------
(***************************************************************************)
(* Theorems about Clients, for every value of its constants.               *)
(***************************************************************************)
EXTENDS Clients, TLAPS

\* auth.Creds.Equal is symmetric: Add compares a stored credential with that of a
\* request, and later either of the two records may be the confirmed one.
LEMMA CredsEqualSymmetric ==
    ASSUME NEW c \in CredsType, NEW d \in CredsType, CredsEqual(c, d)
    PROVE  CredsEqual(d, c)
  BY DEF CredsEqual, CredsType

\* d is c with the same owner, verifier, credentials, open files and sessions, and
\* confirmed if c is.
Extends(c, d) ==
    /\ d.name = c.name
    /\ d.verifier = c.verifier
    /\ d.creds = c.creds
    /\ d.busy = c.busy
    /\ d.sessions = c.sessions
    /\ c.confirmed => d.confirmed

\* What refreshing a lease, numbering and confirming do to a Client: its identity
\* and its state stay as they are.
LEMMA TouchExtends ==
    ASSUME NEW c \in Client
    PROVE  Touch(c) \in Client /\ Extends(c, Touch(c)) /\ Touch(c).confirmed = c.confirmed
  BY ClientsAssumption DEF Client, Ages, Touch, Extends

LEMMA WithSeqIDExtends ==
    ASSUME NEW c \in Client, NEW s \in SeqIDs
    PROVE  /\ WithSeqID(c, s) \in Client
           /\ Extends(c, WithSeqID(c, s))
           /\ WithSeqID(c, s).confirmed = c.confirmed
<1>1. ASSUME NEW d \in Client
      PROVE  LET e == [d EXCEPT !.seqID = s]
             IN  e \in Client /\ Extends(d, e) /\ e.confirmed = d.confirmed
  BY DEF Client, Extends
<1> QED BY <1>1, TouchExtends DEF WithSeqID, Extends

LEMMA ConfirmExtends ==
    ASSUME NEW c \in Client
    PROVE  LET d == [Touch(c) EXCEPT !.confirmed = TRUE]
           IN  d \in Client /\ Extends(c, d) /\ d.confirmed
<1>1. ASSUME NEW d \in Client
      PROVE  LET e == [d EXCEPT !.confirmed = TRUE]
             IN  e \in Client /\ Extends(d, e) /\ e.confirmed
  BY Zenon DEF Client, Extends
<1> QED BY <1>1, TouchExtends DEF Extends

LEMMA UpdateExtends ==
    ASSUME NEW c \in Client, NEW s \in SeqIDs, NEW v \in ConfirmValues
    PROVE  LET d == [WithSeqID(c, s) EXCEPT !.confirmValue = v]
           IN  d \in Client /\ Extends(c, d) /\ d.confirmed = c.confirmed
<1>1. ASSUME NEW d \in Client
      PROVE  LET e == [d EXCEPT !.confirmValue = v]
             IN  e \in Client /\ Extends(d, e) /\ e.confirmed = d.confirmed
  BY DEF Client, Extends
<1> QED BY <1>1, WithSeqIDExtends DEF Extends
-----------------------------------------------------------------------------
\* A step either inserts a record or leaves the identity of every record alone:
\* none appears, none changes owner, verifier or credentials, and none goes back
\* to unconfirmed.
KeepsIdentity ==
    /\ registered' \subseteq registered
    /\ issued' = issued
    /\ \A i \in issued :
          /\ client'[i].name = client[i].name
          /\ client'[i].verifier = client[i].verifier
          /\ client'[i].creds = client[i].creds
          /\ client[i].confirmed => client'[i].confirmed

Inserts ==
    \E n \in Names, v \in Verifiers, c \in Principals :
        /\ \A i \in Prev(n) : CredsEqual(client[i].creds, c)
        /\ \E i \in Ids \ issued : AddNew(n, v, c, i)
        /\ UNCHANGED calls

\* The part of the inductive invariant a step is checked against record by record.
StateInv == TypeOK /\ UnconfirmedIsStateless

\* The goal of each step below.
Good == StateInv' /\ (KeepsIdentity \/ Inserts)

\* A step that replaces one registered record by an extension of it, and may leave
\* a handler holding the record if that is confirmed.
LEMMA ExtendOne ==
    ASSUME StateInv, NEW id \in registered, NEW d \in Client,
           Extends(client[id], d),
           client' = [client EXCEPT ![id] = d],
           registered' = registered,
           \/ calls' = calls
           \/ \E h \in Handlers, op \in Ops :
                 /\ d.confirmed
                 /\ calls' = calls \cup {[h |-> h, op |-> op, id |-> id]}
    PROVE  Good
<1> USE DEF StateInv, TypeOK, issued
<1>1. TypeOK' /\ KeepsIdentity
  BY DEF KeepsIdentity, Extends
<1>2. ASSUME NEW i \in registered', ~client'[i].confirmed
      PROVE  client'[i].sessions = {} /\ client'[i].busy = 0 /\ i \notin Held'
  <2>1. ~client[i].confirmed /\ client[i].sessions = {} /\ client[i].busy = 0 /\ i \notin Held
    BY <1>1, <1>2 DEF KeepsIdentity, UnconfirmedIsStateless
  <2>2. client'[i].sessions = {} /\ client'[i].busy = 0
    BY <2>1 DEF Extends
  <2>3. i \notin Held'
    <3>1. CASE calls' = calls
      BY <2>1, <3>1 DEF Held
    <3>2. CASE \E h \in Handlers, op \in Ops :
                 /\ d.confirmed
                 /\ calls' = calls \cup {[h |-> h, op |-> op, id |-> id]}
      <4>1. id # i
        BY <1>2, <3>2
      <4> QED BY <2>1, <3>2, <4>1 DEF Held
    <3> QED BY <3>1, <3>2
  <2> QED BY <2>2, <2>3
<1> QED BY <1>1, <1>2 DEF Good, UnconfirmedIsStateless

\* Clients.Get, alone or followed by a handler keeping the pointer.
LEMMA GetGood ==
    ASSUME StateInv, NEW id \in Ids, Get(id), registered' = registered,
           \/ calls' = calls
           \/ \E h \in Handlers, op \in Ops : Hold(h, op, id)
    PROVE  Good
<1>1. id \in registered /\ client[id].confirmed /\ client[id] \in Client
  BY DEF StateInv, TypeOK, Get, Confirmed
<1> DEFINE d == Touch(client[id])
<1>2. d \in Client /\ Extends(client[id], d) /\ d.confirmed
  BY <1>1, TouchExtends
<1>3. client' = [client EXCEPT ![id] = d]
  BY DEF Get
<1> HIDE DEF d
<1> QED BY <1>1, <1>2, <1>3, ExtendOne, Zenon DEF Hold

\* Add: an update extends a record, an insertion brings a stateless one.
LEMMA AddGood ==
    ASSUME StateInv, NEW n \in Names, NEW v \in Verifiers, NEW c \in Principals,
           Add(n, v, c), UNCHANGED calls
    PROVE  Good
<1>1. ASSUME NEW i \in Prev(n), AddUpdate(v, i)
      PROVE  Good
  <2>1. i \in registered /\ client[i] \in Client
    BY DEF StateInv, TypeOK, Prev
  <2>2. (client[i].seqID + 1) % SeqMod \in SeqIDs
    BY <2>1, ClientsAssumption DEF Client, SeqIDs
  <2>3. PICK w \in ConfirmValues :
          client' = [client EXCEPT ![i] =
                        [WithSeqID(@, (@.seqID + 1) % SeqMod) EXCEPT !.confirmValue = w]]
    BY <1>1, Zenon DEF AddUpdate
  <2> DEFINE d == [WithSeqID(client[i], (client[i].seqID + 1) % SeqMod)
                      EXCEPT !.confirmValue = w]
  <2>4. d \in Client /\ Extends(client[i], d)
    BY <2>1, <2>2, UpdateExtends
  <2>5. client' = [client EXCEPT ![i] = d] /\ registered' = registered
    BY <1>1, <2>3, Zenon DEF AddUpdate
  <2> HIDE DEF d
  <2> QED BY <2>1, <2>4, <2>5, ExtendOne, Zenon
<1>2. ASSUME NEW i \in Ids \ issued, AddNew(n, v, c, i)
      PROVE  Good
  <2> USE <1>2, ClientsAssumption DEF StateInv, TypeOK, issued
  <2>1. TypeOK'
    BY DEF AddNew, Client, SeqIDs, Ages
  <2>2. i \notin Held
    BY DEF Held
  <2>3. Held' = Held
    BY DEF Held
  <2>4. UnconfirmedIsStateless'
    BY <2>2, <2>3 DEF AddNew, UnconfirmedIsStateless
  <2>5. Inserts
    BY DEF Inserts, Add
  <2> QED BY <2>1, <2>4, <2>5 DEF Good
<1> QED BY <1>1, <1>2 DEF Add

\* The two halves of Confirm and Confirm41 that write the record.
LEMMA ConfirmGood ==
    ASSUME StateInv, NEW id \in registered,
           client' = [client EXCEPT ![id] = [Touch(@) EXCEPT !.confirmed = TRUE]],
           registered' = registered,
           \/ calls' = calls
           \/ \E h \in Handlers, op \in Ops : Hold(h, op, id)
    PROVE  Good
<1>1. client[id] \in Client
  BY DEF StateInv, TypeOK
<1> DEFINE d == [Touch(client[id]) EXCEPT !.confirmed = TRUE]
<1>2. d \in Client /\ Extends(client[id], d) /\ d.confirmed
  BY <1>1, ConfirmExtends
<1>3. client' = [client EXCEPT ![id] = d]
  OBVIOUS
<1> HIDE DEF d
<1> QED BY <1>2, <1>3, ExtendOne, Zenon DEF Hold

LEMMA CreateSessionGood ==
    ASSUME StateInv, NEW id \in Ids, NEW h \in Handlers, NEW s \in SeqIDs,
           NEW c \in Principals, CreateSession(h, id, s, c)
    PROVE  Good
<1>1. id \in registered /\ client[id] \in Client /\ registered' = registered
      /\ Hold(h, "build", id) /\ "build" \in Ops
  BY DEF StateInv, TypeOK, CreateSession, Confirm41, Ops
<1>2. CASE client[id].confirmed /\ client' = client
  <2>1. Extends(client[id], client[id]) /\ client' = [client EXCEPT ![id] = client[id]]
    BY <1>1, <1>2 DEF Extends, StateInv, TypeOK, issued
  <2> QED BY <1>1, <1>2, <2>1, ExtendOne, Zenon DEF Hold
<1>3. CASE client[id].confirmed /\ client' = [client EXCEPT ![id] = WithSeqID(@, s)]
  <2> DEFINE d == WithSeqID(client[id], s)
  <2>1. d \in Client /\ Extends(client[id], d) /\ d.confirmed
    BY <1>1, <1>3, WithSeqIDExtends
  <2>2. client' = [client EXCEPT ![id] = d]
    BY <1>3
  <2> HIDE DEF d
  <2> QED BY <1>1, <2>1, <2>2, ExtendOne, Zenon DEF Hold
<1>4. CASE client' = [client EXCEPT ![id] = [Touch(@) EXCEPT !.confirmed = TRUE]]
  BY <1>1, <1>4, ConfirmGood, Zenon
<1> QED BY <1>2, <1>3, <1>4 DEF CreateSession, Confirm41, Resume41

\* Every step of the registry is good.
LEMMA NextGood == StateInv /\ [Next]_vars => Good
<1> SUFFICES ASSUME StateInv, [Next]_vars
             PROVE  Good
  OBVIOUS
<1>1. ASSUME NEW n \in Names, NEW v \in Verifiers, NEW c \in Principals,
             ExchangeIDKnown(n, v, c)
      PROVE  Good
  <2>1. PICK i \in Prev(n) : Get(i)
    BY <1>1 DEF ExchangeIDKnown, GetByName
  <2>2. i \in Ids
    BY DEF Prev, StateInv, TypeOK
  <2> QED BY <1>1, <2>1, <2>2, GetGood DEF ExchangeIDKnown
<1>2. ASSUME NEW id \in Ids, NEW v \in ConfirmValues, NEW c \in Principals,
             SetClientIDConfirm(id, v, c)
      PROVE  Good
  BY <1>2, ConfirmGood, Zenon DEF SetClientIDConfirm, Confirm
<1>3. ASSUME NEW id \in Ids, NEW h \in Handlers, DestroySession(h, id) \/ Open(h, id)
      PROVE  Good
  BY <1>3, GetGood DEF DestroySession, Open, Ops
<1>4. ASSUME NEW id \in Ids, Renew(id)
      PROVE  Good
  BY <1>4, GetGood DEF Renew
<1> USE DEF StateInv, TypeOK, issued, KeepsIdentity, UnconfirmedIsStateless
<1>5. ASSUME UNCHANGED <<client, calls>>, registered' \subseteq registered
      PROVE  Good
  BY <1>5 DEF Good, Held
<1>6. ASSUME NEW id \in Ids, CloseFile(id)
      PROVE  Good
  BY <1>6 DEF Good, CloseFile, Held, Client
<1>7. ASSUME NEW c \in calls, CreateSessionBuild(c) \/ DestroySessionRemove(c) \/ OpenAddFile(c)
      PROVE  Good
  <2>1. c.id \in issued /\ c.id \in Held
    BY DEF Held
  <2>2. Held' \subseteq Held /\ calls' \subseteq calls /\ registered' = registered
    BY <1>7 DEF CreateSessionBuild, DestroySessionRemove, OpenAddFile, Release, Held
  <2>3. client' \in [issued -> Client] /\ KeepsIdentity
    <3>1. CASE CreateSessionBuild(c)
      BY <3>1, <2>1, <2>2 DEF CreateSessionBuild, BuildSession, Client
    <3>2. CASE DestroySessionRemove(c)
      BY <3>2, <2>1, <2>2 DEF DestroySessionRemove, RemoveSession, Client
    <3>3. CASE OpenAddFile(c)
      BY <3>3, <2>1, <2>2 DEF OpenAddFile, Client
    <3> QED BY <1>7, <3>1, <3>2, <3>3
  <2>4. \A i \in issued : i # c.id => client'[i] = client[i]
    BY <1>7, <2>1, Zenon DEF CreateSessionBuild, DestroySessionRemove, OpenAddFile,
          BuildSession, RemoveSession
  <2> QED BY <2>1, <2>2, <2>3, <2>4 DEF Good
<1>8. ASSUME NEW c \in calls, OpenReturn(c)
      PROVE  Good
  BY <1>8 DEF Good, OpenReturn, Release, Held
<1>9. ASSUME Tick
      PROVE  Good
  <2>1. \A i \in issued : /\ client'[i] \in Client
                          /\ client'[i].name = client[i].name
                          /\ client'[i].verifier = client[i].verifier
                          /\ client'[i].creds = client[i].creds
                          /\ client'[i].busy = client[i].busy
                          /\ client'[i].sessions = client[i].sessions
                          /\ client'[i].confirmed = client[i].confirmed
    <3> SUFFICES ASSUME NEW i \in issued
                 PROVE  /\ client'[i] \in Client
                        /\ Extends(client[i], client'[i])
                        /\ client'[i].confirmed = client[i].confirmed
      BY DEF Extends
    <3> DEFINE a == client[i].age
               b == IF a > Expiration THEN a ELSE a + 1
    <3>1. client[i] \in Client /\ b \in Ages
      BY ClientsAssumption DEF Client, Ages
    <3>2. client'[i] = [client[i] EXCEPT !.age = b]
      BY <1>9 DEF Tick
    <3> HIDE DEF b
    <3> QED BY <3>1, <3>2 DEF Client, Extends
  <2> QED BY <1>9, <2>1 DEF Good, Tick, Held
<1> QED
  BY <1>1, <1>2, <1>3, <1>4, <1>5, <1>6, <1>7, <1>8, <1>9, AddGood, CreateSessionGood
     DEF Next, Request, SetClientID, ExchangeIDAdd, DestroyClientID, RemoveClient,
         RemoveExpiredClients, vars
-----------------------------------------------------------------------------
\* The inductive invariant. OneRecordPerIncarnation is what makes
\* PrincipalAgreement inductive: a record that becomes confirmed is the only
\* unconfirmed one of its owner, so every other record was confirmed before it and
\* was compared with it.
IInv == StateInv /\ OneRecordPerIncarnation /\ PrincipalAgreement

LEMMA CredsTyped ==
    ASSUME TypeOK, NEW i \in registered
    PROVE  client[i].creds \in CredsType
  BY ClientsAssumption DEF TypeOK, Client

LEMMA InitIInv == Init => IInv
  BY DEF Init, IInv, StateInv, TypeOK, UnconfirmedIsStateless, OneRecordPerIncarnation,
         PrincipalAgreement, issued

\* Steps that keep identities keep the two invariants on pairs of records.
LEMMA KeepsIInv ==
    ASSUME IInv, StateInv', KeepsIdentity
    PROVE  IInv'
<1> USE DEF IInv, StateInv, KeepsIdentity
<1>1. \A i \in registered' : i \in registered /\ i \in issued
  BY DEF TypeOK
<1>2. OneRecordPerIncarnation'
  BY <1>1 DEF OneRecordPerIncarnation
<1>3. ASSUME NEW i \in registered', NEW j \in registered',
             client'[i].name = client'[j].name, client'[i].confirmed
      PROVE  CredsEqual(client'[i].creds, client'[j].creds)
  <2>1. /\ i \in registered /\ j \in registered
        /\ client[i].name = client[j].name
        /\ client'[i].creds = client[i].creds /\ client'[j].creds = client[j].creds
    BY <1>1, <1>3
  <2>2. CASE client[i].confirmed
    BY <2>1, <2>2 DEF PrincipalAgreement
  <2>3. CASE client[j].confirmed
    <3>1. CredsEqual(client[j].creds, client[i].creds)
      BY <2>1, <2>3 DEF PrincipalAgreement
    <3> QED BY <2>1, <3>1, CredsTyped, CredsEqualSymmetric
  <2>4. CASE ~client[i].confirmed /\ ~client[j].confirmed
    <3>1. i = j
      BY <2>1, <2>4 DEF OneRecordPerIncarnation
    <3> QED BY <3>1 DEF CredsEqual
  <2> QED BY <2>2, <2>3, <2>4
<1> QED BY <1>2, <1>3 DEF PrincipalAgreement

\* An insertion was checked against every confirmed record of the owner and
\* replaces the others.
LEMMA InsertsIInv ==
    ASSUME IInv, StateInv', Inserts
    PROVE  IInv'
<1> USE DEF IInv, StateInv
<1>1. PICK n \in Names, v \in Verifiers, c \in Principals, id \in Ids \ issued :
        (\A i \in Prev(n) : CredsEqual(client[i].creds, c)) /\ AddNew(n, v, c, id)
  BY DEF Inserts
<1>2. /\ id \notin registered
      /\ client'[id].name = n /\ client'[id].verifier = v /\ client'[id].creds = c
      /\ ~client'[id].confirmed
  BY <1>1 DEF AddNew, TypeOK
<1>3. ASSUME NEW i \in registered', i # id
      PROVE  i \in registered /\ client'[i] = client[i] /\ (client[i].name = n => i \in Prev(n))
  BY <1>1, <1>3 DEF AddNew, Pending, Prev, TypeOK
<1>4. \A i \in Prev(n) : client[i].verifier # v /\ client[i].confirmed /\ client[i].name = n
  BY <1>1 DEF AddNew, Prev
<1>5. OneRecordPerIncarnation'
  <2> SUFFICES ASSUME NEW i \in registered', NEW j \in registered',
                      client'[i].name = client'[j].name,
                      \/ client'[i].verifier = client'[j].verifier
                      \/ ~client'[i].confirmed /\ ~client'[j].confirmed
               PROVE  i = j
    BY DEF OneRecordPerIncarnation
  <2>1. CASE i # id /\ j # id
    BY <1>3, <2>1 DEF OneRecordPerIncarnation
  <2>2. CASE i = id /\ j # id
    BY <1>2, <1>3, <1>4, <2>2
  <2>3. CASE i # id /\ j = id
    BY <1>2, <1>3, <1>4, <2>3
  <2> QED BY <2>1, <2>2, <2>3
<1>6. PrincipalAgreement'
  <2> SUFFICES ASSUME NEW i \in registered', NEW j \in registered',
                      client'[i].name = client'[j].name, client'[i].confirmed
               PROVE  CredsEqual(client'[i].creds, client'[j].creds)
    BY DEF PrincipalAgreement
  <2>1. CASE j # id
    BY <1>2, <1>3, <2>1 DEF PrincipalAgreement
  <2>2. CASE j = id
    BY <1>1, <1>2, <1>3, <2>2
  <2> QED BY <2>1, <2>2
<1> QED BY <1>5, <1>6

\* The registry keeps its types, an owner has one record per verifier and one
\* unconfirmed record, records of one owner agree on credentials, and unconfirmed
\* records carry no state, for any number of clients, owners and handlers.
THEOREM RegistryInvariant == Spec => []IInv
<1>1. IInv /\ [Next]_vars => IInv'
  BY NextGood, KeepsIInv, InsertsIInv DEF IInv, Good
<1> QED BY <1>1, InitIInv, PTL DEF Spec

\* TypeOK holds in every reachable state of the registry.
THEOREM TypeCorrect == Spec => []TypeOK
  BY RegistryInvariant, PTL DEF IInv, StateInv

\* At most one unconfirmed record per owner, and one per owner and verifier.
THEOREM OneRecord == Spec => []OneRecordPerIncarnation
  BY RegistryInvariant, PTL DEF IInv

\* Two principals never share a client owner.
THEOREM Agreement == Spec => []PrincipalAgreement
  BY RegistryInvariant, PTL DEF IInv

\* What Add deletes without a check carries no session and no open file.
THEOREM Stateless == Spec => []UnconfirmedIsStateless
  BY RegistryInvariant, PTL DEF IInv, StateInv

\* No step removes a client with an open file, and none but DESTROY_CLIENTID and
\* the expiry of its lease removes one with a session.
THEOREM SafeRemoval == Spec => RemovalIsSafe
<1> DEFINE A == \A i \in registered \ registered' :
                  client[i].busy = 0 /\ (client[i].sessions # {} => client[i].confirmed)
<1>1. IInv /\ [Next]_vars => [A]_vars
  <2> SUFFICES ASSUME IInv, [Next]_vars, NEW i \in registered \ registered'
               PROVE  client[i].busy = 0 /\ (client[i].sessions # {} => client[i].confirmed)
    OBVIOUS
  <2>1. /\ client[i].busy \in Nat
        /\ ~client[i].confirmed => client[i].busy = 0 /\ client[i].sessions = {}
    BY DEF IInv, StateInv, TypeOK, Client, UnconfirmedIsStateless
  <2>2. client[i].busy <= 0 \/ ~client[i].confirmed
    BY ZenonT(60) DEF Next, Request, SetClientID, ExchangeIDAdd, Add, AddUpdate, AddNew, Pending,
           SetClientIDConfirm, ExchangeIDKnown, CreateSession, CreateSessionBuild,
           DestroySession, DestroySessionRemove, DestroyClientID, RemoveClient, Renew,
           Open, OpenAddFile, OpenReturn, CloseFile, RemoveExpiredClients, Expired, Tick, vars
  <2> QED BY <2>1, <2>2
<1> QED BY <1>1, RegistryInvariant, PTL DEF Spec, RemovalIsSafe
=============================================================================
