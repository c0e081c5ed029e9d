------------------------------ MODULE Clients ------------------------------
(***************************************************************************)
(* The registry of NFS clients (clients/clients.go, clients/client.go) and *)
(* the operations of mux_v4.go that change it: SETCLIENTID,                *)
(* SETCLIENTID_CONFIRM, EXCHANGE_ID, CREATE_SESSION, DESTROY_SESSION,      *)
(* DESTROY_CLIENTID, RENEW, the lease refresh of SEQUENCE, the marking of  *)
(* a client as busy by OPEN and CLOSE, and the expiry goroutine.           *)
(*                                                                         *)
(* One mutex guards the registry and every Client in it, so a method of    *)
(* Clients or Client is one step.  A handler that calls two of them        *)
(* (CREATE_SESSION, DESTROY_SESSION, OPEN) holds a pointer to the Client   *)
(* in between: those handlers are processes with a program counter, and    *)
(* other steps fall between their two calls.                               *)
(*                                                                         *)
(* Random 64-bit client ids are drawn from Ids and never drawn twice, so   *)
(* an id also names the Client object a handler points to.                 *)
(***************************************************************************)
EXTENDS Creds, FiniteSets

CONSTANTS
    Ids,            \* client ids
    Names,          \* client owner names
    Verifiers,      \* client boot verifiers
    Principals,     \* the credentials requests are made with
    ConfirmValues,  \* SETCLIENTID_CONFIRM verifiers
    CacheIDs,       \* session numbers within a client
    Handlers,       \* goroutines that run an operation
    SeqMod,         \* number of CREATE_SESSION sequence ids, 2^32 in the code
    Expiration,     \* ClientExpiration, in ticks
    MaxBusy         \* bound on the open files of a client

ASSUME ClientsAssumption ==
    /\ Principals \subseteq CredsType
    /\ SeqMod \in Nat /\ SeqMod > 1
    /\ Expiration \in Nat
    /\ MaxBusy \in Nat

VARIABLES
    registered,     \* the keys of Clients.clients
    client,         \* the Client objects by id; they outlive their removal
    calls           \* handlers between their two calls, and the Client they hold

vars == <<registered, client, calls>>

SeqIDs == 0 .. SeqMod - 1

\* Ticks since lastSeen, counted up to the first value that means expired.
Ages == 0 .. Expiration + 1

Client ==
    [name : Names, verifier : Verifiers, creds : Principals,
     confirmed : BOOLEAN, confirmValue : ConfirmValues, seqID : SeqIDs,
     busy : Nat, sessions : SUBSET CacheIDs, age : Ages]

\* CREATE_SESSION before BuildSession, DESTROY_SESSION before RemoveSession, OPEN
\* before AddFile.
Ops == {"build", "remove", "open"}

issued == DOMAIN client

Running(h) == \E c \in calls : c.h = h

Held == {c.id : c \in calls}

Init ==
    /\ registered = {}
    /\ client = [i \in {} |-> i]
    /\ calls = {}
-----------------------------------------------------------------------------
\* The methods of Clients and Client, each under the one mutex.

\* lastSeen = clock.Now(), alone and with a new seqID.
Touch(c) == [c EXCEPT !.age = 0]

WithSeqID(c, seqID) == [Touch(c) EXCEPT !.seqID = seqID]

\* Faulty Confirmed: any record will do.
ConfirmedOrNot(id) == id \in registered

Confirmed(id) == id \in registered /\ client[id].confirmed

\* The confirmed records of a client owner, and its other ones.
Prev(name) == {i \in registered : client[i].confirmed /\ client[i].name = name}

Pending(name) == {i \in registered : ~client[i].confirmed /\ client[i].name = name}

\* Faulty AddUpdate: the sequence id does not wrap.
AddUpdateNoWrap(verifier, i) ==
    /\ client[i].verifier = verifier
    /\ client' = [client EXCEPT ![i] = WithSeqID(@, @.seqID + 1)]
    /\ UNCHANGED registered

\* Add on a confirmed record with the caller's verifier: an update.
AddUpdate(verifier, i) ==
    /\ client[i].verifier = verifier
    /\ \E v \in ConfirmValues :
         client' = [client EXCEPT ![i] =
                        [WithSeqID(@, (@.seqID + 1) % SeqMod) EXCEPT !.confirmValue = v]]
    /\ UNCHANGED registered

\* Faulty AddNew: the unconfirmed records of the owner stay.
AddNewKeepsPending(name, verifier, creds, id) ==
    /\ \A i \in Prev(name) : client[i].verifier # verifier
    /\ \E v \in ConfirmValues :
         client' = [i \in issued \cup {id} |->
                      IF i = id
                      THEN [name |-> name, verifier |-> verifier, creds |-> creds,
                            confirmed |-> FALSE, confirmValue |-> v, seqID |-> 1,
                            busy |-> 0, sessions |-> {}, age |-> 0]
                      ELSE client[i]]
    /\ registered' = registered \cup {id}

\* Add of a new record, which replaces the unconfirmed ones of its owner.
AddNew(name, verifier, creds, id) ==
    /\ \A i \in Prev(name) : client[i].verifier # verifier
    /\ \E v \in ConfirmValues :
         client' = [i \in issued \cup {id} |->
                      IF i = id
                      THEN [name |-> name, verifier |-> verifier, creds |-> creds,
                            confirmed |-> FALSE, confirmValue |-> v, seqID |-> 1,
                            busy |-> 0, sessions |-> {}, age |-> 0]
                      ELSE client[i]]
    /\ registered' = (registered \ Pending(name)) \cup {id}

\* Faulty Add: the credentials are not compared.
AddAnyCreds(name, verifier, creds) ==
    \/ \E i \in Prev(name) : AddUpdate(verifier, i)
    \/ \E i \in Ids \ issued : AddNew(name, verifier, creds, i)

\* Clients.Add. A confirmed record of the owner with other credentials refuses it.
Add(name, verifier, creds) ==
    /\ \A i \in Prev(name) : CredsEqual(client[i].creds, creds)
    /\ \/ \E i \in Prev(name) : AddUpdate(verifier, i)
       \/ \E i \in Ids \ issued : AddNew(name, verifier, creds, i)

\* Clients.Confirm.
Confirm(id, value, creds) ==
    /\ id \in registered
    /\ client[id].confirmValue = value
    /\ CredsEqual(client[id].creds, creds)
    /\ client' = [client EXCEPT ![id] = [Touch(@) EXCEPT !.confirmed = TRUE]]

\* Clients.Confirm41 on a confirmed record: seqID 0 starts over, the current
\* seqID is taken for a replay, a larger one moves on, a smaller one is refused.
Resume41(id, seqID) ==
    /\ client[id].confirmed
    /\ \/ /\ seqID # client[id].seqID
          /\ seqID = 0 \/ seqID > client[id].seqID
          /\ client' = [client EXCEPT ![id] = WithSeqID(@, seqID)]
       \/ /\ seqID = client[id].seqID
          /\ UNCHANGED client

\* Clients.Confirm41: the first CREATE_SESSION confirms the record.
Confirm41(id, seqID, creds) ==
    /\ id \in registered
    /\ \/ Resume41(id, seqID)
       \/ /\ ~client[id].confirmed
          /\ client[id].seqID = seqID
          /\ CredsEqual(client[id].creds, creds)
          /\ client' = [client EXCEPT ![id] = [Touch(@) EXCEPT !.confirmed = TRUE]]

\* Clients.Get when it finds the client.
Get(id) ==
    /\ Confirmed(id)
    /\ client' = [client EXCEPT ![id] = Touch(@)]

\* Clients.GetByName when it finds the client.
GetByName(name, verifier, creds) ==
    \E i \in Prev(name) :
        /\ client[i].verifier = verifier
        /\ CredsEqual(client[i].creds, creds)
        /\ Get(i)

\* Faulty RemoveClient: open files do not matter.
RemoveClientBusy(id) ==
    /\ Confirmed(id)
    /\ registered' = registered \ {id}

\* Clients.RemoveClient when it does remove.
RemoveClient(id) ==
    /\ Confirmed(id)
    /\ client[id].busy <= 0
    /\ registered' = registered \ {id}

\* Faulty Expired: records that were never confirmed are passed over.
ExpiredConfirmed == {i \in registered : Confirmed(i) /\ client[i].age > Expiration}

Expired == {i \in registered : client[i].age > Expiration /\ client[i].busy <= 0}

\* Client.BuildSession and Client.RemoveSession, on the Client a handler holds.
BuildSession(id) ==
    \E s \in CacheIDs \ client[id].sessions :
        client' = [client EXCEPT ![id].sessions = @ \cup {s}]

RemoveSession(id) ==
    \E s \in CacheIDs :
        client' = [client EXCEPT ![id].sessions = @ \ {s}]
-----------------------------------------------------------------------------
\* The handlers. An error reply that changes nothing is a stuttering step.

\* A handler keeps the pointer it got and goes on to its second call.
Hold(h, op, id) ==
    /\ ~Running(h)
    /\ calls' = calls \cup {[h |-> h, op |-> op, id |-> id]}

Release(c) == calls' = calls \ {c}

SetClientID(name, verifier, creds) ==
    /\ Add(name, verifier, creds)
    /\ UNCHANGED calls

SetClientIDConfirm(id, value, creds) ==
    /\ Confirm(id, value, creds)
    /\ UNCHANGED <<registered, calls>>

\* EXCHANGE_ID for a known client. After a miss it calls Add under a second lock:
\* by then the miss may be out of date, so that call is ExchangeIDAdd, unguarded.
ExchangeIDKnown(name, verifier, creds) ==
    /\ GetByName(name, verifier, creds)
    /\ UNCHANGED <<registered, calls>>

ExchangeIDAdd(name, verifier, creds) ==
    /\ Add(name, verifier, creds)
    /\ UNCHANGED calls

CreateSession(h, id, seqID, creds) ==
    /\ Confirm41(id, seqID, creds)
    /\ Hold(h, "build", id)
    /\ UNCHANGED registered

CreateSessionBuild(c) ==
    /\ c.op = "build"
    /\ BuildSession(c.id)
    /\ Release(c)
    /\ UNCHANGED registered

DestroySession(h, id) ==
    /\ Get(id)
    /\ Hold(h, "remove", id)
    /\ UNCHANGED registered

DestroySessionRemove(c) ==
    /\ c.op = "remove"
    /\ RemoveSession(c.id)
    /\ Release(c)
    /\ UNCHANGED registered

DestroyClientID(id) ==
    /\ RemoveClient(id)
    /\ UNCHANGED <<client, calls>>

\* RENEW, and SEQUENCE on its way to the slot.
Renew(id) ==
    /\ Get(id)
    /\ UNCHANGED <<registered, calls>>

Open(h, id) ==
    /\ Get(id)
    /\ Hold(h, "open", id)
    /\ UNCHANGED registered

\* OPEN reaches AddFile, which marks the client busy.
OpenAddFile(c) ==
    /\ c.op = "open"
    /\ client[c.id].busy < MaxBusy
    /\ client' = [client EXCEPT ![c.id].busy = @ + 1]
    /\ Release(c)
    /\ UNCHANGED registered

\* OPEN answers with the file it already has, or with an error.
OpenReturn(c) ==
    /\ c.op = "open"
    /\ Release(c)
    /\ UNCHANGED <<registered, client>>

\* RemoveFile of CLOSE, or the cleanup of the worker that holds the file.
CloseFile(id) ==
    /\ id \in issued
    /\ client[id].busy > 0
    /\ client' = [client EXCEPT ![id].busy = @ - 1]
    /\ UNCHANGED <<registered, calls>>

\* One pass of the cleanup goroutine.
RemoveExpiredClients ==
    /\ registered' = registered \ Expired
    /\ UNCHANGED <<client, calls>>

\* Time passes on the cached clock.
Tick ==
    /\ client' = [i \in issued |->
                    [client[i] EXCEPT !.age = IF @ > Expiration THEN @ ELSE @ + 1]]
    /\ UNCHANGED <<registered, calls>>

Request ==
    \/ \E n \in Names, v \in Verifiers, c \in Principals :
          \/ SetClientID(n, v, c)
          \/ ExchangeIDKnown(n, v, c)
          \/ ExchangeIDAdd(n, v, c)
    \/ \E id \in Ids :
          \/ \E v \in ConfirmValues, c \in Principals : SetClientIDConfirm(id, v, c)
          \/ \E h \in Handlers, s \in SeqIDs, c \in Principals : CreateSession(h, id, s, c)
          \/ \E h \in Handlers : DestroySession(h, id) \/ Open(h, id)
          \/ DestroyClientID(id)
          \/ Renew(id)
          \/ CloseFile(id)
    \/ \E c \in calls :
          \/ CreateSessionBuild(c)
          \/ DestroySessionRemove(c)
          \/ OpenAddFile(c)
          \/ OpenReturn(c)

Next == Request \/ RemoveExpiredClients \/ Tick

Spec == Init /\ [][Next]_vars

\* The clock ticker and the cleanup goroutine never stop.
FairSpec == Spec /\ WF_vars(Tick) /\ WF_vars(RemoveExpiredClients)
-----------------------------------------------------------------------------
\* Every variable has its type, and handlers hold Clients that were created.
TypeOK ==
    /\ registered \subseteq issued
    /\ issued \subseteq Ids
    /\ client \in [issued -> Client]
    /\ calls \subseteq [h : Handlers, op : Ops, id : issued]

\* A client owner has at most one unconfirmed record, and at most one record per
\* boot verifier, whatever EXCHANGE_ID and SETCLIENTID calls interleave (Add
\* searches and deletes in two loops over a map that also holds older confirmed
\* records of the same owner).
OneRecordPerIncarnation ==
    \A i, j \in registered :
        /\ client[i].name = client[j].name
        /\ \/ client[i].verifier = client[j].verifier
           \/ ~client[i].confirmed /\ ~client[j].confirmed
        => i = j

\* No two principals share a client owner: a confirmed record agrees on
\* credentials with every other record of its owner, although Creds.Equal is not
\* transitive and confirmation happens long after the check in Add.
PrincipalAgreement ==
    \A i, j \in registered :
        client[i].name = client[j].name /\ client[i].confirmed
            => CredsEqual(client[i].creds, client[j].creds)

\* An unconfirmed record, the kind Add deletes without looking at busy or at its
\* sessions, carries no state: no session, no open file, and no handler that is
\* about to give it one.
UnconfirmedIsStateless ==
    \A i \in registered : ~client[i].confirmed =>
        client[i].sessions = {} /\ client[i].busy = 0 /\ i \notin Held

\* Whichever of the three delete sites removes a client, it has no open file; and
\* it has no session unless it was confirmed, so that no other request of the
\* owner (Add) takes a session away.
RemovalIsSafe ==
    [][\A i \in registered \ registered' :
          client[i].busy = 0 /\ (client[i].sessions # {} => client[i].confirmed)]_vars

\* A client that no longer renews its lease and has no open file is removed by
\* the cleanup goroutine.
AbandonedClientExpires ==
    \A id \in Ids :
        (id \in registered /\ client[id].age > 0)
            ~> (id \notin registered \/ client[id].age = 0 \/ client[id].busy > 0)

\* "Mark that the client is in use by a file" (clients/client.go:40): a client
\* that is in use stays registered.
ClientInUseIsRegistered ==
    \A i \in issued : client[i].busy > 0 => i \in registered
=============================================================================
