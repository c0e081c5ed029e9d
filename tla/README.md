# A TLA+ model of nfs4go

nfs4go is an NFSv4.0/4.1/4.2 server in Go that serves a virtual file system
(`github.com/kuleuven/vfs`) to each user. This directory holds TLA+ modules
translated from its source, the TLC instances that check them, and TLAPS proofs
for every value of the constants. `PROJECT.json` maps each definition to the
lines it models and lists the runs, the hazards and the theorems.

## The system

| part | source | state | concurrency |
|---|---|---|---|
| client registry | `clients/` | records of client owners, sessions, slots | one mutex; called by every handler and a cleanup goroutine |
| server | `server.go` | worker table, wait group, listener | accept loop, one goroutine per connection, handlers |
| worker | `worker/worker.go` | reference count, discarded flag, idle timer | handlers, `autoDiscard`, one `cleanup` |
| open files | `worker/file.go` | table of files, removed files | handlers of several connections, `cleanup` |
| listers | `worker/lister.go` | open directory listings | handlers, expiry goroutine |
| attribute cache | `worker/cache.go` | attributes and path by handle | handlers, gc goroutine |
| connection | `conn.go`, `rpc.go`, `context.go` | two channels, an error | reader, proxy, dispatcher, a handler per request, writer |
| compound | `mux_v4.go` | current and saved handle, reply | one handler; touches the registry, a slot, a worker |
| slot | `mux_v4.go`, `clients/client.go` | sequence id, cached reply | handlers of several connections, no lock |
| buffers | `bufpool/` | a pool | every handler, slots |
| clock | `clock/` | cached time | a ticker |
| coding | `xdr/`, `msg/`, `attrs.go`, `bitmap4.go` | none | none |

A connection decodes calls and starts a handler for each. The handler runs a
compound: `RunSequence` finds the client in the registry and checks the slot,
then every operation gets a worker for its user from the server (`GetWorker`,
which counts the use), calls the file system and gives the worker back. A worker
that is faulty, idle, or whose user has new credentials is discarded; the last
use to end starts its cleanup, which closes the files and the file system and
releases the wait group that `Serve` waits for.

## Modules

**Creds** — `auth.Creds.Equal`. Two credentials of a user are equal when their
group lists are the same, whatever the primary group, or when the lists are about
as long and list and primary group together give the same set. The relation is
not transitive. `Clients` and `Workers` use it.

**Clients** — `clients/*.go` and the seven operations that call the registry.
`registered` is the map of `Clients`, `client` every `Client` ever made (handlers
keep pointers to removed ones), `calls` the handlers between two calls. Each
method is under the mutex and is one operator; an operation that takes the mutex
twice (EXCHANGE_ID, CREATE_SESSION, DESTROY_SESSION, OPEN) is two actions.
`RemoveExpiredClients` is a pass of the cleanup goroutine, `Tick` the clock.

**Workers** — `server.go` and `worker/worker.go`. `workers` is the table by
session and user, `inUse` and `discarded` the fields of a worker, `spawned` the
pending calls of cleanup, `wg` the wait group, `ops` the operations between
`GetWorker` and the deferred `Close`. `GetWorker` splits into reuse, new and
replace, each under the lock of the server. The loop of a connection is reduced
to open, draining and closed, or `stuck` when it never ends (`Stick`): its handler
hangs in a decoder or its peer does not read. The module is about a process that
runs; a panic, which ends it, is in `Compound` and `Conn`.

**OpenFiles** — extends `Workers` with the file tables. OPEN opens a file
(`OpenFile`) and enters it later (`AddFile`), or fails between the two; CLOSE
takes it out (`RemoveFile`) and closes it later. `OFCleanup` is `Cleanup` with
the closing of the files, `OFEndOperation` is `EndOperation`, and the other steps
of `Workers` leave the files alone.

**Slots** — `RunSequence` on one slot, and the client that uses it. The fields
of a slot have no lock, so the lookup, the check, the update, the operations and
the copy to the cache are separate steps. The client, which is external, sends
requests in order and repeats one whose answer was lost, or late if `Overlap` allows
it. `overlapped` and `uncached` are history: the requests that were in `RunSequence`
together with another one, and those whose reply a persistent session was told not
to keep.

**Compound** — `mux_v4.go` from `Handle` to the reply: authentication and
version checks, `Run`, `RunSequence`, the loop, `doOperation` with all 39
handlers, the two file handles, and the header that is rewritten at the end. Each
handler has all its early returns in their order; the file system answers with
any error of `Errors`, and the registry and the slot with any of their statuses.
Arguments that an operation leaves in the input are remembered in `unread`. The
reply is its header, the number of results and the last result. Input that ends too
early is no error: `Buf.Read` returns no bytes and no error at its end, so
`io.ReadFull` calls it for ever (`Hangs`). The only error of a decoder is the unknown
mode of a union (`DecodeFails`).

**Connection** and **Conn** — what a connection promises (requests are accepted,
answered and delivered at most once, and it is closed only when every accepted
request was answered), and the pipeline of `conn.go` that keeps it. `pc` holds the
reader, the proxy, the mux and the writer, the three channels are bounded
sequences, `handlers` the requests being handled. Every buffer of `bufpool` is in
the pool, in a hand, in a channel or with a handler. A handler may hang on a compound
that is cut short (`Hangs`), or panic (`HandlerPanics`), and the reader panics on a
message that is shorter than its own header (`ReceivePanics`); a panic ends all
goroutines (`Running`). `ImplementsConnection` is the
refinement: `life` is `open` until the proxy ends and `closed` when `HandleConn`
has closed the connection. This is the connection that `Workers` uses.

**AttrCache** — `worker/cache.go` and every operation that calls it, on a root
directory whose names stand for files. The methods of `Cache` are atomic, the
operations are not: each is split at every call of the cache and of the file
system. A copy of attributes, in the cache (`cache`) or in the hands of a handler
(`info`), says whose it is and for how many ticks it has been out of date. A
handle names an object for good, a path the object that is there now, and
operations act on paths. LOOKUPP is `LookupParent`: it takes `vfs.Base` of the path,
hence stays at the name, and asks the file system for the handle of that. SETATTR
makes the calls that its decoded list asks for, one by one. `late`, `amid` and
`outlived` are history for the properties: how long an entry was out of date when it
was stored, and which changes of its handle were under way then and since. Other
users change attributes (`Elsewhere`) and never the directory.

**Attrs** — attribute lists: bitmaps, the width of each attribute when written and
when read, the mask of a reply, and the change attribute with `MustIncrement`.

**ReadDir** — READDIR and the listers of a worker: `table` is `Worker.Listers` by
index, `idle` the age of `lastSeen`, `reader` the clients that follow cookies, with
the handler of their request. Pages are cut at any entry. The expiry goroutine, the
discard and the cleanup of the worker run beside them.

**Xdr** — the coding of messages by kinds of types, both ways, byte by byte.

`MCx` gives module `x` its model values, `xProofs` holds the theorems about it.
`AttrCache` takes what a SETATTR list decodes to as a constant, so that its theorems
hold for every decoder; `MCAttrCache` gives it the value that `Attrs` computes.

## Runs

| run | shows | size |
|---|---|---|
| `clients` | one record per incarnation of an owner; records of an owner agree on credentials; unconfirmed records carry no state; the three delete sites drop no client with open files; an abandoned client is removed | 2 ids, 2 verifiers, 3 principals of which two pairs are equal and one is not |
| `clients_inuse` | violation: see the findings | |
| `workers` | cleanup is exclusive and runs once, the wait group is exact and never leaves zero while `Serve` waits, live workers stay in the table, `Serve` returns clean; a cancelled server returns unless a connection is stuck, discarded workers are cleaned up, idle ones are released | 2 workers, 2 handlers, 1 connection |
| `openfiles_safety` | every file has exactly one owner until it is closed once; busy counts are exact; nothing is left open when `Serve` returns | 2 files, 2 clients, 2 workers, 2 handlers |
| `openfiles_seqid` | violation | real value of `MaxSlotID` |
| `slots_once` | a request is executed twice only if it overlapped with another or a persistent session kept no reply of it; without overlaps none is taken for misordered and none answered before it was executed | 4 requests modulo 3, 2 transmissions each, 2 handlers, both kinds of sessions, with and without CacheThis, overlapping copies; 1.2 million states |
| `slots_replay`, `slots_uncached` | violations | |
| `compound` | the header matches the results; only the first operation runs outside a session; unread arguments are executed only after SECINFO; PUTFH of a file that is gone ends the compound; a current handle prevents the panics of unchecked handlers | every sequence of up to 4 operations, versions 0 to 3, one error per way of treating errors |
| `conn` | a buffer has one owner; a failed write is reported although SendReplies records nil; the pipeline implements `Connection`; accepted requests are answered and the connection ends, except for a peer that stays and does not read, a handler that hangs and a panic; the reader ends unless a full channel holds it | 2 requests, channels of one place, a peer that stalls or leaves |
| `attrcache` | what the cache answers was at the path of the entry at most the timeout and the delay of its reader ago, and is what is there now if nobody changed it; what was stored before a change through a handle is gone when the change is answered | 2 files, 2 names, 2 handlers, timeout and delay of one tick, one entry and one open file at a time; 1.4 million states up to symmetry |
| `readdir` | each lister is closed exactly once, and in the end; a listing that no expiry disturbed is complete, without repetition | 2 clients, 2 listers, directories of 1 and 3 entries, batches of 2 |

Two modules hold pure coding and no state. Their facts are named assumptions
without constants, which TLC evaluates at the start of a run: those of `Attrs` in
`readdir`, whose entries carry attributes, those of `Xdr` in `conn`.

- `ReplyIsReadable`: a reply holds the supported attributes that were asked for,
  in order, each as wide as its type (all pairs of attributes).
- `SetAttrIsDecoded`: the size, mode, owner and group of a SETATTR are decoded as
  sent, although the times that come after them are misread.
- `MisreadAfterSkipped`: which replies of its own the server could not decode.
- `ChangeIdRepeats`: exactly when the change attribute survives a change.
- `RoundTrip`: what was encoded is decoded to the same value, from just as many
  bytes, a multiple of four. `TruncationIsShort`: a message that was cut
  anywhere is never taken for a message, the decoder asks for bytes after its end
  (an error of a `bufio.Reader`, a hang of a `Buf`). Both over the shapes of the
  messages of `msg/`.

Why these bounds are enough to meet the interesting cases: two records of one owner
with different verifiers are what `Add` tells apart, and the theorems cover any
number; two handlers and two workers are needed for a use to overlap with a discard
and a replacement; the sequence ids wrap around in `slots_once`, and two handlers are
what two copies of a request need to overlap; four operations are enough to set, save
and change a handle and use both. With two requests and channels of one place every
channel of a connection is full at times, and two replies share one flush. Two files
under two names give the cache a rename over another file, a link, a handle whose file
is gone and a path that leads to another file than the handle it is kept under. With
one entry in the cache at a time (`MaxEntries`, counting the entries about to be
stored) the run leaves out what two entries do to each other, and with one open file
(`MaxOpen`) two opens at once; the theorems hold for every value of both. Two listers
let an index be used again by another directory, and a client expires at the first
tick that passes it by; the theorems cover longer times, longer delays and more of
everything. `SeqMod` stands for 2^32 and is small so that the wrap is reached;
`MaxOps`, `MaxRequests`, `MaxTries`, `MaxBusy`, `MaxListers` only bound the runs.
`MaxDelay` bounds the ticks between a read of attributes and its `Put`, between which
READDIR asks the file system for the handle of every entry; the code does not bound
them, and the theorems hold for any `MaxDelay`.

Deadlock is not checked where the system stops: a server that has returned, a
client that has no request left, a compound that was answered, a connection that
was closed, a worker that was cleaned up.

### Fairness

`clients` assumes that the ticker and the cleanup goroutine keep running; both loop
for ever. `workers` assumes weak fairness of the goroutines of the server, of
`autoDiscard`, which polls, of cleanup, of the draining of a connection once the
context is cancelled, and of the end of each operation. The last is an assumption
on the environment: a call of the file system returns. An operation holds a worker
only after its arguments were decoded, so it does not hang in a decoder. That a
drained connection ends is not assumed, since it may get stuck instead, and
`ShutdownCompletes` names that case; `ConnectionEnds` of `conn` says when it ends. In
`conn`, as long as the process runs, each goroutine and each handler is weakly fair,
and a read fails once the connection is closed or the peer gone; a handler may hang
instead of going on, and nothing makes the peer send or read. `readdir` assumes that handlers end and that the clock, the
expiry goroutine and cleanup go on; a client may stop at any point. No fairness is
assumed of clients, of cancellation or of connections that are not cancelled.

## Theorems

`ClientsProofs` (assuming only `ClientsAssumption`: principals are credentials,
the modulus exceeds 1, the bounds are numbers). The inductive invariant has
`TypeOK`, `UnconfirmedIsStateless`, `OneRecordPerIncarnation` and
`PrincipalAgreement`. Agreement alone is not inductive: a record is compared with
the confirmed ones when it is added, and confirmed later. One record per
incarnation closes the gap, since the record being confirmed is then the only
unconfirmed one of its owner, and the others were confirmed before it was
compared with them. Each handler falls into one of a few classes of change
(insertion, confirmation, change of state, removal), and each class has a lemma.
`SafeRemoval` is the action property, from the same invariant.

`WorkersProofs` (assuming finite sets of workers, handlers and connections).
`CleanupIsExclusive` is not inductive without the reference count: `RefCount`
says that `inUse` is the number of operations under way on the worker, and
`CleanedUpOnce` that a cleanup has been started exactly for the workers that are
discarded and unused. The wait group is a sum of two cardinalities, and every
step changes one of them by at most one. `WaitIsFinal` proves the action property
`ZeroIsFinal`: at zero no connection is open, and only handlers of open
connections add to the group.

`OpenFilesProofs` (finite sets of files as well). `ImplementsWorkers` comes first: a
step of `OpenFiles` is a step of `Workers` or leaves its variables alone, so the
invariant of the workers is at hand. `ClosedExactlyOnce` needs to know where a file
is: `Placed` says that an open file is in one table or carried by one operation, or
else was closed once, and that a worker whose table is not empty was not cleaned up.
The last is where the life of the worker comes in: an operation that enters a file
counts in `inUse`, so cleanup has not started. Counting the files of a client by
cardinality, each step changes one of them.

`SlotsProofs` (a modulus above 2, any number of handlers, requests and transmissions,
every kind of session, with and without overlaps). `ExecutedAtMostOnce` is about the
last request as long as it is `Guarded`, that is neither overlapped nor uncached: it
has not passed the check (`Fresh`), or the slot is at its sequence id and no other copy
is past the check (`Settled`). `Invocations` says that such a request is alone in
`RunSequence`. When the next request is sent, or the request overlaps, its count is
final (`OthersOnce`). For the answers, as long as nothing has overlapped, the slot is
at the last request sent (`Taken`) or at the one before (`Pending`). The step from one
to the other is the lemma `ModSuccessor`, that the next sequence id is the successor
modulo 2^32, also where it wraps. The two exceptions are real: `slots_uncached` is a
counterexample for the second, and two copies of a request may both pass the check
before either updates the slot.

`CompoundProofs` (any set of handles, calls of any length). To `HeaderMatchesBody`
the invariant adds what the reply is before the first result and what its header
promises meanwhile (`Unanswered`, `Promised`), that a call without a session has one
operation, that arguments left unread by anything but SECINFO ended the call, and that
the answer to a handle that is gone is STALE, which is fatal. All handlers fit one scheme (`Replies`), so each has
only to show that its early returns do. `NothingAfterStale` is an action property.

`ConnProofs` (any number of requests, channels of any capacity above zero). The
invariant places each request: it is in one channel, in one hand or with one handler,
and has been accepted, answered and delivered accordingly (`Front`, `Middle`, `Back`);
`Loads` and `Unpooled` say which messages carry a
buffer and that none of these is in the pool; `Order` says which goroutine ends
before which, and `Sticky` what the writer does after an error. Hanging and panicking
handlers keep their buffers and their place. `KeepsPromise` proves the
refinement: an action of the pipeline is a step of `Connection` under the mapping, or
leaves its variables alone.

`ReadDirProofs` (any directories, readers, listers and batches). `DirInv` says that the
table has a lister at one index at most, that a lister which was opened and is not in
the table was closed once, that the table is empty after cleanup, and what each stage
of a handler knows of its lister. `ListInv` holds as long as nothing has expired: the lister at the index of a
reader's verifier is of its directory and belongs to no other reader, and what the
reader has is a prefix of the directory up to its cookie.

`AttrCacheProofs` (any files, names, handlers, timeout and delay; `None` is not a value
of the other types). An entry that `Get` may return has been out of date since it was
stored for at most its age (`Timely`), and when it was stored for no longer than its
reader had held it. `Anchors` is the other half of `BoundedStaleness`: what is not out
of date, in the cache or in the hands of a reader about to store it, is what its path
leads to. Every step that lets a name stand for another object changes the object that
was there (`Moves`), so the copies that remain up to date are of others (`Later`).
`ChangeReachesCache` needs what the handlers still have to do: `Kept` says that a handler
which an entry has outlived is at a stage that will invalidate this handle (`DueAt`), and
that the entries which SETATTR, whose invalidation comes first, finds for its file were
stored while it ran. `Follows` describes the caches that one step may leave, with a
lemma for each method of `Cache`; each action is then one of four kinds of step.

Only model-checked: the liveness properties (`AbandonedClientExpires`,
`ShutdownCompletes`, `DiscardedIsCleanedUp`, `IdleIsReleased`, `AcceptedIsAnswered`,
`ConnectionEnds`, `ReaderEnds`, `ListerIsReleased`), which rest on fairness and `ENABLED`,
and the facts of `Attrs` and `Xdr`, which are about recursive definitions. Every safety
property, action property and refinement of a passing run has a theorem.
`Workers`' type invariant is proved and therefore not part of its run, and so are the
types of `Conn`, `ReadDir` and `AttrCache`, as parts of their invariants.

## Findings

- `openfiles_seqid`: the sequence id of an OPEN is `SequenceID*MaxSlotID +
  SlotID` with 16 slots and a factor of 15, so two compounds share one, and the
  second OPEN is answered with the file of the first.
- `slots_replay`: the reply buffer of a slot is appended to and never reset, so
  a repeated request is answered with older replies in front.
- `slots_uncached`: on a persistent session a repeated request that was not to be
  cached is executed again.
- `clients_inuse`: OPEN marks its client as used only after it opened the file;
  the client may have been removed by then.

Met while modelling, and part of the model without a run of their own:

- a compound goes on after an error that is not in `FatalStatuses`, on the handle
  it had before; OPEN, COMMIT and the operations on extended attributes use a
  missing handle; SECINFO leaves its name in the input; READDIR, LINK and RENEW
  sometimes answer with the code of another operation; fatal errors of READ, WRITE
  and CLOSE do not discard the worker, while an invalid handle given to PUTFH does;
- `MustIncrement` ("makes sure that it is later than prev", `clock.go:35`) adds a
  second only if the clock is behind `prev`, and one second to the clock rather
  than to `prev`. Two changes in one second leave the change attribute, which
  counts seconds, as it was, although SETXATTR says "Make sure changeID is
  updated" (`ChangeIdRepeats`);
- the decoder of attribute lists skips attributes it has no case for without
  skipping their values, and reads the time of `A_time_modify_set` through a
  pointer, hence as a flag first; SETATTR uses neither that time nor TimeModify;
- PUTFH trusts the path of a cached entry and RENAME invalidates only directories,
  so an operation on the handle of a renamed file acts on what is at its old path,
  and GETATTR stores that again under the handle, as often as it is asked, so that
  nothing bounds it (`BoundedStaleness` is a bound for the path, not for the handle);
- a compound that is cut short hangs its handler for ever, its connection does not
  end, and `Serve` does not return; a message shorter than its own header panics;
- SETATTR invalidates before it changes anything, so a concurrent GETATTR may store
  the old attributes again; OPEN that fails after it made a file leaves the entry
  of the directory in the cache;
- a lister that expires while READDIR is about to use it makes `ListAt` fail, which
  discards the worker; index 0 is used again, so after an expiry a client may
  continue with the lister of another directory.

## Plan

1. The reply buffers of slots, which RemoveSession returns to the pool and
   RemoveClient does not, in `Conn` or `Slots`.
2. The directory changed by other users, and two entries of the cache at once, in the
   instance of `AttrCache`.

## Not modelled

The message types, their generated coders (`msg/structs_xdr.go` calls the coder of
each field in order, which `Xdr` has as a struct), the generator, logging and the
example program have no state and no decisions of their own. The virtual file
system is external: it answers with any result its interface allows; the data of
files is not modelled. Decoding of AUTH_UNIX credentials is left out; their
comparison is in `Creds`. Of the attributes, the values other than the change
attribute are left out. What recursive definitions compute (`Xdr`), liveness and
fairness are out of the reach of the prover and stay with TLC.
