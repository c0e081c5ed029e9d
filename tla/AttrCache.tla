----------------------------- MODULE AttrCache -----------------------------
(***************************************************************************)
(* The attribute cache of a worker (worker/cache.go) and the operations    *)
(* that fill it, use it and invalidate it (mux_v4.go), on a small          *)
(* directory.                                                              *)
(*                                                                         *)
(* The methods of Cache are atomic, under its lock, but an operation is    *)
(* not: it calls the cache and the file system in turn, so handlers        *)
(* interleave between Get, Lstat, Put, the changes and Invalidate.         *)
(*                                                                         *)
(* Attributes are abstracted to what staleness tells apart: whose they are *)
(* and for how many ticks they have been out of date.                      *)
(***************************************************************************)
EXTENDS Integers, Sequences, FiniteSets

CONSTANTS
  Files,        \* the objects that names may stand for, other than the root
  Names,        \* the names in the root directory
  Root,         \* the root directory: its handle and its path
  None,         \* no object, no entry, no handle
  Handlers,     \* compounds that run concurrently
  Timeout,      \* Cache.Timeout, in ticks
  MaxDelay,     \* bound on the ticks between a read of attributes and its Put
  MaxEntries,   \* bound on the handles that are cached or being read
  MaxOpen,      \* bound on the files that are open, being opened or closed
  Asks,         \* the attribute lists that SETATTR is called with
  Decoded       \* what decodeFAttrs4 makes of each: the fields given, or a failure

ASSUME AttrCacheAssumption ==
  /\ Timeout \in Nat /\ MaxDelay \in Nat /\ MaxEntries \in Nat /\ MaxOpen \in Nat
  /\ Root \notin Files \cup Names
  /\ None \notin Files \cup Names \cup {Root}
  /\ Decoded \in [Asks -> [failed : BOOLEAN,
                           given : SUBSET {"mode", "owner", "owner_group", "size"}]]

VARIABLES
  tree,         \* the directory: the object of each name (external)
  cache,        \* Cache.cache, by handle
  pc,           \* where each handler is in its operation
  cur,          \* Compound.CurrentHandle, at first set by PUTROOTFH
  target,       \* the handle and path that the operation works on
  info,         \* the attributes that a handler has read and not yet stored
  held,         \* for how many ticks it has held them
  todo,         \* the calls that a SETATTR still has to make
  files         \* the open files, each with the handle it is entered under

vars == <<tree, cache, pc, cur, target, info, held, todo, files>>

----------------------------------------------------------------------------

Objects == Files \cup {Root}

Current == -1                        \* attributes that are not out of date

Cap == Timeout + MaxDelay + 1        \* longer than any answer may be stale

Info == [of: Objects, since: Current..Cap]

\* A vfs.FileInfo read now from object o.
Read(o) == [of |-> o, since |-> Current]

FileHandle == [handle: Objects, path: Names \cup {Root}]

RootFH == [handle |-> Root, path |-> Root]

(* The object at a path, as the file system resolves it.  A handle names   *)
(* an object for good, a path the object that is there now.                *)
Resolve(p) == IF p = Root THEN Root ELSE tree[p]

(* A stored entry.  late, amid and outlived are history: for how long it   *)
(* was out of date when it was stored, the handlers that were inside a     *)
(* change of the file then, and those that have changed the file in an     *)
(* operation begun afterwards.                                             *)
Entry ==
  [path: Names \cup {Root}, fi: Info, age: 0..(Timeout + 1), late: 0..Cap,
   amid: SUBSET Handlers, outlived: SUBSET Handlers]

ASSUME NoneAssumption == None \notin FileHandle /\ None \notin Info /\ None \notin Entry

Idle(i) == pc[i] = "idle"

InRoot(i) == cur[i].path = Root

\* Handler i is inside a change of the file with handle k.
Changing(i, k) ==
  \/ /\ pc[i] \in {"apply", "xset", "xtimes", "invalidate", "created"}
     /\ target[i].handle = k
  \/ pc[i] \in {"chmod", "create"} /\ k = Root

Init ==
  /\ tree \in [Names -> Files \cup {None}]
  /\ \A m, n \in Names : tree[m] = tree[n] /\ tree[m] # None => m = n
  /\ cache = [k \in Objects |-> None]
  /\ pc = [i \in Handlers |-> "idle"]
  /\ cur = [i \in Handlers |-> RootFH]
  /\ target = [i \in Handlers |-> None]
  /\ info = [i \in Handlers |-> None]
  /\ held = [i \in Handlers |-> 0]
  /\ todo = [i \in Handlers |-> <<>>]
  /\ files = {}

----------------------------------------------------------------------------
(* Cache *)

\* Variant of Cached: Get relies on gc to drop what is too old.
CachedUntilCollected(k) == cache[k] # None

\* Get: an entry older than the timeout is not used, even if gc left it.
Cached(k) == cache[k] # None /\ cache[k].age <= Timeout

Put(c, k, p, fi) ==
  [c EXCEPT ![k] = [path |-> p, fi |-> fi, age |-> 0,
                    late |-> IF fi.since = Current THEN 0 ELSE fi.since,
                    amid |-> {j \in Handlers : Changing(j, k)}, outlived |-> {}]]

Invalidate(c, k) == [c EXCEPT ![k] = None]

\* A pass of gc.
Gc ==
  /\ \E k \in Objects : cache[k] # None /\ ~Cached(k)
  /\ cache' = [k \in Objects |-> IF Cached(k) THEN cache[k] ELSE None]
  /\ UNCHANGED <<tree, pc, cur, target, info, held, todo, files>>

----------------------------------------------------------------------------
(* What the steps of an operation do to the copies of attributes *)

Outdate(fi, O) ==
  IF fi # None /\ fi.of \in O /\ fi.since = Current
  THEN [fi EXCEPT !.since = 0] ELSE fi

(* Handler i changes the attributes of the objects O; the cache must not   *)
(* go on with what it held of those in R.                                  *)
Changed(i, O, R) ==
  [k \in Objects |->
     IF cache[k] = None THEN None
     ELSE [cache[k] EXCEPT
             !.fi = Outdate(@, O),
             !.outlived = IF k \in R /\ i \notin cache[k].amid
                          THEN @ \cup {i} ELSE @]]

\* The copies that handlers hold are out of date as well.
OutdatedInfo(O) == [j \in Handlers |-> Outdate(info[j], O)]

(* The operation of handler i answers, with cache c and held copies f.     *)
Return(i, c, f) ==
  /\ cache' = [k \in Objects |->
                 IF c[k] = None THEN None ELSE [c[k] EXCEPT !.amid = @ \ {i}]]
  /\ pc' = [pc EXCEPT ![i] = "idle"]
  /\ target' = [target EXCEPT ![i] = None]
  /\ info' = [f EXCEPT ![i] = None]
  /\ held' = [held EXCEPT ![i] = 0]
  /\ todo' = [todo EXCEPT ![i] = <<>>]

\* It goes on at step s.
Goto(i, s) == pc' = [pc EXCEPT ![i] = s]

\* A call of the file system fails before it has changed anything.
CallFails(i) ==
  /\ pc[i] \in {"path", "lstat", "handle", "apply", "xset"}
  /\ Return(i, cache, info)
  /\ UNCHANGED <<tree, cur, files>>

----------------------------------------------------------------------------
(* Setting the current handle *)

\* PUTROOTFH and PUTPUBFH.
PutRootFH(i) ==
  /\ Idle(i)
  /\ cur' = [cur EXCEPT ![i] = RootFH]
  /\ UNCHANGED <<tree, cache, pc, target, info, held, todo, files>>

\* PUTFH takes the path of a cached entry,
PutFHCached(i, k) ==
  /\ Idle(i)
  /\ Cached(k)
  /\ cur' = [cur EXCEPT ![i] = [handle |-> k, path |-> cache[k].path]]
  /\ UNCHANGED <<tree, cache, pc, target, info, held, todo, files>>

\* or asks the file system, which knows a path of every object that has one.
PutFHMiss(i, k) ==
  /\ Idle(i)
  /\ ~Cached(k)
  /\ Goto(i, "path")
  /\ target' = [target EXCEPT ![i] = [handle |-> k, path |-> Root]]
  /\ UNCHANGED <<tree, cache, cur, info, held, todo, files>>

PutFHPath(i) ==
  /\ pc[i] = "path"
  /\ \E p \in Names \cup {Root} :
       /\ Resolve(p) = target[i].handle
       /\ cur' = [cur EXCEPT ![i] = [handle |-> target[i].handle, path |-> p]]
  /\ Return(i, cache, info)
  /\ UNCHANGED <<tree, files>>

(* LOOKUPP asks for the handle of vfs.Base of the current path: the last   *)
(* name of the path, and not the directory that it is in.                  *)
LookupParent(i) ==
  /\ Idle(i)
  /\ ~InRoot(i)
  /\ tree[cur[i].path] # None
  /\ cur' = [cur EXCEPT ![i] = [handle |-> tree[cur[i].path], path |-> cur[i].path]]
  /\ UNCHANGED <<tree, cache, pc, target, info, held, todo, files>>

Lookup(i, n) ==
  /\ Idle(i)
  /\ InRoot(i)
  /\ tree[n] # None
  /\ cur' = [cur EXCEPT ![i] = [handle |-> tree[n], path |-> n]]
  /\ UNCHANGED <<tree, cache, pc, target, info, held, todo, files>>

----------------------------------------------------------------------------
(* Reading attributes: GETATTR, ACCESS, VERIFY, NVERIFY, GETXATTR and      *)
(* LISTXATTRS answer from the cache, which changes nothing, or else read   *)
(* the attributes at the current path and store them.                      *)

Room(k) ==
  LET readers == {j \in Handlers : pc[j] \in {"lstat", "put"}} IN
  Cardinality({x \in Objects : cache[x] # None} \cup {target[j].handle : j \in readers}
                \cup {k}) <= MaxEntries

GetAttr(i) ==
  /\ Idle(i)
  /\ ~Cached(cur[i].handle)
  /\ Room(cur[i].handle)
  /\ Goto(i, "lstat")
  /\ target' = [target EXCEPT ![i] = cur[i]]
  /\ UNCHANGED <<tree, cache, cur, info, held, todo, files>>

Lstat(i) ==
  /\ pc[i] = "lstat"
  /\ Resolve(target[i].path) # None
  /\ info' = [info EXCEPT ![i] = Read(Resolve(target[i].path))]
  /\ Goto(i, "put")
  /\ UNCHANGED <<tree, cache, cur, target, held, todo, files>>

PutEntry(i) ==
  /\ pc[i] = "put"
  /\ Return(i, Put(cache, target[i].handle, target[i].path, info[i]), info)
  /\ UNCHANGED <<tree, cur, files>>

(* READDIR: ListAt returns the attributes of an entry, its handle is       *)
(* looked up by name afterwards, and both are stored.  One entry stands    *)
(* for each of the entries of the batch.                                   *)
ReadDir(i, n) ==
  /\ Idle(i)
  /\ InRoot(i)
  /\ tree[n] # None
  /\ info' = [info EXCEPT ![i] = Read(tree[n])]
  /\ target' = [target EXCEPT ![i] = [handle |-> Root, path |-> n]]
  /\ Goto(i, "handle")
  /\ UNCHANGED <<tree, cache, cur, held, todo, files>>

ReadDirHandle(i) ==
  /\ pc[i] = "handle"
  /\ Room(Resolve(target[i].path))
  /\ Resolve(target[i].path) # None
  /\ target' = [target EXCEPT ![i].handle = Resolve(target[i].path)]
  /\ Goto(i, "put")
  /\ UNCHANGED <<tree, cache, cur, info, held, todo, files>>

----------------------------------------------------------------------------
(* Changing attributes *)

(* SETATTR invalidates first, then decodes its attributes and makes the    *)
(* calls that they ask for, in this order; it always sets the times.  It   *)
(* stops at the first call that fails.                                     *)
SetAttrCalls(decoded) ==
  (IF "mode" \in decoded.given THEN <<"chmod">> ELSE <<>>)
    \o (IF {"owner", "owner_group"} \cap decoded.given # {} THEN <<"chown">> ELSE <<>>)
    \o (IF "size" \in decoded.given THEN <<"truncate">> ELSE <<>>)
    \o <<"chtimes">>

\* Variant of SetAttr: the entry is left in the cache.
SetAttrKeepsEntry(i, attrs) ==
  /\ Idle(i)
  /\ ~Decoded[attrs].failed
  /\ target' = [target EXCEPT ![i] = cur[i]]
  /\ todo' = [todo EXCEPT ![i] = SetAttrCalls(Decoded[attrs])]
  /\ Goto(i, "apply")
  /\ UNCHANGED <<tree, cache, cur, info, held, files>>

SetAttr(i, attrs) ==
  LET decoded == Decoded[attrs] IN
  /\ Idle(i)
  /\ cache' = Invalidate(cache, cur[i].handle)
  /\ \/ /\ decoded.failed
        /\ UNCHANGED <<pc, target, todo>>
     \/ /\ ~decoded.failed
        /\ target' = [target EXCEPT ![i] = cur[i]]
        /\ todo' = [todo EXCEPT ![i] = SetAttrCalls(decoded)]
        /\ Goto(i, "apply")
  /\ UNCHANGED <<tree, cur, info, held, files>>

SetAttrApply(i) ==
  LET o == Resolve(target[i].path)
      c == Changed(i, {o}, {o} \cap {target[i].handle}) IN
  /\ pc[i] = "apply"
  /\ o # None
  /\ \/ /\ Len(todo[i]) > 1
        /\ cache' = c
        /\ info' = OutdatedInfo({o})
        /\ todo' = [todo EXCEPT ![i] = Tail(@)]
        /\ UNCHANGED <<pc, target, held>>
     \/ /\ Len(todo[i]) = 1
        /\ Return(i, c, OutdatedInfo({o}))
  /\ UNCHANGED <<tree, cur, files>>

(* SETXATTR and REMOVEXATTR read the times, change the attribute, set the  *)
(* times (a failure is ignored) and invalidate.                            *)
SetXAttr(i) ==
  /\ Idle(i)
  /\ Resolve(cur[i].path) # None
  /\ target' = [target EXCEPT ![i] = cur[i]]
  /\ Goto(i, "xset")
  /\ UNCHANGED <<tree, cache, cur, info, held, todo, files>>

SetExtendedAttr(i) ==
  LET o == Resolve(target[i].path) IN
  /\ pc[i] = "xset"
  /\ o # None
  /\ cache' = Changed(i, {o}, {o} \cap {target[i].handle})
  /\ info' = OutdatedInfo({o})
  /\ Goto(i, "xtimes")
  /\ UNCHANGED <<tree, cur, target, held, todo, files>>

SetXAttrTimes(i) ==
  LET o == Resolve(target[i].path) IN
  /\ pc[i] = "xtimes"
  /\ \E O \in {{}, {o} \ {None}} :
       /\ cache' = Changed(i, O, O \cap {target[i].handle})
       /\ info' = OutdatedInfo(O)
  /\ Goto(i, "invalidate")
  /\ UNCHANGED <<tree, cur, target, held, todo, files>>

\* The last step of several operations: the handle in target is invalidated.
InvalidateTarget(i) ==
  /\ pc[i] = "invalidate"
  /\ Return(i, Invalidate(cache, target[i].handle), info)
  /\ UNCHANGED <<tree, cur, files>>

Commit(i) ==
  /\ Idle(i)
  /\ cache' = Invalidate(cache, cur[i].handle)
  /\ UNCHANGED <<tree, pc, cur, target, info, held, todo, files>>

----------------------------------------------------------------------------
(* The directory *)

\* An object that nothing refers to: what a new file is.
Unused(o) ==
  /\ \A n \in Names : tree[n] # o
  /\ \A k \in Objects : cache[k] # None => k # o /\ cache[k].fi.of # o
  /\ \A f \in files : o \notin {f.obj, f.handle}
  /\ \A i \in Handlers :
       /\ cur[i].handle # o
       /\ target[i] # None => target[i].handle # o
       /\ info[i] # None => info[i].of # o

(* One call of the file system changes the directory and the objects O,    *)
(* then the operation goes on at step s; RENAME, REMOVE and LINK end with  *)
(* the invalidation of the directory alone.                                *)
DirCall(i, t, O, s, p) ==
  /\ tree' = t
  /\ cache' = Changed(i, O \cup {Root}, {Root})
  /\ info' = OutdatedInfo(O \cup {Root})
  /\ target' = [target EXCEPT ![i] = [handle |-> Root, path |-> p]]
  /\ Goto(i, s)
  /\ UNCHANGED <<cur, held, todo, files>>

\* CREATE makes a directory or a symbolic link,
Create(i, n, o) ==
  /\ Idle(i) /\ InRoot(i)
  /\ tree[n] = None /\ Unused(o)
  /\ DirCall(i, [tree EXCEPT ![n] = o], {}, "created", n)

\* invalidates the parent and looks up the new handle.
CreateInvalidate(i) ==
  /\ pc[i] = "created"
  /\ cache' = Invalidate(cache, target[i].handle)
  /\ Goto(i, "chandle")
  /\ UNCHANGED <<tree, cur, target, info, held, todo, files>>

CreateHandle(i) ==
  LET o == Resolve(target[i].path) IN
  /\ pc[i] = "chandle"
  /\ cur' = [cur EXCEPT ![i] = IF o = None THEN @
                               ELSE [handle |-> o, path |-> target[i].path]]
  /\ Return(i, cache, info)
  /\ UNCHANGED <<tree, files>>

Remove(i, n) ==
  /\ Idle(i) /\ InRoot(i)
  /\ tree[n] # None
  /\ DirCall(i, [tree EXCEPT ![n] = None], {tree[n]}, "invalidate", Root)

\* A name that stands for the object already is left out: nothing changes.
Rename(i, m, n) ==
  /\ Idle(i) /\ InRoot(i)
  /\ tree[m] # None /\ tree[m] # tree[n]
  /\ DirCall(i, [tree EXCEPT ![m] = None, ![n] = tree[m]],
             {tree[m], tree[n]} \ {None}, "invalidate", Root)

Link(i, m, n) ==
  /\ Idle(i) /\ InRoot(i)
  /\ tree[m] # None /\ tree[n] = None
  /\ DirCall(i, [tree EXCEPT ![n] = tree[m]], {tree[m]}, "invalidate", Root)

----------------------------------------------------------------------------
(* Open files *)

MayOpen ==
  Cardinality(files)
    + Cardinality({i \in Handlers : pc[i] \in {"chmod", "create", "write", "claim", "close"}})
    < MaxOpen

(* OPEN for writing of a name, with or without create, or of the current   *)
(* handle ("claim"): the file system opens what is at the path, or makes   *)
(* it; an existing file is not truncated, since O_TRUNC goes with O_EXCL.  *)
(* "chmod" is a create that found nothing when it looked first; another    *)
(* handler may have made the file since.                                   *)
OpenExisting(i, n, how) ==
  /\ Idle(i) /\ MayOpen
  /\ tree[n] # None
  /\ IF how = "claim" THEN cur[i].path = n ELSE InRoot(i)
  /\ target' = [target EXCEPT ![i] = [handle |-> tree[n], path |-> n]]
  /\ Goto(i, how)
  /\ UNCHANGED <<tree, cache, cur, info, held, todo, files>>

OpenNew(i, n, o) ==
  /\ Idle(i) /\ InRoot(i) /\ MayOpen
  /\ tree[n] = None /\ Unused(o)
  /\ tree' = [tree EXCEPT ![n] = o]
  /\ cache' = Changed(i, {Root}, {Root})
  /\ info' = OutdatedInfo({Root})
  /\ target' = [target EXCEPT ![i] = [handle |-> o, path |-> n]]
  /\ \E how \in {"chmod", "create"} : Goto(i, how)
  /\ UNCHANGED <<cur, held, todo, files>>

\* A new write-only file gets its mode afterwards; a failure is ignored.
OpenChmod(i) ==
  LET o == Resolve(target[i].path) IN
  /\ pc[i] = "chmod"
  /\ \E O \in {{}, {o} \ {None}} :
       /\ cache' = Changed(i, O, {})
       /\ info' = OutdatedInfo(O)
  /\ Goto(i, "create")
  /\ UNCHANGED <<tree, cur, target, held, todo, files>>

(* Then the handle of the path is looked up, unless it is the current one. *)
(* With create the directory is invalidated, else the handle; the file is  *)
(* entered under the handle.                                               *)
OpenHandle(i) ==
  LET k == IF pc[i] = "claim" THEN cur[i].handle ELSE Resolve(target[i].path) IN
  /\ pc[i] \in {"create", "write", "claim"}
  /\ k # None
  /\ files' = files \cup {[obj |-> target[i].handle, handle |-> k]}
  /\ cur' = [cur EXCEPT ![i] = [handle |-> k, path |-> target[i].path]]
  /\ Return(i, Invalidate(cache, IF pc[i] = "create" THEN cur[i].handle ELSE k),
            info)
  /\ UNCHANGED tree

(* If that fails the file is closed again.  The directory that a new file  *)
(* was made in is not invalidated: the operation answers with an error.    *)
OpenFails(i) ==
  /\ pc[i] \in {"create", "write"}
  /\ Return(i, [k \in Objects |->
                  IF cache[k] = None THEN None
                  ELSE [cache[k] EXCEPT !.outlived = @ \ {i}]], info)
  /\ UNCHANGED <<tree, cur, files>>

(* WRITE, on the handle that the file is entered under, goes to the object *)
(* that was opened.  Only FILE_SYNC4 invalidates, and not after an error. *)
WriteUnstable(i, f) ==
  /\ Idle(i)
  /\ f.handle = cur[i].handle
  /\ cache' = Changed(i, {f.obj}, {})
  /\ info' = OutdatedInfo({f.obj})
  /\ UNCHANGED <<tree, pc, cur, target, held, todo, files>>

WriteStable(i, f) ==
  /\ Idle(i)
  /\ f.handle = cur[i].handle
  /\ cache' = Changed(i, {f.obj}, {f.obj} \cap {f.handle})
  /\ info' = OutdatedInfo({f.obj})
  /\ target' = [target EXCEPT ![i] = [handle |-> f.handle, path |-> Root]]
  /\ Goto(i, "invalidate")
  /\ UNCHANGED <<tree, cur, held, todo, files>>

\* CLOSE takes the file out of the table and invalidates,
Close(i, f) ==
  /\ Idle(i)
  /\ files' = files \ {f}
  /\ cache' = Invalidate(cache, f.handle)
  /\ target' = [target EXCEPT ![i] = [handle |-> f.obj, path |-> Root]]
  /\ Goto(i, "close")
  /\ UNCHANGED <<tree, cur, info, held, todo>>

\* then closes it, which may be when the file system writes buffered data.
CloseFile(i) ==
  LET o == target[i].handle IN
  /\ pc[i] = "close"
  /\ \E O \in {{}, {o}} : Return(i, Changed(i, O, {}), OutdatedInfo(O))
  /\ UNCHANGED <<tree, cur, files>>

----------------------------------------------------------------------------
(* Around the worker *)

\* Another user, whose worker has a cache of its own, changes a file.
Elsewhere(o) ==
  /\ cache' = [k \in Objects |->
                 IF cache[k] = None THEN None
                 ELSE [cache[k] EXCEPT !.fi = Outdate(@, {o})]]
  /\ cache' # cache
  /\ info' = OutdatedInfo({o})
  /\ UNCHANGED <<tree, pc, cur, target, held, todo, files>>

Older(fi) ==
  IF fi = None \/ fi.since \in {Current, Cap} THEN fi
  ELSE [fi EXCEPT !.since = @ + 1]

(* An entry past the timeout is not returned by Get: its attributes are    *)
(* forgotten and count as out of date.                                     *)
Expired(e) ==
  [e EXCEPT !.fi = [of |-> Root, since |-> Cap], !.age = Timeout + 1, !.late = 0]

(* The clock ticks, also while a handler holds what it has read: READDIR   *)
(* asks for the handle of every entry before it stores the attributes that *)
(* ListAt gave it.  MaxDelay bounds the count of those ticks.              *)
Tick ==
  /\ \A i \in Handlers : info[i] # None => held[i] < MaxDelay
  /\ cache' = [k \in Objects |->
                 IF cache[k] = None THEN None
                 ELSE IF cache[k].age < Timeout
                 THEN [cache[k] EXCEPT !.fi = Older(@), !.age = @ + 1]
                 ELSE Expired(cache[k])]
  /\ info' = [i \in Handlers |-> Older(info[i])]
  /\ held' = [i \in Handlers |-> IF info[i] = None THEN 0 ELSE held[i] + 1]
  /\ UNCHANGED <<tree, pc, cur, target, todo, files>>

SetCurrent(i) ==
  \/ PutRootFH(i) \/ LookupParent(i)
  \/ \E k \in Objects : PutFHCached(i, k) \/ PutFHMiss(i, k)
  \/ PutFHPath(i)
  \/ \E n \in Names : Lookup(i, n)

ReadAttributes(i) ==
  GetAttr(i) \/ Lstat(i) \/ PutEntry(i) \/ ReadDirHandle(i)
    \/ \E n \in Names : ReadDir(i, n)

ChangeAttributes(i) ==
  \/ \E attrs \in Asks : SetAttr(i, attrs)
  \/ SetAttrApply(i)
  \/ SetXAttr(i) \/ SetExtendedAttr(i) \/ SetXAttrTimes(i)
  \/ InvalidateTarget(i) \/ Commit(i)

ChangeDirectory(i) ==
  \/ \E n \in Names :
       \/ Remove(i, n)
       \/ \E o \in Files : Create(i, n, o)
       \/ \E m \in Names : Rename(i, m, n) \/ Link(i, m, n)
  \/ CreateInvalidate(i) \/ CreateHandle(i)

UseFile(i) ==
  \/ \E n \in Names :
       \/ \E how \in {"chmod", "create", "write", "claim"} : OpenExisting(i, n, how)
       \/ \E o \in Files : OpenNew(i, n, o)
  \/ OpenChmod(i) \/ OpenHandle(i) \/ OpenFails(i)
  \/ \E f \in files : WriteUnstable(i, f) \/ WriteStable(i, f) \/ Close(i, f)
  \/ CloseFile(i)

Next ==
  \/ \E i \in Handlers :
       \/ SetCurrent(i) \/ ReadAttributes(i) \/ ChangeAttributes(i)
       \/ ChangeDirectory(i) \/ UseFile(i) \/ CallFails(i)
  \/ \E o \in Objects : Elsewhere(o)
  \/ Gc \/ Tick

Spec == Init /\ [][Next]_vars

----------------------------------------------------------------------------

(* What Get returns under a handle was at the entry's path, as it says, at *)
(* most the timeout and the delay of the operation that stored it ago: it  *)
(* has been out of date for at most the timeout longer than when it was    *)
(* stored, then for no longer than its reader had held it, and what is not *)
(* out of date is what the path leads to now.  So it is whatever the       *)
(* interleaving of Lstat, ListAt, Put, Invalidate and the changes, and     *)
(* although WRITE, LINK and other users change files without invalidating  *)
(* them.  The bound is for the path.  It says nothing of the handle: after *)
(* a RENAME or REMOVE the path may lead to another file, whose attributes  *)
(* GETATTR then stores under the old handle, with no bound in time.        *)
BoundedStaleness ==
  /\ \A k \in Objects : Cached(k) =>
       /\ cache[k].fi.since <= Timeout + cache[k].late
       /\ cache[k].fi.since = Current => Resolve(cache[k].path) = cache[k].fi.of
  /\ \A i \in Handlers : info[i] # None => info[i].since <= held[i]

(* Once SETATTR (complete or stopped half-way), SETXATTR, a stable WRITE   *)
(* or, for the directory, CREATE, RENAME, REMOVE, LINK or a successful     *)
(* OPEN has answered, nothing is left in the cache that was stored before  *)
(* the operation began about the file that it changed through its handle.  *)
ChangeReachesCache ==
  \A k \in Objects : cache[k] # None => \A i \in cache[k].outlived : ~Idle(i)

============================================================================
