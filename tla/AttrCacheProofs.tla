-------------------------- MODULE AttrCacheProofs --------------------------
(***************************************************************************)
(* Proofs about AttrCache, for any objects, names and handlers, any        *)
(* timeout and any delay between a read of attributes and its Put.         *)
(***************************************************************************)
EXTENDS AttrCache, TLAPS

Stages ==
  {"idle", "path", "lstat", "handle", "put", "apply", "xset", "xtimes", "invalidate",
   "created", "chandle", "chmod", "create", "write", "claim", "close"}

OpenFile == [obj : Objects, handle : Objects]

\* Every variable has its type.
CacheType ==
  /\ tree \in [Names -> Files \cup {None}]
  /\ cache \in [Objects -> Entry \cup {None}]
  /\ pc \in [Handlers -> Stages]
  /\ cur \in [Handlers -> FileHandle]
  /\ target \in [Handlers -> FileHandle \cup {None}]
  /\ info \in [Handlers -> Info \cup {None}]
  /\ held \in [Handlers -> 0..MaxDelay]
  /\ DOMAIN todo = Handlers
  /\ files \subseteq OpenFile

\* The path of the root stands for the root.
Rooted(fh) == fh.path = Root => fh.handle = Root

\* A handler at stage s has this target t, attributes fi and current handle fh.
Staged(s, t, fi, fh) ==
  /\ s # "idle" => t # None
  /\ s \in {"lstat", "put"} => Rooted(t)
  /\ s \in {"handle", "chandle", "created", "chmod", "create", "write", "claim"} =>
       t.path \in Names
  /\ s \in {"put", "handle"} => fi # None
  /\ s \in {"chmod", "create"} => fh.path = Root

Working(i) ==
  /\ Rooted(cur[i])
  /\ Staged(pc[i], target[i], info[i], cur[i])
  /\ info[i] # None => info[i].since <= held[i]

\* An entry that Get may return has been out of date since it was stored at most
\* for as long as it is old.
Timely(e) == e.age <= Timeout => e.fi.since <= e.age + e.late

\* A handler at stage s with target t still has to invalidate handle k.
DueAt(s, t, k) ==
  \/ s \in {"xtimes", "invalidate", "created"} /\ t.handle = k
  \/ s \in {"chmod", "create"} /\ k = Root

Due(i, k) == DueAt(pc[i], target[i], k)

\* The entry e of handle k.  What SETATTR, which invalidates first, finds in the
\* cache was stored while it ran.
Kept(k, e) ==
  /\ Timely(e)
  /\ e.path = Root => k = Root
  /\ \A i \in e.outlived : Due(i, k)
  /\ \A i \in Handlers : pc[i] = "apply" /\ target[i].handle = k => i \in e.amid

\* The inductive invariant.
CacheInv ==
  /\ CacheType
  /\ \A i \in Handlers : Working(i)
  /\ \A k \in Objects : cache[k] # None => Kept(k, cache[k])
----------------------------------------------------------------------------
\* c is a cache that a step of the handlers in H may leave: an entry that was
\* there has lost no handler in the middle of a change but those in H, and a new
\* one knows of all others that are.
Follows(H, c) ==
  /\ c \in [Objects -> Entry \cup {None}]
  /\ \A k \in Objects : c[k] # None =>
       /\ Timely(c[k])
       /\ c[k].path = Root => k = Root
       /\ \/ /\ cache[k] # None
             /\ c[k].outlived \ H \subseteq cache[k].outlived
             /\ cache[k].amid \ H \subseteq c[k].amid
          \/ /\ c[k].outlived \ H = {}
             /\ \A j \in Handlers \ H : Changing(j, k) => j \in c[k].amid

\* Attributes that become out of date.
LEMMA OutdateFacts ==
  ASSUME NEW fi \in Info \cup {None}, NEW O
  PROVE  /\ Outdate(fi, O) \in Info \cup {None}
         /\ Outdate(fi, O) = None <=> fi = None
         /\ fi # None => /\ Outdate(fi, O) \in Info
                         /\ \/ Outdate(fi, O).since = fi.since
                            \/ Outdate(fi, O).since = 0
<1>1. Timeout \in Nat /\ MaxDelay \in Nat /\ 0 \in Current..Cap /\ None \notin Info
  BY AttrCacheAssumption, NoneAssumption DEF Current, Cap
<1>2. CASE fi # None /\ fi.of \in O /\ fi.since = Current
  <2>1. [fi EXCEPT !.since = 0] \in Info /\ [fi EXCEPT !.since = 0].since = 0
    BY <1>1, <1>2 DEF Info
  <2> QED
    BY <1>1, <1>2, <2>1 DEF Outdate
<1>3. CASE ~(fi # None /\ fi.of \in O /\ fi.since = Current)
  BY <1>3 DEF Outdate
<1> QED
  BY <1>2, <1>3

\* Attributes that stay out of date for one more tick.
LEMMA OlderFacts ==
  ASSUME NEW fi \in Info \cup {None}
  PROVE  /\ Older(fi) \in Info \cup {None}
         /\ Older(fi) = None <=> fi = None
         /\ fi # None => Older(fi) \in Info /\ Older(fi).since <= fi.since + 1
<1>1. Timeout \in Nat /\ MaxDelay \in Nat /\ None \notin Info
  BY AttrCacheAssumption, NoneAssumption
<1>2. CASE fi = None \/ fi.since \in {Current, Cap}
  <2>1. Older(fi) = fi
    BY <1>2 DEF Older
  <2>2. fi # None => fi.since \in Int
    BY <1>1 DEF Info, Current, Cap
  <2> QED
    BY <2>1, <2>2
<1>3. CASE fi # None /\ fi.since \notin {Current, Cap}
  <2>1. fi.since \in Current..Cap /\ fi.since + 1 \in Current..Cap
    BY <1>1, <1>3 DEF Info, Current, Cap
  <2>2. /\ [fi EXCEPT !.since = fi.since + 1] \in Info
        /\ [fi EXCEPT !.since = fi.since + 1].since = fi.since + 1
    BY <1>3, <2>1 DEF Info
  <2>3. Older(fi) = [fi EXCEPT !.since = fi.since + 1]
    BY <1>3 DEF Older
  <2>4. fi.since + 1 <= fi.since + 1
    BY <2>1 DEF Current, Cap
  <2> QED
    BY <1>1, <1>3, <2>2, <2>3, <2>4
<1> QED
  BY <1>2, <1>3

\* The handlers amid a change.
LEMMA EntryAmid ==
  ASSUME NEW e \in Entry, NEW S \in SUBSET Handlers
  PROVE  /\ [e EXCEPT !.amid = S] \in Entry
         /\ [e EXCEPT !.amid = S].path = e.path
         /\ [e EXCEPT !.amid = S].fi = e.fi
         /\ [e EXCEPT !.amid = S].age = e.age
         /\ [e EXCEPT !.amid = S].late = e.late
         /\ [e EXCEPT !.amid = S].amid = S
         /\ [e EXCEPT !.amid = S].outlived = e.outlived
<1>1. PICK d : d = [e EXCEPT !.amid = S]
  BY Zenon
<1>2. /\ d \in Entry /\ d.path = e.path /\ d.fi = e.fi /\ d.age = e.age /\ d.amid = S
      /\ d.late = e.late /\ d.outlived = e.outlived
  BY <1>1 DEF Entry
<1> QED
  BY <1>1, <1>2

\* The handlers that an entry has outlived.
LEMMA EntryOutlived ==
  ASSUME NEW e \in Entry, NEW S \in SUBSET Handlers
  PROVE  /\ [e EXCEPT !.outlived = S] \in Entry
         /\ [e EXCEPT !.outlived = S].path = e.path
         /\ [e EXCEPT !.outlived = S].fi = e.fi
         /\ [e EXCEPT !.outlived = S].age = e.age
         /\ [e EXCEPT !.outlived = S].late = e.late
         /\ [e EXCEPT !.outlived = S].amid = e.amid
         /\ [e EXCEPT !.outlived = S].outlived = S
<1>1. PICK d : d = [e EXCEPT !.outlived = S]
  BY Zenon
<1>2. /\ d \in Entry /\ d.path = e.path /\ d.fi = e.fi /\ d.age = e.age /\ d.amid = e.amid
      /\ d.late = e.late /\ d.outlived = S
  BY <1>1 DEF Entry
<1> QED
  BY <1>1, <1>2

\* The attributes of an entry.
LEMMA EntryOutdated ==
  ASSUME NEW e \in Entry, NEW fi \in Info
  PROVE  /\ [e EXCEPT !.fi = fi] \in Entry
         /\ [e EXCEPT !.fi = fi].path = e.path
         /\ [e EXCEPT !.fi = fi].fi = fi
         /\ [e EXCEPT !.fi = fi].age = e.age
         /\ [e EXCEPT !.fi = fi].late = e.late
         /\ [e EXCEPT !.fi = fi].amid = e.amid
         /\ [e EXCEPT !.fi = fi].outlived = e.outlived
<1>1. PICK d : d = [e EXCEPT !.fi = fi]
  BY Zenon
<1>2. /\ d \in Entry /\ d.path = e.path /\ d.fi = fi /\ d.age = e.age /\ d.amid = e.amid
      /\ d.late = e.late /\ d.outlived = e.outlived
  BY <1>1 DEF Entry
<1> QED
  BY <1>1, <1>2

\* An entry stays timely when its attributes become out of date.
LEMMA TimelyOutdated ==
  ASSUME NEW e \in Entry, Timely(e), NEW d \in Entry, d.age = e.age, d.late = e.late,
         d.fi.since = e.fi.since \/ d.fi.since = 0
  PROVE  Timely(d)
<1>1. e.age \in Nat /\ e.late \in Nat /\ Timeout \in Nat
  BY AttrCacheAssumption DEF Entry
<1> QED
  BY <1>1 DEF Timely

\* The cache as it is.
LEMMA FollowsItself ==
  ASSUME CacheInv, NEW H
  PROVE  Follows(H, cache)
BY DEF CacheInv, CacheType, Kept, Follows

\* An invalidation.
LEMMA FollowsInvalidate ==
  ASSUME CacheInv, NEW H, NEW x, NEW c, c = Invalidate(cache, x)
  PROVE  /\ Follows(H, c)
         /\ \A k \in Objects : c[k] # None => c[k] = cache[k] /\ k # x
<1>1. /\ c \in [Objects -> Entry \cup {None}]
      /\ \A k \in Objects : c[k] = IF k = x THEN None ELSE cache[k]
  BY Zenon DEF Invalidate, CacheInv, CacheType
<1>2. Follows(H, cache)
  BY FollowsItself
<1> QED
  BY <1>1, <1>2 DEF Follows

\* Handler i is only added to what an entry of R has outlived, and not by a change
\* that was under way when the entry was stored.
Altered(i, R, c) ==
  \A k \in Objects : c[k] # None =>
    /\ cache[k] # None /\ c[k].amid = cache[k].amid
    /\ i \in c[k].outlived => i \in cache[k].outlived \/ (k \in R /\ i \notin cache[k].amid)

\* The entries of c are those of the cache, those of the objects O out of date.
Outdated(O, c) ==
  \A k \in Objects : c[k] # None =>
    cache[k] # None /\ c[k].path = cache[k].path /\ c[k].fi = Outdate(cache[k].fi, O)

\* A change by handler i.
LEMMA FollowsChanged ==
  ASSUME CacheInv, NEW i \in Handlers, NEW O, NEW R, NEW c, c = Changed(i, O, R)
  PROVE  Follows({i}, c) /\ Altered(i, R, c) /\ Outdated(O, c)
<1>1. c = Changed(i, O, R)
  OBVIOUS
<1>2. /\ \A k \in Objects : cache[k] \in Entry \cup {None}
      /\ \A k \in Objects : cache[k] # None => Kept(k, cache[k]) /\ cache[k] \in Entry
  BY DEF CacheInv, CacheType
<1>3. ASSUME NEW k \in Objects, cache[k] # None
      PROVE  /\ c[k] \in Entry /\ c[k].path = cache[k].path /\ c[k].amid = cache[k].amid
             /\ Timely(c[k]) /\ c[k].fi = Outdate(cache[k].fi, O)
             /\ c[k].outlived = IF k \in R /\ i \notin cache[k].amid
                                THEN cache[k].outlived \cup {i} ELSE cache[k].outlived
  <2>1. PICK e \in Entry : e = cache[k] /\ Timely(e)
    BY <1>2, <1>3 DEF Kept
  <2>2. e.fi \in Info /\ e.outlived \in SUBSET Handlers /\ None \notin Info
    BY NoneAssumption DEF Entry
  <2>3. PICK fi : fi = Outdate(e.fi, O)
    OBVIOUS
  <2>4. fi \in Info /\ (fi.since = e.fi.since \/ fi.since = 0)
    BY <2>2, <2>3, OutdateFacts
  <2>5. PICK S : S = IF k \in R /\ i \notin e.amid THEN e.outlived \cup {i} ELSE e.outlived
    BY Zenon
  <2>6. S \in SUBSET Handlers
    BY <2>2, <2>5
  <2>7. PICK d : d = [e EXCEPT !.fi = fi, !.outlived = S]
    OBVIOUS
  <2>8. /\ d \in Entry /\ d.path = e.path /\ d.fi = fi /\ d.age = e.age
        /\ d.late = e.late /\ d.amid = e.amid /\ d.outlived = S
    <3>1. PICK f : f = [e EXCEPT !.fi = fi]
      BY Zenon
    <3>2. /\ f \in Entry /\ f.path = e.path /\ f.fi = fi /\ f.age = e.age
          /\ f.late = e.late /\ f.amid = e.amid
      BY <2>4, <3>1, EntryOutdated
    <3>3. d = [f EXCEPT !.outlived = S]
      BY <2>7, <3>1
    <3>4. /\ d \in Entry /\ d.path = f.path /\ d.fi = f.fi /\ d.age = f.age
          /\ d.late = f.late /\ d.amid = f.amid /\ d.outlived = S
      BY <2>6, <3>2, <3>3, EntryOutlived
    <3> QED
      BY <3>2, <3>4
  <2>9. Timely(d)
    BY <2>1, <2>4, <2>8, TimelyOutdated
  <2>10. c[k] = d
    BY <1>1, <1>3, <2>1, <2>3, <2>5, <2>7, ZenonT(60) DEF Changed, Entry
  <2> QED
    BY <2>1, <2>3, <2>5, <2>8, <2>9, <2>10
<1>4. \A k \in Objects : cache[k] = None => c[k] = None
  BY <1>1, Zenon DEF Changed
<1>5. c \in [Objects -> Entry \cup {None}]
  <2>1. \A k \in Objects : c[k] \in Entry \cup {None}
    BY <1>3, <1>4, Zenon
  <2>2. c = [k \in Objects |-> c[k]]
    BY <1>1, Zenon DEF Changed
  <2> QED
    BY <2>1, <2>2
<1>6. Follows({i}, c)
  BY <1>2, <1>3, <1>4, <1>5, ZenonT(60) DEF Follows, Kept
<1> QED
  BY <1>3, <1>4, <1>6, Zenon DEF Altered, Outdated

\* The cache c once what was read of x, under the path p, is stored.
Stores(x, p, fi, c) ==
  /\ x \in Objects /\ p \in Names \cup {Root} /\ (p = Root => x = Root)
  /\ fi \in Info
  /\ c = Put(cache, x, p, fi)

\* The cache c differs from the cache at x only, where it has a fresh entry.
Stored(i, x, c) ==
  /\ Follows({i}, c) /\ c[x].outlived = {}
  /\ \A k \in Objects : k # x => c[k] = cache[k]

\* Handler i stores what it has read.
LEMMA FollowsPut ==
  ASSUME CacheInv, NEW i \in Handlers, NEW x, NEW p, NEW fi, NEW c, Stores(x, p, fi, c)
  PROVE  Stored(i, x, c)
<1>0. /\ x \in Objects /\ p \in Names \cup {Root} /\ (p = Root => x = Root)
      /\ fi \in Info
  BY Zenon DEF Stores
<1>l. PICK l : l = IF fi.since = Current THEN 0 ELSE fi.since
  BY Zenon
<1>m. l \in 0..Cap /\ fi.since <= 0 + l
  BY <1>0, <1>l, AttrCacheAssumption DEF Info, Current, Cap
<1>1. PICK e : e = [path |-> p, fi |-> fi, age |-> 0, late |-> l,
                    amid |-> {j \in Handlers : Changing(j, x)}, outlived |-> {}]
  BY Zenon
<1>2. /\ e \in Entry /\ Timely(e) /\ e.path = p /\ e.outlived = {}
      /\ e.amid = {j \in Handlers : Changing(j, x)}
  BY <1>0, <1>m, <1>1, AttrCacheAssumption DEF Entry, Timely
<1>3. c = [cache EXCEPT ![x] = e]
  BY <1>1, <1>l, Zenon DEF Put, Stores
<1>4. /\ c \in [Objects -> Entry \cup {None}] /\ c[x] = e
      /\ \A k \in Objects : k # x => c[k] = cache[k]
  BY <1>0, <1>2, <1>3 DEF CacheInv, CacheType
<1>5. Follows({i}, c)
  BY <1>0, <1>2, <1>4 DEF Follows, CacheInv, Kept
<1> QED
  BY <1>2, <1>4, <1>5 DEF Stored

\* The cache when handler i answers.
Answered(i, c) ==
  [k \in Objects |-> IF c[k] = None THEN None ELSE [c[k] EXCEPT !.amid = @ \ {i}]]

\* Only its own change is no longer under way.
LEMMA FollowsAnswer ==
  ASSUME NEW i \in Handlers, NEW c, Follows({i}, c)
  PROVE  /\ Follows({i}, Answered(i, c))
         /\ \A k \in Objects : Answered(i, c)[k] # None =>
              c[k] # None /\ Answered(i, c)[k].outlived = c[k].outlived
<1>1. PICK d : d = Answered(i, c)
  OBVIOUS
<1>2. ASSUME NEW k \in Objects, c[k] # None
      PROVE  /\ d[k] \in Entry /\ d[k].path = c[k].path /\ d[k].amid = c[k].amid \ {i}
             /\ Timely(d[k]) /\ d[k].outlived = c[k].outlived
  <2>1. PICK e \in Entry : e = c[k] /\ Timely(e)
    BY <1>2 DEF Follows
  <2>2. e.amid \ {i} \in SUBSET Handlers
    BY DEF Entry
  <2>3. PICK f : f = [e EXCEPT !.amid = e.amid \ {i}]
    BY Zenon
  <2>4. /\ f \in Entry /\ f.path = e.path /\ f.fi = e.fi /\ f.age = e.age
        /\ f.late = e.late /\ f.amid = e.amid \ {i} /\ f.outlived = e.outlived
    BY <2>2, <2>3, EntryAmid
  <2>5. Timely(f)
    BY <2>1, <2>4 DEF Timely
  <2>6. d[k] = f
    BY <1>1, <1>2, <2>1, <2>3 DEF Answered
  <2> QED
    BY <2>1, <2>4, <2>5, <2>6
<1>3. \A k \in Objects : c[k] = None => d[k] = None
  BY <1>1 DEF Answered
<1>4. d \in [Objects -> Entry \cup {None}]
  <2>1. \A k \in Objects : d[k] \in Entry \cup {None}
    BY <1>2, <1>3
  <2>2. d = [k \in Objects |-> d[k]]
    BY <1>1 DEF Answered
  <2> QED
    BY <2>1, <2>2
<1>5. Follows({i}, d)
  BY <1>2, <1>3, <1>4 DEF Follows
<1> QED
  BY <1>1, <1>2, <1>3, <1>5
----------------------------------------------------------------------------
\* f is what the handlers may hold of attributes after a change.
Holds(f) ==
  /\ f \in [Handlers -> Info \cup {None}]
  /\ \A j \in Handlers :
       /\ f[j] = None <=> info[j] = None
       /\ f[j] # None => f[j].since <= held[j]

\* They hold the same, or some of it is out of date.
LEMMA HoldsOutdated ==
  ASSUME CacheInv, NEW O
  PROVE  Holds(info) /\ Holds(OutdatedInfo(O))
<1>1. /\ info \in [Handlers -> Info \cup {None}]
      /\ \A j \in Handlers : held[j] \in Nat /\ (info[j] # None => info[j].since <= held[j])
  BY AttrCacheAssumption DEF CacheInv, CacheType, Working
<1>2. Holds(info)
  BY <1>1 DEF Holds
<1>3. PICK f : f = OutdatedInfo(O)
  OBVIOUS
<1>4. f = [j \in Handlers |-> Outdate(info[j], O)]
  BY <1>3 DEF OutdatedInfo
<1>5. ASSUME NEW j \in Handlers
      PROVE  /\ f[j] \in Info \cup {None}
             /\ f[j] = None <=> info[j] = None
             /\ f[j] # None => f[j].since <= held[j]
  <2>1. PICK fi \in Info \cup {None} : fi = info[j]
    BY <1>1
  <2>2. f[j] = Outdate(fi, O)
    BY <1>4, <2>1
  <2>3. /\ f[j] \in Info \cup {None}
        /\ f[j] = None <=> fi = None
        /\ fi # None => f[j].since = fi.since \/ f[j].since = 0
    BY <2>2, OutdateFacts
  <2> QED
    BY <1>1, <2>1, <2>3
<1>6. Holds(f)
  BY <1>4, <1>5 DEF Holds
<1> QED
  BY <1>2, <1>3, <1>6

\* What a step leaves of the other handlers.
Others(H) ==
  \A j \in Handlers \ H :
    pc'[j] = pc[j] /\ cur'[j] = cur[j] /\ target'[j] = target[j]

\* A step of the handlers in H.
LEMMA StepKeeps ==
  ASSUME CacheInv, NEW H \in SUBSET Handlers, NEW c, Follows(H, c), cache' = c, CacheType',
         Others(H),
         \A j \in Handlers : info'[j] # None => info'[j].since <= held'[j],
         \A j \in Handlers \ H : info'[j] = None <=> info[j] = None,
         \A i \in H : Working(i)',
         \A i \in H, k \in Objects : c[k] # None =>
           /\ i \in c[k].outlived => Due(i, k)'
           /\ pc'[i] = "apply" /\ target'[i].handle = k => i \in c[k].amid
  PROVE  CacheInv'
<1>1. ASSUME NEW j \in Handlers
      PROVE  Working(j)'
  <2>1. CASE j \in H
    BY <2>1
  <2>2. CASE j \notin H
    <3>1. Working(j)
      BY DEF CacheInv
    <3>2. /\ pc'[j] = pc[j] /\ cur'[j] = cur[j] /\ target'[j] = target[j]
          /\ info'[j] = None <=> info[j] = None
          /\ info'[j] # None => info'[j].since <= held'[j]
      BY <2>2 DEF Others
    <3> QED
      BY <3>1, <3>2 DEF Working, Rooted, Staged
  <2> QED
    BY <2>1, <2>2
<1>2. ASSUME NEW k \in Objects, c[k] # None
      PROVE  Kept(k, c[k])'
  <2>1. /\ Timely(c[k]) /\ (c[k].path = Root => k = Root)
        /\ c[k] \in Entry
    BY <1>2 DEF Follows
  <2>2. ASSUME NEW j \in c[k].outlived
        PROVE  Due(j, k)'
    <3>1. CASE j \in H
      BY <1>2, <2>2, <3>1
    <3>2. CASE j \notin H
      <4>1. cache[k] # None /\ j \in cache[k].outlived
        BY <1>2, <2>2, <3>2 DEF Follows
      <4>2. Due(j, k)
        BY <4>1, Zenon DEF CacheInv, Kept
      <4>3. j \in Handlers
        BY <2>1, <2>2 DEF Entry
      <4> QED
        BY <3>2, <4>2, <4>3 DEF Due, DueAt, Others
    <3> QED
      BY <3>1, <3>2
  <2>3. ASSUME NEW j \in Handlers, pc'[j] = "apply", target'[j].handle = k
        PROVE  j \in c[k].amid
    <3>1. CASE j \in H
      BY <1>2, <2>3, <3>1
    <3>2. CASE j \notin H
      <4>1. pc[j] = "apply" /\ target[j].handle = k
        BY <2>3, <3>2, Zenon DEF Others
      <4>2. cache[k] # None => j \in cache[k].amid
        BY <4>1 DEF CacheInv, Kept
      <4>3. Changing(j, k)
        BY <4>1, Zenon DEF Changing
      <4> QED
        BY <1>2, <3>2, <4>2, <4>3 DEF Follows
    <3> QED
      BY <3>1, <3>2
  <2> QED
    BY <2>1, <2>2, <2>3 DEF Kept, Timely
<1> QED
  BY <1>1, <1>2 DEF CacheInv

\* Handler i answers, with cache c and held copies f.
LEMMA ReturnKeeps ==
  ASSUME CacheInv, NEW i \in Handlers, NEW c, NEW f, Return(i, c, f), Follows({i}, c), Holds(f),
         \A k \in Objects : c[k] # None => i \notin c[k].outlived,
         tree' \in [Names -> Files \cup {None}], files' \subseteq OpenFile,
         cur' \in [Handlers -> FileHandle], Rooted(cur'[i]),
         \A j \in Handlers \ {i} : cur'[j] = cur[j]
  PROVE  CacheInv'
<1>1. PICK d : d = Answered(i, c)
  BY Zenon
<1>2. Follows({i}, d) /\ \A k \in Objects : d[k] # None => i \notin d[k].outlived
  <2>1. /\ Follows({i}, Answered(i, c))
        /\ \A k \in Objects : Answered(i, c)[k] # None =>
             c[k] # None /\ Answered(i, c)[k].outlived = c[k].outlived
    BY FollowsAnswer
  <2> QED
    BY <1>1, <2>1
<1>3. cache' = d
  BY <1>1 DEF Return, Answered
<1>4. /\ pc' \in [Handlers -> Stages] /\ pc'[i] = "idle"
      /\ \A j \in Handlers \ {i} : pc'[j] = pc[j]
  BY DEF Return, CacheInv, CacheType, Stages
<1>5. /\ target' \in [Handlers -> FileHandle \cup {None}] /\ target'[i] = None
      /\ \A j \in Handlers \ {i} : target'[j] = target[j]
  BY DEF Return, CacheInv, CacheType
<1>6. /\ info' \in [Handlers -> Info \cup {None}] /\ info'[i] = None
      /\ \A j \in Handlers \ {i} : info'[j] = f[j]
  BY DEF Return, Holds
<1>7. /\ held' \in [Handlers -> 0..MaxDelay] /\ held'[i] = 0
      /\ \A j \in Handlers \ {i} : held'[j] = held[j]
  BY AttrCacheAssumption DEF Return, CacheInv, CacheType
<1>8. DOMAIN todo' = Handlers
  BY Zenon DEF Return, CacheInv, CacheType
<1>9. CacheType'
  BY <1>2, <1>3, <1>4, <1>5, <1>6, <1>7, <1>8, Zenon DEF CacheType, Follows
<1>10. Others({i})
  BY <1>4, <1>5 DEF Others
<1>11. Working(i)'
  BY <1>4, <1>6 DEF Working, Rooted, Staged
<1>12. /\ \A j \in Handlers : info'[j] # None => info'[j].since <= held'[j]
       /\ \A j \in Handlers \ {i} : info'[j] = None <=> info[j] = None
  BY <1>6, <1>7 DEF Holds
<1>13. \A h \in {i}, k \in Objects : d[k] # None =>
         /\ h \in d[k].outlived => Due(h, k)'
         /\ pc'[h] = "apply" /\ target'[h].handle = k => h \in d[k].amid
  BY <1>2, <1>4
<1> QED
  BY <1>2, <1>3, <1>9, <1>10, <1>11, <1>12, <1>13, StepKeeps

\* Handler i goes on at stage s with target t; the cache becomes c, what the
\* handlers hold f.
Goes(i, c, f, s, t) ==
  /\ cache' = c /\ info' = f
  /\ pc' = [pc EXCEPT ![i] = s] /\ target' = [target EXCEPT ![i] = t]
  /\ UNCHANGED <<cur, held>> /\ DOMAIN todo' = Handlers
  /\ tree' \in [Names -> Files \cup {None}] /\ files' \subseteq OpenFile
  /\ s \in Stages /\ t \in FileHandle \cup {None} /\ Staged(s, t, f[i], cur[i])
  /\ Follows({i}, c)
  /\ f \in [Handlers -> Info \cup {None}]
  /\ \A j \in Handlers : f[j] # None => f[j].since <= held[j]
  /\ \A j \in Handlers \ {i} : f[j] = None <=> info[j] = None
  /\ \A k \in Objects : c[k] # None =>
       /\ i \in c[k].outlived => DueAt(s, t, k)
       /\ s = "apply" /\ t.handle = k => i \in c[k].amid

\* It keeps the invariant.
LEMMA GoKeeps ==
  ASSUME CacheInv, NEW i \in Handlers, NEW c, NEW f, NEW s, NEW t, Goes(i, c, f, s, t)
  PROVE  CacheInv'
<1>1. /\ pc' \in [Handlers -> Stages] /\ pc'[i] = s
      /\ \A j \in Handlers \ {i} : pc'[j] = pc[j]
  BY Zenon DEF Goes, CacheInv, CacheType
<1>2. /\ target' \in [Handlers -> FileHandle \cup {None}] /\ target'[i] = t
      /\ \A j \in Handlers \ {i} : target'[j] = target[j]
  BY Zenon DEF Goes, CacheInv, CacheType
<1>3. CacheType'
  BY <1>1, <1>2 DEF Goes, CacheInv, CacheType, Follows
<1>4. Others({i})
  BY <1>1, <1>2 DEF Goes, Others
<1>5. Rooted(cur[i])
  BY Zenon DEF CacheInv, Working
<1>6. Working(i)'
  BY <1>1, <1>2, <1>5, Zenon DEF Goes, Working, Rooted, Staged
<1>7. \A h \in {i}, k \in Objects : c[k] # None =>
         /\ h \in c[k].outlived => Due(h, k)'
         /\ pc'[h] = "apply" /\ target'[h].handle = k => h \in c[k].amid
  BY <1>1, <1>2 DEF Goes, Due, DueAt
<1>8. /\ \A j \in Handlers : info'[j] # None => info'[j].since <= held'[j]
      /\ \A j \in Handlers \ {i} : info'[j] = None <=> info[j] = None
      /\ \A h \in {i} : Working(h)'
  BY <1>6 DEF Goes
<1>9. cache' = c /\ Follows({i}, c)
  BY DEF Goes
<1> QED
  BY <1>3, <1>4, <1>7, <1>8, <1>9, StepKeeps, Zenon

\* Handler i gets another current handle.
LEMMA CurrentKeeps ==
  ASSUME CacheInv, NEW i \in Handlers, Idle(i), NEW fh \in FileHandle, Rooted(fh),
         cur' = [cur EXCEPT ![i] = fh],
         UNCHANGED <<tree, cache, pc, target, info, held, todo, files>>
  PROVE  CacheInv'
<1>1. /\ cur' \in [Handlers -> FileHandle] /\ cur'[i] = fh
      /\ \A j \in Handlers \ {i} : cur'[j] = cur[j]
  BY DEF CacheInv, CacheType
<1>2. CacheType'
  BY <1>1, Zenon DEF CacheInv, CacheType
<1>3. ASSUME NEW j \in Handlers
      PROVE  Working(j)'
  BY <1>1, Zenon DEF CacheInv, Working, Idle, Staged, Rooted
<1>4. \A k \in Objects : cache[k] # None => Kept(k, cache[k])'
  BY DEF CacheInv, Kept, Due, DueAt, Timely
<1> QED
  BY <1>2, <1>3, <1>4 DEF CacheInv

\* A handler that has nothing to invalidate has been outlived by no entry.
LEMMA NotOutlived ==
  ASSUME CacheInv, NEW i \in Handlers, NEW k \in Objects, cache[k] # None,
         pc[i] \notin {"xtimes", "invalidate", "created", "chmod", "create"}
  PROVE  i \notin cache[k].outlived
BY Zenon DEF CacheInv, Kept, Due, DueAt

\* The handles and paths of a handler.
LEMMA HandlerFacts ==
  ASSUME CacheInv, NEW i \in Handlers
  PROVE  /\ cur[i] \in FileHandle /\ cur[i].handle \in Objects /\ Rooted(cur[i])
         /\ cur[i].path \in Names \cup {Root}
         /\ pc[i] # "idle" =>
              /\ target[i] \in FileHandle /\ target[i].handle \in Objects
              /\ target[i].path \in Names \cup {Root}
         /\ Staged(pc[i], target[i], info[i], cur[i])
         /\ info[i] # None => info[i] \in Info /\ info[i].since <= held[i]
         /\ held[i] \in 0..MaxDelay
         /\ DOMAIN todo = Handlers /\ DOMAIN [todo EXCEPT ![i] = <<>>] = Handlers
         /\ tree \in [Names -> Files \cup {None}] /\ files \subseteq OpenFile
BY Zenon DEF CacheInv, CacheType, Working, Staged, FileHandle

\* The object at a path.
LEMMA ResolveFacts ==
  ASSUME CacheInv, NEW p \in Names \cup {Root}, Resolve(p) # None
  PROVE  /\ Resolve(p) \in Objects
         /\ [handle |-> Resolve(p), path |-> p] \in FileHandle
         /\ Rooted([handle |-> Resolve(p), path |-> p])
         /\ p \in Names => p # Root /\ Resolve(p) = tree[p] /\ tree[p] \in Files
<1>1. Root \notin Names
  BY AttrCacheAssumption
<1> QED
  BY <1>1 DEF CacheInv, CacheType, Resolve, Objects, FileHandle, Rooted

\* Handler i, which has nothing to invalidate, goes on and only its target changes.
LEMMA GoQuiet ==
  ASSUME CacheInv, NEW i \in Handlers, NEW s \in Stages, NEW t \in FileHandle,
         pc[i] \notin {"xtimes", "invalidate", "created", "chmod", "create"},
         s # "apply", Staged(s, t, info[i], cur[i]),
         pc' = [pc EXCEPT ![i] = s], target' = [target EXCEPT ![i] = t],
         UNCHANGED <<tree, cache, cur, info, held, todo, files>>
  PROVE  CacheInv'
<1>1. PICK c, f : c = cache /\ f = info
  OBVIOUS
<1>2. Follows({i}, c) /\ Holds(f)
  BY <1>1, FollowsItself, HoldsOutdated
<1>3. \A k \in Objects : c[k] # None => i \notin c[k].outlived
  BY <1>1, NotOutlived, Zenon
<1>4. DOMAIN todo' = Handlers /\ tree' \in [Names -> Files \cup {None}] /\ files' \subseteq OpenFile
  BY HandlerFacts, Zenon
<1>5. Staged(s, t, f[i], cur[i])
  BY <1>1, Zenon
<1>6. Goes(i, c, f, s, t)
  BY <1>1, <1>2, <1>3, <1>4, <1>5, Zenon DEF Goes, Holds
<1> QED
  BY <1>6, GoKeeps

\* Handler i reads the attributes of o and goes on at stage s with target t.
LEMMA GoReading ==
  ASSUME CacheInv, NEW i \in Handlers, NEW s \in Stages, NEW t \in FileHandle,
         NEW o \in Objects,
         pc[i] \notin {"xtimes", "invalidate", "created", "chmod", "create"},
         s # "apply", Staged(s, t, Read(o), cur[i]),
         pc' = [pc EXCEPT ![i] = s], target' = [target EXCEPT ![i] = t],
         info' = [info EXCEPT ![i] = Read(o)],
         UNCHANGED <<tree, cache, cur, held, todo, files>>
  PROVE  CacheInv'
<1>1. PICK c, f : c = cache /\ f = [info EXCEPT ![i] = Read(o)]
  OBVIOUS
<1>2. Follows({i}, c)
  BY <1>1, FollowsItself
<1>3. \A k \in Objects : c[k] # None => i \notin c[k].outlived
  BY <1>1, NotOutlived, Zenon
<1>4. DOMAIN todo' = Handlers /\ tree' \in [Names -> Files \cup {None}] /\ files' \subseteq OpenFile
  BY HandlerFacts, Zenon
<1>5. Timeout \in Nat /\ MaxDelay \in Nat
  BY AttrCacheAssumption
<1>6. Read(o) \in Info /\ Read(o).since = -1
  BY <1>5 DEF Read, Info, Current, Cap
<1>7. info \in [Handlers -> Info \cup {None}]
  BY DEF CacheInv, CacheType
<1>8. /\ f \in [Handlers -> Info \cup {None}] /\ f[i] = Read(o)
      /\ \A j \in Handlers \ {i} : f[j] = info[j]
  BY <1>1, <1>6, <1>7, Zenon
<1>9. -1 <= held[i]
  BY <1>5, HandlerFacts
<1>10. \A j \in Handlers : f[j] # None => f[j].since <= held[j]
  BY <1>6, <1>8, <1>9, HandlerFacts, Zenon
<1>11. Staged(s, t, f[i], cur[i])
  BY <1>8, Zenon
<1>12. Goes(i, c, f, s, t)
  BY <1>1, <1>2, <1>3, <1>4, <1>8, <1>10, <1>11 DEF Goes
<1> QED
  BY <1>12, GoKeeps, Zenon

\* Handler i changes the objects O and goes on at a stage that still has to
\* invalidate what it has changed through its handle.
Changes(i, O, R, s, t) ==
  /\ cache' = Changed(i, O, R) /\ info' = OutdatedInfo(O)
  /\ pc' = [pc EXCEPT ![i] = s] /\ target' = [target EXCEPT ![i] = t]
  /\ UNCHANGED <<cur, held, files>> /\ DOMAIN todo' = Handlers
  /\ tree' \in [Names -> Files \cup {None}]
  /\ s \in Stages /\ t \in FileHandle \cup {None} /\ Staged(s, t, info[i], cur[i])
  /\ s = "apply" => pc[i] = "apply" /\ t = target[i]
  /\ \A k \in Objects : Due(i, k) => DueAt(s, t, k)
  /\ \A k \in Objects : k \in R /\ cache[k] # None => DueAt(s, t, k) \/ i \in cache[k].amid

\* It keeps the invariant.
LEMMA GoChanging ==
  ASSUME CacheInv, NEW i \in Handlers, NEW O, NEW R, NEW s, NEW t, Changes(i, O, R, s, t)
  PROVE  CacheInv'
<1>1. PICK c, f : c = Changed(i, O, R) /\ f = OutdatedInfo(O)
  OBVIOUS
<1>2. Holds(f)
  BY <1>1, HoldsOutdated
<1>3. Follows({i}, c) /\ Altered(i, R, c)
  BY <1>1, FollowsChanged, Zenon
<1>4. \A k \in Objects : cache[k] # None =>
        /\ i \in cache[k].outlived => Due(i, k)
        /\ pc[i] = "apply" /\ target[i].handle = k => i \in cache[k].amid
  BY Zenon DEF CacheInv, Kept
<1>5. \A k \in Objects : c[k] # None =>
        /\ i \in c[k].outlived => DueAt(s, t, k)
        /\ s = "apply" /\ t.handle = k => i \in c[k].amid
  BY <1>3, <1>4, Zenon DEF Changes, Altered
<1>6. Staged(s, t, f[i], cur[i])
  BY <1>2 DEF Changes, Holds, Staged
<1>7. Goes(i, c, f, s, t)
  BY <1>1, <1>2, <1>3, <1>5, <1>6, HandlerFacts, Zenon DEF Changes, Goes, Holds
<1> QED
  BY <1>7, GoKeeps

\* Handler i invalidates x, the only handle that it may still have to invalidate,
\* and goes on.
Drops(i, x, s, t) ==
  /\ cache' = Invalidate(cache, x) /\ UNCHANGED <<tree, cur, info, held>>
  /\ pc' = [pc EXCEPT ![i] = s] /\ target' = [target EXCEPT ![i] = t]
  /\ DOMAIN todo' = Handlers /\ files' \subseteq OpenFile
  /\ s \in Stages /\ t \in FileHandle \cup {None} /\ Staged(s, t, info[i], cur[i])
  /\ s = "apply" => t.handle = x
  /\ \A k \in Objects : Due(i, k) => k = x

\* It keeps the invariant.
LEMMA GoInvalidating ==
  ASSUME CacheInv, NEW i \in Handlers, NEW x, NEW s, NEW t, Drops(i, x, s, t)
  PROVE  CacheInv'
<1>1. PICK c, f : c = Invalidate(cache, x) /\ f = info
  OBVIOUS
<1>2. Holds(f)
  BY <1>1, HoldsOutdated
<1>3. /\ Follows({i}, c)
      /\ \A k \in Objects : c[k] # None => c[k] = cache[k] /\ k # x
  BY <1>1, FollowsInvalidate, Zenon
<1>4. \A k \in Objects : cache[k] # None => (i \in cache[k].outlived => Due(i, k))
  BY Zenon DEF CacheInv, Kept
<1>5. \A k \in Objects : c[k] # None =>
        /\ i \in c[k].outlived => DueAt(s, t, k)
        /\ s = "apply" /\ t.handle = k => i \in c[k].amid
  BY <1>3, <1>4, Zenon DEF Drops
<1>6. Staged(s, t, f[i], cur[i])
  BY <1>1 DEF Drops
<1>7. Goes(i, c, f, s, t)
  BY <1>1, <1>2, <1>3, <1>5, <1>6, HandlerFacts, Zenon DEF Drops, Goes, Holds
<1> QED
  BY <1>7, GoKeeps

\* A handler that stays where it is.
LEMMA Stays ==
  ASSUME CacheInv, NEW i \in Handlers
  PROVE  /\ pc = [pc EXCEPT ![i] = pc[i]] /\ target = [target EXCEPT ![i] = target[i]]
         /\ pc[i] \in Stages /\ target[i] \in FileHandle \cup {None}
BY DEF CacheInv, CacheType

\* PUTROOTFH, PUTFH, LOOKUP and LOOKUPP.
LEMMA SetCurrentStep ==
  ASSUME CacheInv, NEW i \in Handlers, SetCurrent(i)
  PROVE  CacheInv'
<1>1. CASE PutRootFH(i)
  <2>1. RootFH \in FileHandle /\ Rooted(RootFH)
    BY DEF RootFH, FileHandle, Rooted, Objects
  <2> QED
    BY <1>1, <2>1, CurrentKeeps, Zenon DEF PutRootFH
<1>2. ASSUME NEW k \in Objects, PutFHCached(i, k)
      PROVE  CacheInv'
  <2>1. PICK fh : fh = [handle |-> k, path |-> cache[k].path]
    BY Zenon
  <2>2. cache[k] \in Entry /\ Kept(k, cache[k])
    BY <1>2, Zenon DEF PutFHCached, Cached, CacheInv, CacheType
  <2>3. fh \in FileHandle /\ Rooted(fh)
    BY <2>1, <2>2 DEF FileHandle, Rooted, Kept, Entry
  <2> QED
    BY <1>2, <2>1, <2>3, CurrentKeeps, Zenon DEF PutFHCached
<1>3. ASSUME NEW k \in Objects, PutFHMiss(i, k)
      PROVE  CacheInv'
  <2>1. PICK t : t = [handle |-> k, path |-> Root]
    BY Zenon
  <2>2. t \in FileHandle /\ t # None /\ Staged("path", t, info[i], cur[i])
    BY <2>1, NoneAssumption, SMTT(60) DEF FileHandle, Staged
  <2> QED
    BY <1>3, <2>1, <2>2, HandlerFacts, GoQuiet, Zenon DEF PutFHMiss, Goto, Idle, Stages
<1>4. CASE PutFHPath(i)
  <2>1. PICK p \in Names \cup {Root} :
          /\ Resolve(p) = target[i].handle
          /\ cur' = [cur EXCEPT ![i] = [handle |-> target[i].handle, path |-> p]]
    BY <1>4, Zenon DEF PutFHPath
  <2>2. PICK fh : fh = [handle |-> Resolve(p), path |-> p]
    BY ZenonT(60)
  <2>3. Resolve(p) # None
    <3>1. Resolve(p) \in Objects
      BY <1>4, <2>1, HandlerFacts DEF PutFHPath
    <3> QED
      BY <3>1, AttrCacheAssumption, ZenonT(60) DEF Objects
  <2>4. fh \in FileHandle /\ Rooted(fh)
    BY <2>2, <2>3, ResolveFacts
  <2>5. PICK c, f : c = cache /\ f = info
    BY Zenon
  <2>6. Follows({i}, c) /\ Holds(f) /\ Return(i, c, f)
    BY <1>4, <2>5, FollowsItself, HoldsOutdated, Zenon DEF PutFHPath
  <2>7. \A x \in Objects : c[x] # None => i \notin c[x].outlived
    BY <1>4, <2>5, NotOutlived, Zenon DEF PutFHPath
  <2>8. /\ cur' \in [Handlers -> FileHandle] /\ cur'[i] = fh
        /\ \A j \in Handlers \ {i} : cur'[j] = cur[j]
    BY <2>1, <2>2, <2>4 DEF CacheInv, CacheType
  <2> QED
    BY <1>4, <2>4, <2>6, <2>7, <2>8, HandlerFacts, ReturnKeeps DEF PutFHPath
<1>5. ASSUME NEW n \in Names, Lookup(i, n)
      PROVE  CacheInv'
  <2>1. PICK fh : fh = [handle |-> Resolve(n), path |-> n]
    BY ZenonT(60)
  <2>2. Resolve(n) = tree[n] /\ Resolve(n) # None
    BY <1>5, AttrCacheAssumption DEF Lookup, Resolve
  <2>3. fh \in FileHandle /\ Rooted(fh)
    BY <2>1, <2>2, ResolveFacts
  <2> QED
    BY <1>5, <2>1, <2>2, <2>3, CurrentKeeps, Zenon DEF Lookup
<1>6. CASE LookupParent(i)
  <2>1. PICK n \in Names : n = cur[i].path
    BY <1>6, HandlerFacts DEF LookupParent, InRoot
  <2>2. PICK fh : fh = [handle |-> Resolve(n), path |-> n]
    BY ZenonT(60)
  <2>3. Resolve(n) = tree[n] /\ Resolve(n) # None
    BY <1>6, <2>1, AttrCacheAssumption DEF LookupParent, Resolve
  <2>4. fh \in FileHandle /\ Rooted(fh)
    BY <2>2, <2>3, ResolveFacts
  <2> QED
    BY <1>6, <2>1, <2>2, <2>3, <2>4, CurrentKeeps, Zenon DEF LookupParent
<1> QED
  BY <1>1, <1>2, <1>3, <1>4, <1>5, <1>6 DEF SetCurrent

\* GETATTR and READDIR.
LEMMA ReadAttributesStep ==
  ASSUME CacheInv, NEW i \in Handlers, ReadAttributes(i)
  PROVE  CacheInv'
<1>1. CASE GetAttr(i)
  <2>1. PICK t \in FileHandle : t = cur[i] /\ Rooted(t)
    BY HandlerFacts
  <2>2. Staged("lstat", t, info[i], cur[i])
    BY <2>1, NoneAssumption DEF Staged
  <2> QED
    BY <1>1, <2>1, <2>2, GoQuiet, ZenonT(60) DEF GetAttr, Goto, Idle, Stages
<1>2. CASE Lstat(i)
  <2>1. PICK t \in FileHandle : t = target[i] /\ Rooted(t) /\ t.path \in Names \cup {Root}
    BY <1>2, HandlerFacts DEF Lstat, Staged
  <2>2. PICK o \in Objects : o = Resolve(t.path)
    BY <1>2, <2>1, ResolveFacts, ZenonT(60) DEF Lstat
  <2>3. Staged("put", t, Read(o), cur[i])
    <3>1. Read(o) # None
      <4>1. Read(o) \in Info
        BY AttrCacheAssumption DEF Read, Info, Current, Cap
      <4> QED
        BY <4>1, NoneAssumption
    <3> QED
      BY <2>1, <3>1, NoneAssumption DEF Staged
  <2>4. target' = [target EXCEPT ![i] = t]
    BY <1>2, <2>1, Zenon DEF Lstat, CacheInv, CacheType
  <2> QED
    BY <1>2, <2>1, <2>2, <2>3, <2>4, GoReading, ZenonT(60) DEF Lstat, Goto, Stages
<1>3. CASE PutEntry(i)
  <2>1. PICK t \in FileHandle : /\ t = target[i] /\ Rooted(t) /\ t.path \in Names \cup {Root}
                                /\ t.handle \in Objects
    BY <1>3, HandlerFacts DEF PutEntry, Staged
  <2>2. PICK fi \in Info : fi = info[i]
    BY <1>3, HandlerFacts, Zenon DEF PutEntry, Staged
  <2>3. PICK x \in Objects, p \in Names \cup {Root} :
          x = t.handle /\ p = t.path /\ (p = Root => x = Root)
    BY <2>1 DEF Rooted
  <2>3a. PICK c, f : c = Put(cache, x, p, fi) /\ f = info
    OBVIOUS
  <2>4. /\ Follows({i}, c) /\ c[x].outlived = {}
        /\ \A k \in Objects : k # x => c[k] = cache[k]
    <3>1. Stores(x, p, fi, c)
      BY <2>2, <2>3, <2>3a, Zenon DEF Stores
    <3>2. Stored(i, x, c)
      BY <3>1, FollowsPut, Zenon
    <3> QED
      BY <3>2, Zenon DEF Stored
  <2>5. \A k \in Objects : c[k] # None => i \notin c[k].outlived
    BY <1>3, <2>4, NotOutlived, Zenon DEF PutEntry
  <2>6. Return(i, c, f) /\ Holds(f)
    BY <1>3, <2>1, <2>2, <2>3, <2>3a, HoldsOutdated, Zenon DEF PutEntry
  <2>7. cur' \in [Handlers -> FileHandle]
    BY <1>3 DEF PutEntry, CacheInv, CacheType
  <2> QED
    BY <1>3, <2>4, <2>5, <2>6, <2>7, HandlerFacts, ReturnKeeps, ZenonT(60) DEF PutEntry
<1>4. ASSUME NEW n \in Names, ReadDir(i, n)
      PROVE  CacheInv'
  <2>1. PICK o \in Objects : o = tree[n]
    BY <1>4, HandlerFacts DEF ReadDir, Objects
  <2>2. PICK t : t = [handle |-> Root, path |-> n]
    BY Zenon
  <2>3. t \in FileHandle
    BY <2>2 DEF FileHandle, Objects
  <2>4. Staged("handle", t, Read(o), cur[i])
    <3>1. Read(o) # None
      <4>1. Read(o) \in Info
        BY AttrCacheAssumption DEF Read, Info, Current, Cap
      <4> QED
        BY <4>1, NoneAssumption
    <3> QED
      BY <2>2, <2>3, <3>1, NoneAssumption DEF Staged
  <2> QED
    BY <1>4, <2>1, <2>2, <2>3, <2>4, GoReading, ZenonT(60) DEF ReadDir, Goto, Idle, Stages
<1>5. CASE ReadDirHandle(i)
  <2>1. PICK n \in Names : n = target[i].path
    BY <1>5, HandlerFacts DEF ReadDirHandle, Staged
  <2>2. PICK t : t = [handle |-> Resolve(n), path |-> n]
    BY Zenon
  <2>3. t \in FileHandle /\ Rooted(t)
    BY <1>5, <2>1, <2>2, ResolveFacts DEF ReadDirHandle
  <2>4. target' = [target EXCEPT ![i] = t]
    <3>1. target[i] \in FileHandle
      BY <1>5, HandlerFacts DEF ReadDirHandle
    <3>2. [target[i] EXCEPT !.handle = Resolve(n)] = t
      BY <2>1, <2>2, <3>1 DEF FileHandle
    <3>3. target' = [target EXCEPT ![i] = [target[i] EXCEPT !.handle = Resolve(n)]]
      BY <1>5, <2>1 DEF ReadDirHandle, CacheInv, CacheType
    <3> QED
      BY <3>2, <3>3, ZenonT(60)
  <2>5. Staged("put", t, info[i], cur[i])
    BY <1>5, <2>3, HandlerFacts, NoneAssumption DEF Staged, ReadDirHandle
  <2> QED
    BY <1>5, <2>3, <2>4, <2>5, GoQuiet, Zenon DEF ReadDirHandle, Goto, Stages
<1> QED
  BY <1>1, <1>2, <1>3, <1>4, <1>5 DEF ReadAttributes

\* SETATTR.
LEMMA SetAttrStep ==
  ASSUME CacheInv, NEW i \in Handlers,
         (\E attrs \in Asks : SetAttr(i, attrs)) \/ SetAttrApply(i)
  PROVE  CacheInv'
<1>1. ASSUME NEW attrs \in Asks, SetAttr(i, attrs)
      PROVE  CacheInv'
  <2>1. PICK x, u : x = cur[i].handle /\ u = target[i]
    BY Zenon
  <2>2. /\ cache' = Invalidate(cache, x) /\ UNCHANGED <<tree, cur, info, held, files>>
        /\ pc[i] = "idle"
    BY <1>1, <2>1 DEF SetAttr, Idle
  <2>3. \A k \in Objects : Due(i, k) => k = x
    BY <2>2 DEF Due, DueAt
  <2>4. CASE UNCHANGED <<pc, target, todo>>
    <3>1. Staged("idle", u, info[i], cur[i])
      BY DEF Staged
    <3>2. /\ pc' = [pc EXCEPT ![i] = "idle"] /\ target' = [target EXCEPT ![i] = u]
          /\ u \in FileHandle \cup {None}
      BY <2>1, <2>2, <2>4, Stays
    <3>3. Drops(i, x, "idle", u)
      BY <2>2, <2>3, <2>4, <3>1, <3>2, HandlerFacts, Zenon DEF Drops, Stages
    <3> QED
      BY <3>3, GoInvalidating
  <2>5. CASE /\ target' = [target EXCEPT ![i] = cur[i]]
             /\ todo' = [todo EXCEPT ![i] = SetAttrCalls(Decoded[attrs])]
             /\ Goto(i, "apply")
    <3>1. PICK t \in FileHandle : t = cur[i]
      BY HandlerFacts, Zenon
    <3>2. Staged("apply", t, info[i], cur[i]) /\ t.handle = x
      BY <2>1, <3>1, NoneAssumption DEF Staged
    <3>3. DOMAIN todo' = Handlers
      BY <2>5 DEF CacheInv, CacheType
    <3>4. Drops(i, x, "apply", t)
      BY <2>2, <2>3, <2>5, <3>1, <3>2, <3>3, HandlerFacts, ZenonT(60) DEF Drops, Stages, Goto
    <3> QED
      BY <3>4, GoInvalidating, Zenon
  <2> QED
    BY <1>1, <2>4, <2>5, Zenon DEF SetAttr
<1>2. CASE SetAttrApply(i)
  <2>1. PICK o, R, t : /\ o = Resolve(target[i].path) /\ R = {o} \cap {target[i].handle}
                       /\ t = target[i]
    BY ZenonT(60)
  <2>2. pc[i] = "apply" /\ UNCHANGED <<tree, cur, files>>
    BY <1>2, ZenonT(60) DEF SetAttrApply
  <2>3. \A k \in Objects : k \in R /\ cache[k] # None => i \in cache[k].amid
    BY <2>1, <2>2 DEF CacheInv, Kept
  <2>4. CASE /\ cache' = Changed(i, {o}, R) /\ info' = OutdatedInfo({o})
             /\ todo' = [todo EXCEPT ![i] = Tail(@)] /\ UNCHANGED <<pc, target, held>>
    <3>1. /\ pc' = [pc EXCEPT ![i] = "apply"] /\ target' = [target EXCEPT ![i] = t]
          /\ t \in FileHandle \cup {None}
      BY <2>1, <2>2, <2>4, Stays, Zenon
    <3>2. Staged("apply", t, info[i], cur[i])
      BY <2>1, <2>2, HandlerFacts
    <3>3. DOMAIN todo' = Handlers
      BY <2>4 DEF CacheInv, CacheType
    <3>4. \A k \in Objects : Due(i, k) => DueAt("apply", t, k)
      BY <2>1, <2>2 DEF Due
    <3>5. Changes(i, {o}, R, "apply", t)
      BY <2>1, <2>2, <2>3, <2>4, <3>1, <3>2, <3>3, <3>4, HandlerFacts, Zenon DEF Changes, Stages
    <3> QED
      BY <3>5, GoChanging
  <2>5. CASE Return(i, Changed(i, {o}, R), OutdatedInfo({o}))
    <3>1. PICK c, f : c = Changed(i, {o}, R) /\ f = OutdatedInfo({o})
      OBVIOUS
    <3>2. \A k \in Objects : cache[k] # None => i \notin cache[k].outlived
      BY <2>2, NotOutlived, Zenon
    <3>3. Follows({i}, c) /\ \A k \in Objects : c[k] # None => i \notin c[k].outlived
      <4>1. Follows({i}, c) /\ Altered(i, R, c)
        BY <3>1, FollowsChanged, Zenon
      <4> QED
        BY <2>3, <3>2, <4>1, Zenon DEF Altered
    <3>4. Return(i, c, f) /\ Holds(f)
      BY <2>5, <3>1, HoldsOutdated
    <3>5. cur' \in [Handlers -> FileHandle]
      BY <2>2 DEF CacheInv, CacheType
    <3> QED
      BY <2>2, <3>3, <3>4, <3>5, HandlerFacts, ReturnKeeps, Zenon
  <2> QED
    BY <1>2, <2>1, <2>4, <2>5, Zenon DEF SetAttrApply
<1> QED
  BY <1>1, <1>2, Zenon

\* SETXATTR, REMOVEXATTR and COMMIT.
LEMMA SetXAttrStep ==
  ASSUME CacheInv, NEW i \in Handlers,
         \/ SetXAttr(i) \/ SetExtendedAttr(i) \/ SetXAttrTimes(i)
         \/ InvalidateTarget(i) \/ Commit(i)
  PROVE  CacheInv'
<1>1. CASE SetXAttr(i)
  <2>1. PICK t \in FileHandle : t = cur[i]
    BY HandlerFacts, ZenonT(60)
  <2>2. Staged("xset", t, info[i], cur[i])
    BY <2>1, NoneAssumption, Zenon DEF Staged
  <2> QED
    BY <1>1, <2>1, <2>2, GoQuiet, ZenonT(60) DEF SetXAttr, Goto, Idle, Stages
<1>2. CASE SetExtendedAttr(i)
  <2>1. PICK O, R, t : /\ O = {Resolve(target[i].path)} /\ R = O \cap {target[i].handle}
                       /\ t = target[i]
    BY Zenon
  <2>2. /\ pc[i] = "xset" /\ UNCHANGED <<tree, cur, target, held, todo, files>>
        /\ cache' = Changed(i, O, R) /\ info' = OutdatedInfo(O)
        /\ pc' = [pc EXCEPT ![i] = "xtimes"]
    BY <1>2, <2>1, Zenon DEF SetExtendedAttr, Goto
  <2>3. target' = [target EXCEPT ![i] = t] /\ t \in FileHandle /\ t # None
    BY <2>1, <2>2, Stays, HandlerFacts, NoneAssumption, Zenon
  <2>4. Staged("xtimes", t, info[i], cur[i])
    BY <2>3 DEF Staged
  <2>5. /\ \A k \in Objects : ~Due(i, k)
        /\ \A k \in R : DueAt("xtimes", t, k)
    BY <2>1, <2>2 DEF Due, DueAt
  <2>6. Changes(i, O, R, "xtimes", t)
    BY <2>2, <2>3, <2>4, <2>5, HandlerFacts, Zenon DEF Changes, Stages
  <2> QED
    BY <2>6, GoChanging
<1>3. CASE SetXAttrTimes(i)
  <2>1. PICK O : /\ cache' = Changed(i, O, O \cap {target[i].handle})
                 /\ info' = OutdatedInfo(O)
    BY <1>3, Zenon DEF SetXAttrTimes
  <2>2. PICK R, t : R = O \cap {target[i].handle} /\ t = target[i]
    BY Zenon
  <2>3. /\ pc[i] = "xtimes" /\ UNCHANGED <<tree, cur, target, held, todo, files>>
        /\ pc' = [pc EXCEPT ![i] = "invalidate"]
    BY <1>3, Zenon DEF SetXAttrTimes, Goto
  <2>4. target' = [target EXCEPT ![i] = t] /\ t \in FileHandle /\ t # None
    BY <2>2, <2>3, Stays, HandlerFacts, NoneAssumption
  <2>5. Staged("invalidate", t, info[i], cur[i])
    BY <2>4 DEF Staged
  <2>6. /\ \A k \in Objects : Due(i, k) => DueAt("invalidate", t, k)
        /\ \A k \in R : DueAt("invalidate", t, k)
    BY <2>2, <2>3 DEF Due, DueAt
  <2>7. Changes(i, O, R, "invalidate", t)
    BY <2>1, <2>2, <2>3, <2>4, <2>5, <2>6, HandlerFacts, Zenon DEF Changes, Stages
  <2> QED
    BY <2>7, GoChanging, Zenon
<1>4. CASE InvalidateTarget(i)
  <2>1. PICK x, c, f : x = target[i].handle /\ c = Invalidate(cache, x) /\ f = info
    OBVIOUS
  <2>2. /\ Follows({i}, c)
        /\ \A k \in Objects : c[k] # None => c[k] = cache[k] /\ k # x
    BY <2>1, FollowsInvalidate, ZenonT(60)
  <2>3. \A k \in Objects : cache[k] # None /\ i \in cache[k].outlived => k = x
    BY <1>4, <2>1, ZenonT(60) DEF InvalidateTarget, CacheInv, Kept, Due, DueAt
  <2>4. \A k \in Objects : c[k] # None => i \notin c[k].outlived
    BY <2>2, <2>3
  <2>5. Return(i, c, f) /\ Holds(f)
    BY <1>4, <2>1, HoldsOutdated, ZenonT(60) DEF InvalidateTarget
  <2>6. cur' \in [Handlers -> FileHandle]
    BY <1>4 DEF InvalidateTarget, CacheInv, CacheType
  <2> QED
    BY <1>4, <2>2, <2>4, <2>5, <2>6, HandlerFacts, ReturnKeeps, Zenon DEF InvalidateTarget
<1>5. CASE Commit(i)
  <2>1. PICK x, u : x = cur[i].handle /\ u = target[i]
    OBVIOUS
  <2>2. /\ cache' = Invalidate(cache, x)
        /\ UNCHANGED <<tree, pc, cur, target, info, held, todo, files>>
        /\ pc[i] = "idle"
    BY <1>5, <2>1, ZenonT(60) DEF Commit, Idle
  <2>3. \A k \in Objects : Due(i, k) => k = x
    BY <2>2, Zenon DEF Due, DueAt
  <2>4. Staged("idle", u, info[i], cur[i])
    BY DEF Staged
  <2>5. /\ pc' = [pc EXCEPT ![i] = "idle"] /\ target' = [target EXCEPT ![i] = u]
        /\ u \in FileHandle \cup {None}
    BY <2>1, <2>2, Stays
  <2>6. Drops(i, x, "idle", u)
    BY <2>2, <2>3, <2>4, <2>5, HandlerFacts, Zenon DEF Drops, Stages
  <2> QED
    BY <2>6, GoInvalidating, Zenon
<1> QED
  BY <1>1, <1>2, <1>3, <1>4, <1>5

\* A call that changes the directory.
LEMMA DirCallStep ==
  ASSUME CacheInv, NEW i \in Handlers, pc[i] = "idle", NEW tr \in [Names -> Files \cup {None}],
         NEW O, NEW s \in {"created", "invalidate"}, NEW p \in Names \cup {Root},
         s = "created" => p \in Names, DirCall(i, tr, O, s, p)
  PROVE  CacheInv'
<1>1. PICK P, t : P = O \cup {Root} /\ t = [handle |-> Root, path |-> p]
  BY ZenonT(60)
<1>2. t \in FileHandle /\ t # None /\ t.handle = Root /\ t.path = p
  BY <1>1, NoneAssumption, SMTT(60) DEF FileHandle, Objects
<1>3. Staged(s, t, info[i], cur[i])
  BY <1>2, Zenon DEF Staged
<1>4. (\A k \in Objects : ~Due(i, k)) /\ DueAt(s, t, Root)
  BY <1>2 DEF Due, DueAt
<1>5. Changes(i, P, {Root}, s, t)
  BY <1>1, <1>2, <1>3, <1>4, HandlerFacts, Zenon DEF DirCall, Goto, Changes, Stages
<1> QED
  BY <1>5, GoChanging

\* CREATE, REMOVE, RENAME and LINK.
LEMMA ChangeDirectoryStep ==
  ASSUME CacheInv, NEW i \in Handlers, ChangeDirectory(i)
  PROVE  CacheInv'
<1> tree \in [Names -> Files \cup {None}]
  BY HandlerFacts, Zenon
<1>1. ASSUME NEW n \in Names, Remove(i, n)
      PROVE  CacheInv'
  <2>1. PICK tr, O : tr = [tree EXCEPT ![n] = None] /\ O = {tree[n]}
    BY Zenon
  <2>2. /\ tr \in [Names -> Files \cup {None}] /\ pc[i] = "idle"
        /\ DirCall(i, tr, O, "invalidate", Root)
    BY <1>1, <2>1 DEF Remove, Idle
  <2> QED
    BY <2>2, DirCallStep
<1>2. ASSUME NEW n \in Names, NEW o \in Files, Create(i, n, o)
      PROVE  CacheInv'
  <2>1. PICK tr : tr = [tree EXCEPT ![n] = o]
    BY Zenon
  <2>2. tr \in [Names -> Files \cup {None}] /\ pc[i] = "idle" /\ DirCall(i, tr, {}, "created", n)
    BY <1>2, <2>1 DEF Create, Idle
  <2> QED
    BY <2>2, DirCallStep
<1>3. ASSUME NEW n \in Names, NEW m \in Names, Rename(i, m, n)
      PROVE  CacheInv'
  <2>1. PICK ts : ts = [tree EXCEPT ![m] = None]
    BY Zenon
  <2>2. PICK tr, O : tr = [ts EXCEPT ![n] = tree[m]] /\ O = {tree[m], tree[n]} \ {None}
    BY Zenon
  <2>3. ts \in [Names -> Files \cup {None}]
    BY <2>1
  <2>4. tr \in [Names -> Files \cup {None}]
    BY <2>2, <2>3
  <2>5. pc[i] = "idle" /\ DirCall(i, tr, O, "invalidate", Root)
    BY <1>3, <2>1, <2>2 DEF Rename, Idle
  <2> QED
    BY <2>4, <2>5, DirCallStep
<1>4. ASSUME NEW n \in Names, NEW m \in Names, Link(i, m, n)
      PROVE  CacheInv'
  <2>1. PICK tr, O : tr = [tree EXCEPT ![n] = tree[m]] /\ O = {tree[m]}
    BY ZenonT(60)
  <2>2. /\ tr \in [Names -> Files \cup {None}] /\ pc[i] = "idle"
        /\ DirCall(i, tr, O, "invalidate", Root)
    BY <1>4, <2>1 DEF Link, Idle
  <2> QED
    BY <2>2, DirCallStep
<1>5. CASE CreateInvalidate(i)
  <2>1. PICK x, t : x = target[i].handle /\ t = target[i]
    OBVIOUS
  <2>2. /\ cache' = Invalidate(cache, x) /\ pc[i] = "created"
        /\ UNCHANGED <<tree, cur, target, info, held, todo, files>>
        /\ pc' = [pc EXCEPT ![i] = "chandle"]
    BY <1>5, <2>1 DEF CreateInvalidate, Goto
  <2>3. \A k \in Objects : Due(i, k) => k = x
    BY <2>1, <2>2, Zenon DEF Due, DueAt
  <2>4. target' = [target EXCEPT ![i] = t] /\ t \in FileHandle /\ t # None
    BY <2>1, <2>2, Stays, HandlerFacts, NoneAssumption, Zenon
  <2>5. Staged("chandle", t, info[i], cur[i])
    BY <2>1, <2>2, <2>4, HandlerFacts DEF Staged
  <2>6. Drops(i, x, "chandle", t)
    BY <2>2, <2>3, <2>4, <2>5, HandlerFacts, ZenonT(60) DEF Drops, Stages
  <2> QED
    BY <2>6, GoInvalidating
<1>6. CASE CreateHandle(i)
  <2>1. PICK p \in Names \cup {Root} : p = target[i].path
    BY <1>6, HandlerFacts DEF CreateHandle
  <2>2. PICK fh : fh = IF Resolve(p) = None THEN cur[i] ELSE [handle |-> Resolve(p), path |-> p]
    BY ZenonT(60)
  <2>3. fh \in FileHandle /\ Rooted(fh)
    BY <2>2, ResolveFacts, HandlerFacts, ZenonT(60)
  <2>4. cur' = [cur EXCEPT ![i] = fh]
    BY <1>6, <2>1, <2>2, Zenon DEF CreateHandle, CacheInv, CacheType
  <2>5. /\ cur' \in [Handlers -> FileHandle] /\ cur'[i] = fh
        /\ \A j \in Handlers \ {i} : cur'[j] = cur[j]
    BY <2>3, <2>4 DEF CacheInv, CacheType
  <2>6. PICK c, f : c = cache /\ f = info
    OBVIOUS
  <2>7. Follows({i}, c) /\ Holds(f) /\ Return(i, c, f)
    BY <1>6, <2>6, FollowsItself, HoldsOutdated, Zenon DEF CreateHandle
  <2>8. \A x \in Objects : c[x] # None => i \notin c[x].outlived
    BY <1>6, <2>6, NotOutlived, Zenon DEF CreateHandle
  <2> QED
    BY <1>6, <2>3, <2>5, <2>7, <2>8, HandlerFacts, ReturnKeeps, ZenonT(60) DEF CreateHandle
<1> QED
  BY <1>1, <1>2, <1>3, <1>4, <1>5, <1>6 DEF ChangeDirectory

\* A call of the file system fails.
LEMMA CallFailsStep ==
  ASSUME CacheInv, NEW i \in Handlers, CallFails(i)
  PROVE  CacheInv'
<1>1. PICK c, f : c = cache /\ f = info
  OBVIOUS
<1>2. Follows({i}, c) /\ Holds(f) /\ Return(i, c, f)
  BY <1>1, FollowsItself, HoldsOutdated DEF CallFails
<1>3. \A x \in Objects : c[x] # None => i \notin c[x].outlived
  BY <1>1, NotOutlived DEF CallFails
<1>4. cur' \in [Handlers -> FileHandle]
  BY DEF CallFails, CacheInv, CacheType
<1> QED
  BY <1>2, <1>3, <1>4, HandlerFacts, ReturnKeeps DEF CallFails

\* OPEN.
LEMMA OpenStep ==
  ASSUME CacheInv, NEW i \in Handlers,
         \/ \E n \in Names :
              \/ \E how \in {"chmod", "create", "write", "claim"} : OpenExisting(i, n, how)
              \/ \E o \in Files : OpenNew(i, n, o)
         \/ OpenChmod(i)
  PROVE  CacheInv'
<1>1. ASSUME NEW n \in Names, NEW how \in {"chmod", "create", "write", "claim"},
             OpenExisting(i, n, how)
      PROVE  CacheInv'
  <2>1. PICK t : t = [handle |-> tree[n], path |-> n]
    BY Zenon
  <2>2. tree[n] \in Objects
    BY <1>1, HandlerFacts, Zenon DEF OpenExisting, Objects
  <2>3. t \in FileHandle /\ t # None /\ t.path = n
    BY <2>1, <2>2, NoneAssumption, SMTT(60) DEF FileHandle
  <2>4. Staged(how, t, info[i], cur[i])
    BY <1>1, <2>3 DEF Staged, OpenExisting, InRoot
  <2>5. /\ how \in Stages /\ how # "apply"
        /\ pc[i] \notin {"xtimes", "invalidate", "created", "chmod", "create"}
    BY <1>1, ZenonT(60) DEF OpenExisting, Idle, Stages
  <2>6. /\ pc' = [pc EXCEPT ![i] = how] /\ target' = [target EXCEPT ![i] = t]
        /\ UNCHANGED <<tree, cache, cur, info, held, todo, files>>
    BY <1>1, <2>1, Zenon DEF OpenExisting, Goto
  <2> QED
    BY <2>3, <2>4, <2>5, <2>6, GoQuiet, Zenon
<1>2. ASSUME NEW n \in Names, NEW o \in Files, OpenNew(i, n, o)
      PROVE  CacheInv'
  <2>1. PICK t : t = [handle |-> o, path |-> n]
    BY Zenon
  <2>2. PICK how \in {"chmod", "create"} : pc' = [pc EXCEPT ![i] = how]
    BY <1>2, ZenonT(60) DEF OpenNew, Goto
  <2>3. t \in FileHandle /\ t # None /\ t.path = n
    BY <2>1, NoneAssumption DEF FileHandle, Objects
  <2>4. Staged(how, t, info[i], cur[i])
    BY <1>2, <2>2, <2>3, ZenonT(60) DEF Staged, OpenNew, InRoot
  <2>5. (\A k \in Objects : ~Due(i, k)) /\ DueAt(how, t, Root)
    BY <1>2, <2>2 DEF Due, DueAt, OpenNew, Idle
  <2>6. tree' \in [Names -> Files \cup {None}]
    BY <1>2, HandlerFacts, ZenonT(60) DEF OpenNew
  <2>7. Changes(i, {Root}, {Root}, how, t)
    BY <1>2, <2>1, <2>2, <2>3, <2>4, <2>5, <2>6, HandlerFacts, Zenon DEF OpenNew, Changes, Stages
  <2> QED
    BY <2>7, GoChanging
<1>3. CASE OpenChmod(i)
  <2>1. PICK O : cache' = Changed(i, O, {}) /\ info' = OutdatedInfo(O)
    BY <1>3, Zenon DEF OpenChmod
  <2>2. PICK t : t = target[i]
    BY Zenon
  <2>3. /\ pc[i] = "chmod" /\ UNCHANGED <<tree, cur, target, held, todo, files>>
        /\ pc' = [pc EXCEPT ![i] = "create"]
    BY <1>3, Zenon DEF OpenChmod, Goto
  <2>4. target' = [target EXCEPT ![i] = t] /\ t \in FileHandle /\ t # None
    BY <2>2, <2>3, Stays, HandlerFacts, NoneAssumption, Zenon
  <2>5. Staged("create", t, info[i], cur[i])
    BY <2>2, <2>3, <2>4, HandlerFacts, Zenon DEF Staged
  <2>6. \A k \in Objects : Due(i, k) => DueAt("create", t, k)
    BY <2>3 DEF Due, DueAt
  <2>7. Changes(i, O, {}, "create", t)
    BY <2>1, <2>3, <2>4, <2>5, <2>6, HandlerFacts, ZenonT(60) DEF Changes, Stages
  <2> QED
    BY <2>7, GoChanging
<1> QED
  BY <1>1, <1>2, <1>3

\* OPEN answers.
LEMMA OpenHandleStep ==
  ASSUME CacheInv, NEW i \in Handlers, OpenHandle(i)
  PROVE  CacheInv'
<1>1. PICK n \in Names : n = target[i].path
  BY HandlerFacts, Zenon DEF OpenHandle, Staged
<1>2. PICK k : k = IF pc[i] = "claim" THEN cur[i].handle ELSE Resolve(n)
  OBVIOUS
<1>3. k \in Objects
  BY <1>1, <1>2, HandlerFacts, ResolveFacts, Zenon DEF OpenHandle
<1>4. PICK fh, g : fh = [handle |-> k, path |-> n] /\ g = [obj |-> target[i].handle, handle |-> k]
  BY ZenonT(60)
<1>5. n # Root
  BY AttrCacheAssumption, Zenon
<1>6. fh \in FileHandle /\ Rooted(fh)
  BY <1>3, <1>4, <1>5, Zenon DEF FileHandle, Rooted
<1>7. g \in OpenFile
  <2>1. target[i].handle \in Objects
    BY HandlerFacts, Zenon DEF OpenHandle
  <2> QED
    BY <1>3, <1>4, <2>1, Zenon DEF OpenFile
<1>8. cur' = [cur EXCEPT ![i] = fh] /\ files' = files \cup {g}
  BY <1>1, <1>2, <1>4, Zenon DEF OpenHandle
<1>9. /\ cur' \in [Handlers -> FileHandle] /\ cur'[i] = fh
      /\ \A j \in Handlers \ {i} : cur'[j] = cur[j]
  BY <1>6, <1>8 DEF CacheInv, CacheType
<1>10. files' \subseteq OpenFile
  BY <1>7, <1>8, HandlerFacts, ZenonT(60)
<1>11. PICK x, c, f : /\ x = IF pc[i] = "create" THEN cur[i].handle ELSE k
                      /\ c = Invalidate(cache, x) /\ f = info
  BY Zenon
<1>12. Return(i, c, f) /\ Holds(f) /\ tree' = tree
  BY <1>1, <1>2, <1>11, HoldsOutdated, Zenon DEF OpenHandle
<1>13. /\ Follows({i}, c)
       /\ \A y \in Objects : c[y] # None => c[y] = cache[y] /\ y # x
  <2>1. c = Invalidate(cache, x)
    BY <1>11, Zenon
  <2> QED
    BY <2>1, FollowsInvalidate
<1>14. \A y \in Objects : cache[y] # None /\ i \in cache[y].outlived => y = x
  <2>1. CASE pc[i] = "create"
    <3>1. x = Root
      BY <1>11, <2>1, HandlerFacts, Zenon DEF Staged, Rooted
    <3> QED
      BY <2>1, <3>1, Zenon DEF CacheInv, Kept, Due, DueAt
  <2>2. CASE pc[i] # "create"
    BY <2>2, NotOutlived, Zenon DEF OpenHandle
  <2> QED
    BY <2>1, <2>2, Zenon
<1>15. \A y \in Objects : c[y] # None => i \notin c[y].outlived
  BY <1>13, <1>14
<1> QED
  BY <1>6, <1>9, <1>10, <1>12, <1>13, <1>15, HandlerFacts, ReturnKeeps, ZenonT(60)

\* OPEN answers with an error.
LEMMA OpenFailsStep ==
  ASSUME CacheInv, NEW i \in Handlers, OpenFails(i)
  PROVE  CacheInv'
<1>1. PICK c, f : /\ c = [k \in Objects |->
                            IF cache[k] = None THEN None
                            ELSE [cache[k] EXCEPT !.outlived = @ \ {i}]]
                  /\ f = info
  BY Zenon
<1>2. ASSUME NEW k \in Objects, cache[k] # None
      PROVE  /\ c[k] \in Entry /\ c[k].path = cache[k].path /\ c[k].amid = cache[k].amid
             /\ Timely(c[k]) /\ c[k].outlived = cache[k].outlived \ {i}
  <2>1. PICK e \in Entry : e = cache[k] /\ Timely(e)
    BY <1>2, Zenon DEF CacheInv, CacheType, Kept
  <2>2. e.outlived \ {i} \in SUBSET Handlers
    BY DEF Entry
  <2>3. PICK d : d = [e EXCEPT !.outlived = e.outlived \ {i}]
    BY Zenon
  <2>4. /\ d \in Entry /\ d.path = e.path /\ d.fi = e.fi /\ d.age = e.age
        /\ d.late = e.late /\ d.amid = e.amid /\ d.outlived = e.outlived \ {i}
    BY <2>2, <2>3, EntryOutlived, Zenon
  <2>5. Timely(d)
    BY <2>1, <2>4 DEF Timely
  <2>6. c[k] = d
    BY <1>1, <1>2, <2>1, <2>3
  <2> QED
    BY <2>1, <2>4, <2>5, <2>6
<1>3. \A k \in Objects : cache[k] = None => c[k] = None
  BY <1>1
<1>4. c \in [Objects -> Entry \cup {None}]
  <2>1. \A k \in Objects : c[k] \in Entry \cup {None}
    BY <1>2, <1>3
  <2>2. c = [k \in Objects |-> c[k]]
    BY <1>1
  <2> QED
    BY <2>1, <2>2, Zenon
<1>5. Follows({i}, c)
  BY <1>2, <1>3, <1>4, ZenonT(60) DEF Follows, CacheInv, Kept
<1>6. \A k \in Objects : c[k] # None => i \notin c[k].outlived
  BY <1>2, <1>3
<1>7. Return(i, c, f) /\ Holds(f)
  BY <1>1, HoldsOutdated DEF OpenFails
<1>8. cur' \in [Handlers -> FileHandle]
  BY DEF OpenFails, CacheInv, CacheType
<1> QED
  BY <1>5, <1>6, <1>7, <1>8, HandlerFacts, ReturnKeeps DEF OpenFails

\* WRITE and CLOSE.
LEMMA WriteStep ==
  ASSUME CacheInv, NEW i \in Handlers,
         \/ \E f \in files : WriteUnstable(i, f) \/ WriteStable(i, f) \/ Close(i, f)
         \/ CloseFile(i)
  PROVE  CacheInv'
<1>1. ASSUME NEW f \in files, WriteUnstable(i, f)
      PROVE  CacheInv'
  <2>1. PICK O, u : O = {f.obj} /\ u = target[i]
    BY ZenonT(60)
  <2>2. /\ pc[i] = "idle" /\ UNCHANGED <<tree, pc, cur, target, held, todo, files>>
        /\ cache' = Changed(i, O, {}) /\ info' = OutdatedInfo(O)
    BY <1>1, <2>1, Zenon DEF WriteUnstable, Idle
  <2>3. /\ pc' = [pc EXCEPT ![i] = "idle"] /\ target' = [target EXCEPT ![i] = u]
        /\ u \in FileHandle \cup {None}
    BY <2>1, <2>2, Stays, Zenon
  <2>4. Staged("idle", u, info[i], cur[i])
    BY Zenon DEF Staged
  <2>5. \A k \in Objects : ~Due(i, k)
    BY <2>2 DEF Due, DueAt
  <2>6. Changes(i, O, {}, "idle", u)
    BY <2>2, <2>3, <2>4, <2>5, HandlerFacts, Zenon DEF Changes, Stages
  <2> QED
    BY <2>6, GoChanging
<1>2. ASSUME NEW f \in files, WriteStable(i, f)
      PROVE  CacheInv'
  <2>1. PICK O, R, t : /\ O = {f.obj} /\ R = O \cap {f.handle}
                       /\ t = [handle |-> f.handle, path |-> Root]
    BY ZenonT(60)
  <2>2. /\ pc[i] = "idle" /\ UNCHANGED <<tree, cur, held, todo, files>>
        /\ cache' = Changed(i, O, R) /\ info' = OutdatedInfo(O)
        /\ pc' = [pc EXCEPT ![i] = "invalidate"] /\ target' = [target EXCEPT ![i] = t]
    BY <1>2, <2>1, Zenon DEF WriteStable, Idle, Goto
  <2>3. f.handle \in Objects
    BY HandlerFacts, ZenonT(60) DEF OpenFile
  <2>4. t \in FileHandle /\ t # None /\ t.handle = f.handle
    BY <2>1, <2>3, NoneAssumption DEF FileHandle
  <2>5. Staged("invalidate", t, info[i], cur[i])
    BY <2>4, ZenonT(60) DEF Staged
  <2>6. (\A k \in Objects : ~Due(i, k)) /\ \A k \in R : DueAt("invalidate", t, k)
    BY <2>1, <2>2, <2>4, ZenonT(60) DEF Due, DueAt
  <2>7. Changes(i, O, R, "invalidate", t)
    BY <2>2, <2>4, <2>5, <2>6, HandlerFacts, Zenon DEF Changes, Stages
  <2> QED
    BY <2>7, GoChanging
<1>3. ASSUME NEW f \in files, Close(i, f)
      PROVE  CacheInv'
  <2>1. PICK x, t : x = f.handle /\ t = [handle |-> f.obj, path |-> Root]
    BY Zenon
  <2>2. /\ pc[i] = "idle" /\ UNCHANGED <<tree, cur, info, held, todo>>
        /\ files' = files \ {f} /\ cache' = Invalidate(cache, x)
        /\ pc' = [pc EXCEPT ![i] = "close"] /\ target' = [target EXCEPT ![i] = t]
    BY <1>3, <2>1 DEF Close, Idle, Goto
  <2>3. f.obj \in Objects
    BY HandlerFacts, Zenon DEF OpenFile
  <2>4. t \in FileHandle /\ t # None
    BY <2>1, <2>3, NoneAssumption, SMTT(60) DEF FileHandle
  <2>5. Staged("close", t, info[i], cur[i])
    BY <2>4, Zenon DEF Staged
  <2>6. \A k \in Objects : Due(i, k) => k = x
    BY <2>2 DEF Due, DueAt
  <2>7. Drops(i, x, "close", t)
    BY <2>2, <2>4, <2>5, <2>6, HandlerFacts, ZenonT(60) DEF Drops, Stages
  <2> QED
    BY <2>7, GoInvalidating
<1>4. CASE CloseFile(i)
  <2>1. PICK O : Return(i, Changed(i, O, {}), OutdatedInfo(O))
    BY <1>4, Zenon DEF CloseFile
  <2>2. PICK c, f : c = Changed(i, O, {}) /\ f = OutdatedInfo(O)
    OBVIOUS
  <2>3. Return(i, c, f) /\ Holds(f)
    BY <2>1, <2>2, HoldsOutdated
  <2>4. Follows({i}, c) /\ Altered(i, {}, c)
    BY <2>2, FollowsChanged, Zenon
  <2>5. \A k \in Objects : cache[k] # None => i \notin cache[k].outlived
    BY <1>4, NotOutlived, Zenon DEF CloseFile
  <2>6. \A k \in Objects : c[k] # None => i \notin c[k].outlived
    BY <2>4, <2>5, Zenon DEF Altered
  <2>7. cur' \in [Handlers -> FileHandle]
    BY <1>4, ZenonT(60) DEF CloseFile, CacheInv, CacheType
  <2> QED
    BY <1>4, <2>3, <2>4, <2>6, <2>7, HandlerFacts, ReturnKeeps, ZenonT(60) DEF CloseFile
<1> QED
  BY <1>1, <1>2, <1>3, <1>4

\* A step of no handler: each entry stays as it is but for its attributes and age, or
\* goes.
LEMMA OutsideKeeps ==
  ASSUME CacheInv, NEW c, Follows({}, c), cache' = c,
         UNCHANGED <<tree, pc, cur, target, todo, files>>,
         info' \in [Handlers -> Info \cup {None}], held' \in [Handlers -> 0..MaxDelay],
         \A j \in Handlers : info'[j] = None <=> info[j] = None,
         \A j \in Handlers : info'[j] # None => info'[j].since <= held'[j]
  PROVE  CacheInv'
<1>1. CacheType'
  BY ZenonT(60) DEF CacheInv, CacheType, Follows
<1>2. Others({})
  BY ZenonT(60) DEF Others
<1> QED
  BY <1>1, <1>2, StepKeeps

\* Another user changes a file.
LEMMA ElsewhereStep ==
  ASSUME CacheInv, NEW o \in Objects, Elsewhere(o)
  PROVE  CacheInv'
<1>1. PICK c : c = [k \in Objects |->
                      IF cache[k] = None THEN None
                      ELSE [cache[k] EXCEPT !.fi = Outdate(@, {o})]]
  BY ZenonT(60)
<1>2. ASSUME NEW k \in Objects, cache[k] # None
      PROVE  /\ c[k] \in Entry /\ c[k].path = cache[k].path /\ c[k].amid = cache[k].amid
             /\ Timely(c[k]) /\ c[k].outlived = cache[k].outlived
  <2>1. PICK e \in Entry : e = cache[k] /\ Timely(e)
    BY <1>2, Zenon DEF CacheInv, CacheType, Kept
  <2>2. e.fi \in Info /\ None \notin Info
    BY NoneAssumption DEF Entry
  <2>3. PICK fi : fi = Outdate(e.fi, {o})
    BY Zenon
  <2>4. fi \in Info /\ (fi.since = e.fi.since \/ fi.since = 0)
    BY <2>2, <2>3, OutdateFacts
  <2>5. PICK d : d = [e EXCEPT !.fi = fi]
    BY Zenon
  <2>6. /\ d \in Entry /\ d.path = e.path /\ d.fi = fi /\ d.age = e.age
        /\ d.late = e.late /\ d.amid = e.amid /\ d.outlived = e.outlived
    BY <2>4, <2>5, EntryOutdated, Zenon
  <2>7. Timely(d)
    BY <2>1, <2>4, <2>6, TimelyOutdated
  <2>8. c[k] = d
    BY <1>1, <1>2, <2>1, <2>3, <2>5 DEF Entry
  <2> QED
    BY <2>1, <2>6, <2>7, <2>8
<1>3. \A k \in Objects : cache[k] = None => c[k] = None
  BY <1>1
<1>4. c \in [Objects -> Entry \cup {None}]
  <2>1. \A k \in Objects : c[k] \in Entry \cup {None}
    BY <1>2, <1>3
  <2>2. c = [k \in Objects |-> c[k]]
    BY <1>1
  <2> QED
    BY <2>1, <2>2, Zenon
<1>5. Follows({}, c)
  BY <1>2, <1>3, <1>4, Zenon DEF Follows, CacheInv, Kept
<1>6. PICK f : f = OutdatedInfo({o})
  OBVIOUS
<1>7. Holds(f)
  BY <1>6, HoldsOutdated
<1>8. /\ cache' = c /\ info' = f /\ UNCHANGED <<tree, pc, cur, target, held, todo, files>>
  BY <1>1, <1>6, Zenon DEF Elsewhere
<1>9. held' \in [Handlers -> 0..MaxDelay]
  BY <1>8, Zenon DEF CacheInv, CacheType
<1> QED
  BY <1>5, <1>7, <1>8, <1>9, OutsideKeeps, Zenon DEF Holds

\* A pass of gc.
LEMMA GcStep ==
  ASSUME CacheInv, Gc
  PROVE  CacheInv'
<1>1. PICK c : c = [k \in Objects |-> IF Cached(k) THEN cache[k] ELSE None]
  BY Zenon
<1>2. cache' = c /\ UNCHANGED <<tree, pc, cur, target, info, held, todo, files>>
  BY <1>1, Zenon DEF Gc
<1>3. /\ \A k \in Objects : c[k] = cache[k] \/ c[k] = None
      /\ c \in [Objects -> Entry \cup {None}]
  BY <1>1 DEF CacheInv, CacheType
<1>4. Follows({}, c)
  BY <1>3, Zenon DEF Follows, CacheInv, Kept
<1>5. Holds(info)
  BY HoldsOutdated, Zenon
<1>6. /\ info' \in [Handlers -> Info \cup {None}] /\ held' \in [Handlers -> 0..MaxDelay]
      /\ \A j \in Handlers : info'[j] = None <=> info[j] = None
      /\ \A j \in Handlers : info'[j] # None => info'[j].since <= held'[j]
  BY <1>2, <1>5, Zenon DEF Holds, CacheInv, CacheType
<1> QED
  BY <1>2, <1>4, <1>6, OutsideKeeps

\* An entry with other attributes and another age.
Aged(e, fi, a, l) == [e EXCEPT !.fi = fi, !.age = a, !.late = l]

\* The rest of it is the same.
LEMMA EntryAged ==
  ASSUME NEW e \in Entry, NEW fi \in Info, NEW a \in 0..(Timeout + 1), NEW l \in 0..Cap,
         NEW d, d = Aged(e, fi, a, l)
  PROVE  /\ d \in Entry /\ d.path = e.path /\ d.fi = fi /\ d.age = a /\ d.late = l
         /\ d.amid = e.amid /\ d.outlived = e.outlived
<1>1. PICK b : b = [e EXCEPT !.fi = fi]
  BY Zenon
<1>2. /\ b \in Entry /\ b.path = e.path /\ b.fi = fi /\ b.amid = e.amid
      /\ b.outlived = e.outlived
  BY <1>1, EntryOutdated
<1>3. PICK x : x = [b EXCEPT !.age = a]
  BY Zenon
<1>4. /\ x \in Entry /\ x.path = b.path /\ x.fi = b.fi /\ x.age = a
      /\ x.amid = b.amid /\ x.outlived = b.outlived
  BY <1>2, <1>3, ZenonT(60) DEF Entry
<1>5. d = [x EXCEPT !.late = l]
  BY <1>1, <1>3 DEF Aged
<1>6. /\ d \in Entry /\ d.path = x.path /\ d.fi = x.fi /\ d.age = x.age /\ d.late = l
      /\ d.amid = x.amid /\ d.outlived = x.outlived
  BY <1>4, <1>5, ZenonT(60) DEF Entry
<1> QED
  BY <1>2, <1>4, <1>6, Zenon

\* The clock ticks.
LEMMA TickStep ==
  ASSUME CacheInv, Tick
  PROVE  CacheInv'
<1>0. Timeout \in Nat /\ MaxDelay \in Nat /\ Cap \in Current..Cap
  BY AttrCacheAssumption DEF Cap, Current
<1>1. PICK c : c = [k \in Objects |->
                      IF cache[k] = None THEN None
                      ELSE IF cache[k].age < Timeout
                      THEN [cache[k] EXCEPT !.fi = Older(@), !.age = @ + 1]
                      ELSE Expired(cache[k])]
  BY ZenonT(60)
<1>2. ASSUME NEW k \in Objects, cache[k] # None
      PROVE  /\ c[k] \in Entry /\ c[k].path = cache[k].path /\ c[k].amid = cache[k].amid
             /\ Timely(c[k]) /\ c[k].outlived = cache[k].outlived
  <2>1. PICK e \in Entry : e = cache[k] /\ Timely(e)
    BY <1>2, Zenon DEF CacheInv, CacheType, Kept
  <2>2. /\ e.fi \in Info /\ None \notin Info /\ e.age \in 0..(Timeout + 1)
        /\ e.fi.since \in Int /\ e.late \in 0..Cap
    BY <1>0, NoneAssumption, SMTT(60) DEF Entry, Info, Current, Cap
  <2>3. CASE e.age < Timeout
    <3>1. PICK fi, a : fi = Older(e.fi) /\ a = e.age + 1
      BY Zenon
    <3>2. fi \in Info /\ fi.since <= e.fi.since + 1
      BY <2>2, <3>1, OlderFacts, Zenon
    <3>3. a \in 0..(Timeout + 1)
      BY <1>0, <2>2, <2>3, <3>1
    <3>4. PICK d : d = Aged(e, fi, a, e.late)
      BY Zenon
    <3>5. /\ d \in Entry /\ d.path = e.path /\ d.fi = fi /\ d.age = a /\ d.late = e.late
          /\ d.amid = e.amid /\ d.outlived = e.outlived
      BY <2>2, <3>2, <3>3, <3>4, EntryAged
    <3>6. Timely(d)
      <4>1. e.fi.since <= e.age + e.late /\ e.late \in Nat
        BY <1>0, <2>1, <2>2, <2>3, SMTT(60) DEF Timely, Entry
      <4>2. fi.since \in Int
        BY <1>0, <3>2 DEF Info, Current, Cap
      <4>3. fi.since <= a + e.late
        BY <1>0, <2>2, <3>1, <3>2, <4>1, <4>2
      <4> QED
        BY <3>5, <4>3, Zenon DEF Timely
    <3>7. c[k] = d
      <4>1. c[k] = [e EXCEPT !.fi = fi, !.age = a]
        BY <1>1, <1>2, <2>1, <2>3, <3>1, Zenon DEF Entry
      <4> QED
        BY <3>4, <4>1 DEF Aged, Entry
    <3> QED
      BY <2>1, <3>5, <3>6, <3>7
  <2>4. CASE ~(e.age < Timeout)
    <3>1. PICK fi, a : fi = [of |-> Root, since |-> Cap] /\ a = Timeout + 1
      BY ZenonT(60)
    <3>2. fi \in Info
      BY <1>0, <2>2, <3>1 DEF Info, Objects
    <3>3. a \in 0..(Timeout + 1) /\ ~(a <= Timeout) /\ 0 \in 0..Cap
      BY <1>0, <3>1 DEF Cap
    <3>4. PICK d : d = Aged(e, fi, a, 0)
      OBVIOUS
    <3>5. /\ d \in Entry /\ d.path = e.path /\ d.fi = fi /\ d.age = a
          /\ d.amid = e.amid /\ d.outlived = e.outlived
      BY <3>2, <3>3, <3>4, EntryAged
    <3>6. Timely(d)
      BY <3>3, <3>5 DEF Timely
    <3>7. c[k] = d
      BY <1>1, <1>2, <2>1, <2>4, <3>1, <3>4, Zenon DEF Aged, Expired
    <3> QED
      BY <2>1, <3>5, <3>6, <3>7
  <2> QED
    BY <2>3, <2>4, Zenon
<1>3. \A k \in Objects : cache[k] = None => c[k] = None
  BY <1>1, Zenon
<1>4. c \in [Objects -> Entry \cup {None}]
  <2>1. \A k \in Objects : c[k] \in Entry \cup {None}
    BY <1>2, <1>3
  <2>2. c = [k \in Objects |-> c[k]]
    BY <1>1, ZenonT(60)
  <2> QED
    BY <2>1, <2>2, Zenon
<1>5. Follows({}, c)
  BY <1>2, <1>3, <1>4 DEF Follows, CacheInv, Kept
<1>6. /\ cache' = c /\ UNCHANGED <<tree, pc, cur, target, todo, files>>
      /\ info' = [i \in Handlers |-> Older(info[i])]
      /\ held' = [i \in Handlers |-> IF info[i] = None THEN 0 ELSE held[i] + 1]
      /\ \A i \in Handlers : info[i] # None => held[i] < MaxDelay
  BY <1>1, ZenonT(60) DEF Tick
<1>7. ASSUME NEW j \in Handlers
      PROVE  /\ info'[j] \in Info \cup {None} /\ held'[j] \in 0..MaxDelay
             /\ info'[j] = None <=> info[j] = None
             /\ info'[j] # None => info'[j].since <= held'[j]
  <2>1. PICK fi \in Info \cup {None} : fi = info[j]
    BY Zenon DEF CacheInv, CacheType
  <2>2. held[j] \in 0..MaxDelay
    BY HandlerFacts, Zenon
  <2>3. /\ Older(fi) \in Info \cup {None}
        /\ Older(fi) = None <=> fi = None
        /\ fi # None => Older(fi) \in Info /\ Older(fi).since <= fi.since + 1
    BY OlderFacts, Zenon
  <2>4. info'[j] = Older(fi) /\ held'[j] = IF fi = None THEN 0 ELSE held[j] + 1
    BY <1>6, <2>1, Zenon
  <2>5. CASE fi = None
    BY <1>0, <2>1, <2>3, <2>4, <2>5, SMTT(60)
  <2>6. CASE fi # None
    <3>1. /\ fi \in Info /\ fi.since <= held[j] /\ held[j] < MaxDelay
          /\ Older(fi) \in Info /\ Older(fi).since <= fi.since + 1
      BY <1>6, <2>1, <2>3, <2>6, HandlerFacts, ZenonT(60)
    <3>2. fi.since \in Int /\ Older(fi).since \in Int
      BY <1>0, <3>1 DEF Info, Current, Cap
    <3>3. held[j] + 1 \in 0..MaxDelay /\ Older(fi).since <= held[j] + 1
      BY <1>0, <2>2, <3>1, <3>2, SMTT(60)
    <3> QED
      BY <2>1, <2>3, <2>4, <2>6, <3>3
  <2> QED
    BY <2>5, <2>6, Zenon
<1>8. info' \in [Handlers -> Info \cup {None}] /\ held' \in [Handlers -> 0..MaxDelay]
  BY <1>6, <1>7, Zenon
<1> QED
  BY <1>5, <1>6, <1>7, <1>8, OutsideKeeps
----------------------------------------------------------------------------
\* At first the cache is empty and every handler idle at the root.
LEMMA InitCacheInv ==
  ASSUME Init
  PROVE  CacheInv
<1>1. RootFH \in FileHandle /\ Rooted(RootFH)
  BY Zenon DEF RootFH, FileHandle, Rooted, Objects
<1>2. CacheType
  BY <1>1, AttrCacheAssumption DEF Init, CacheType, Stages
<1>3. \A i \in Handlers : Working(i)
  BY <1>1, Zenon DEF Init, Working, Staged
<1> QED
  BY <1>2, <1>3 DEF Init, CacheInv

\* Every step keeps the invariant.
LEMMA NextCacheInv ==
  ASSUME CacheInv, [Next]_vars
  PROVE  CacheInv'
<1>1. ASSUME NEW i \in Handlers, SetCurrent(i)
      PROVE  CacheInv'
  BY <1>1, SetCurrentStep
<1>2. ASSUME NEW i \in Handlers, ReadAttributes(i)
      PROVE  CacheInv'
  BY <1>2, ReadAttributesStep
<1>3. ASSUME NEW i \in Handlers, ChangeAttributes(i)
      PROVE  CacheInv'
  BY <1>3, SetAttrStep, SetXAttrStep, Zenon DEF ChangeAttributes
<1>4. ASSUME NEW i \in Handlers, ChangeDirectory(i)
      PROVE  CacheInv'
  BY <1>4, ChangeDirectoryStep
<1>5. ASSUME NEW i \in Handlers, UseFile(i)
      PROVE  CacheInv'
  BY <1>5, OpenStep, OpenHandleStep, OpenFailsStep, WriteStep, Zenon DEF UseFile
<1>6. ASSUME NEW i \in Handlers, CallFails(i)
      PROVE  CacheInv'
  BY <1>6, CallFailsStep
<1>7. ASSUME NEW o \in Objects, Elsewhere(o)
      PROVE  CacheInv'
  BY <1>7, ElsewhereStep
<1>8. CASE Gc
  BY <1>8, GcStep
<1>9. CASE Tick
  BY <1>9, TickStep
<1>10. CASE UNCHANGED vars
  BY <1>10, Zenon DEF vars, CacheInv, CacheType, Working, Kept, Due
<1> QED
  BY <1>1, <1>2, <1>3, <1>4, <1>5, <1>6, <1>7, <1>8, <1>9, <1>10, Zenon DEF Next

----------------------------------------------------------------------------
\* What is not out of date, in the cache or in the hands of a reader, is what its
\* path leads to.
Anchors ==
  /\ \A k \in Objects : cache[k] # None /\ cache[k].fi.since = Current =>
       Resolve(cache[k].path) = cache[k].fi.of
  /\ \A i \in Handlers : pc[i] \in {"put", "handle"} /\ info[i].since = Current =>
       Resolve(target[i].path) = info[i].of

\* Attributes gi come after fi: they are up to date only if fi were, and then they
\* are the same and of no object in O.
Later(O, fi, gi) == gi.since = Current => fi.since = Current /\ gi.of = fi.of /\ fi.of \notin O

\* So it is with the entries of cache c and the copies f that handlers hold.
CacheLater(O, c) ==
  \A k \in Objects : c[k] # None /\ c[k].fi.since = Current =>
    cache[k] # None /\ c[k].path = cache[k].path /\ Later(O, cache[k].fi, c[k].fi)

HeldLater(O, f) ==
  \A j \in Handlers : f[j] # None => info[j] # None /\ Later(O, info[j], f[j])

\* A step changes what a name stands for only where it was nothing or one of O.
Moves(O) == \A n \in Names : tree'[n] = tree[n] \/ tree[n] \in O \cup {None}

\* A handler that holds attributes to store has held them for the same path.
Quiet ==
  \A j \in Handlers : pc'[j] \in {"put", "handle"} =>
    pc[j] \in {"put", "handle"} /\ target'[j].path = target[j].path

\* The path of an object that is not among those changed still leads there.
LEMMA ResolveKept ==
  ASSUME CacheInv, NEW O, Moves(O), NEW p \in Names \cup {Root}, NEW o \in Objects, o \notin O,
         Resolve(p) = o
  PROVE  Resolve(p)' = o
<1>1. o # None
  BY AttrCacheAssumption DEF Objects
<1>2. CASE p = Root
  BY <1>2 DEF Resolve
<1>3. CASE p # Root
  BY <1>1, <1>3 DEF Resolve, Moves
<1> QED
  BY <1>2, <1>3

\* A step after which there are only later attributes keeps Anchors.
LEMMA AnchorsKept ==
  ASSUME CacheInv, CacheInv', Anchors, NEW O, Moves(O), CacheLater(O, cache'),
         HeldLater(O, info'), Quiet
  PROVE  Anchors'
<1>1. ASSUME NEW k \in Objects, cache'[k] # None, cache'[k].fi.since = Current
      PROVE  (Resolve(cache[k].path) = cache[k].fi.of)'
  <2>1. /\ cache[k] # None /\ cache'[k].path = cache[k].path
        /\ Later(O, cache[k].fi, cache'[k].fi)
    BY <1>1, Zenon DEF CacheLater
  <2>2. PICK p \in Names \cup {Root}, o \in Objects : p = cache[k].path /\ o = cache[k].fi.of
    BY <2>1 DEF CacheInv, CacheType, Entry, Info
  <2>3. o \notin O /\ cache'[k].fi.of = o /\ Resolve(p) = o
    BY <1>1, <2>1, <2>2, Zenon DEF Later, Anchors
  <2>4. Resolve(p)' = o
    BY <2>3, ResolveKept, Zenon
  <2> QED
    BY <2>1, <2>2, <2>3, <2>4, Zenon DEF Resolve
<1>2. ASSUME NEW i \in Handlers, pc'[i] \in {"put", "handle"}, info'[i].since = Current
      PROVE  (Resolve(target[i].path) = info[i].of)'
  <2>1. info'[i] # None
    BY <1>2, Zenon DEF CacheInv, Working, Staged
  <2>2. /\ info[i] # None /\ Later(O, info[i], info'[i])
        /\ pc[i] \in {"put", "handle"} /\ target'[i].path = target[i].path
    BY <1>2, <2>1, Zenon DEF HeldLater, Quiet
  <2>3. info[i] \in Info /\ target[i].path \in Names \cup {Root}
    BY <2>2, HandlerFacts
  <2>4. PICK p \in Names \cup {Root}, o \in Objects : p = target[i].path /\ o = info[i].of
    BY <2>3 DEF Info
  <2>5. o \notin O /\ info'[i].of = o /\ Resolve(p) = o
    BY <1>2, <2>2, <2>4, Zenon DEF Later, Anchors
  <2>6. Resolve(p)' = o
    BY <2>5, ResolveKept, Zenon
  <2> QED
    BY <2>2, <2>4, <2>5, <2>6, Zenon DEF Resolve
<1> QED
  BY <1>1, <1>2, Zenon DEF Anchors

\* Attributes that become out of date come after those they were.
LEMMA OutdateLater ==
  ASSUME NEW fi \in Info, NEW O
  PROVE  Later(O, fi, Outdate(fi, O))
<1>1. CASE fi # None /\ fi.of \in O /\ fi.since = Current
  <2>1. Outdate(fi, O).since = 0 /\ 0 # Current
    BY <1>1 DEF Outdate, Info, Current
  <2> QED
    BY <2>1, Zenon DEF Later
<1>2. CASE ~(fi # None /\ fi.of \in O /\ fi.since = Current)
  BY <1>2, NoneAssumption, Zenon DEF Outdate, Later
<1> QED
  BY <1>1, <1>2, Zenon

\* What there is comes after itself, when nothing moves.
LEMMA LaterItself ==
  ASSUME CacheInv
  PROVE  CacheLater({}, cache) /\ HeldLater({}, info)
BY Zenon DEF CacheLater, HeldLater, Later

\* The caches and the held copies that the steps of operations leave.
LEMMA LaterOutdated ==
  ASSUME CacheInv, NEW O
  PROVE  /\ \A i \in Handlers : \A R : CacheLater(O, Changed(i, O, R))
         /\ HeldLater(O, OutdatedInfo(O))
<1>1. ASSUME NEW i \in Handlers, NEW R
      PROVE  CacheLater(O, Changed(i, O, R))
  <2>1. PICK c : c = Changed(i, O, R)
    BY Zenon
  <2>2. Outdated(O, c)
    BY <2>1, FollowsChanged, Zenon
  <2>3. ASSUME NEW k \in Objects, cache[k] # None
        PROVE  Later(O, cache[k].fi, Outdate(cache[k].fi, O))
    <3>1. cache[k].fi \in Info
      BY <2>3 DEF CacheInv, CacheType, Entry
    <3> QED
      BY <3>1, OutdateLater, Zenon
  <2> QED
    BY <2>1, <2>2, <2>3, Zenon DEF Outdated, CacheLater
<1>2. ASSUME NEW j \in Handlers, OutdatedInfo(O)[j] # None
      PROVE  info[j] # None /\ Later(O, info[j], OutdatedInfo(O)[j])
  <2>1. OutdatedInfo(O)[j] = Outdate(info[j], O)
    BY Zenon DEF OutdatedInfo
  <2>2. info[j] # None
    BY <1>2, <2>1, Zenon DEF Outdate
  <2>3. info[j] \in Info
    BY <2>2, HandlerFacts, Zenon
  <2> QED
    BY <2>1, <2>2, <2>3, OutdateLater, Zenon
<1> QED
  BY <1>1, <1>2, Zenon DEF HeldLater

\* An invalidation.
LEMMA LaterInvalidate ==
  ASSUME CacheInv, NEW x
  PROVE  CacheLater({}, Invalidate(cache, x))
<1>1. PICK c : c = Invalidate(cache, x)
  BY Zenon
<1>2. \A k \in Objects : c[k] # None => c[k] = cache[k]
  BY <1>1, FollowsInvalidate, Zenon
<1> QED
  BY <1>1, <1>2, Zenon DEF CacheLater, Later

\* A handler that goes on at a stage without attributes to store.
LEMMA QuietStep ==
  ASSUME CacheInv, NEW i \in Handlers, NEW s, s \notin {"put", "handle"},
         pc' = [pc EXCEPT ![i] = s],
         \E t : target' = [target EXCEPT ![i] = t]
  PROVE  Quiet
BY Zenon DEF Quiet, CacheInv, CacheType

\* A handler that answers.
LEMMA ReturnLater ==
  ASSUME CacheInv, CacheInv', Anchors, NEW i \in Handlers, NEW O, NEW c, NEW f,
         c \in [Objects -> Entry \cup {None}], f \in [Handlers -> Info \cup {None}],
         Return(i, c, f), Moves(O), CacheLater(O, c), HeldLater(O, f)
  PROVE  Anchors'
<1>1. ASSUME NEW k \in Objects, cache'[k] # None
      PROVE  c[k] # None /\ cache'[k].path = c[k].path /\ cache'[k].fi = c[k].fi
  <2>1. c[k] # None /\ cache'[k] = [c[k] EXCEPT !.amid = @ \ {i}]
    BY <1>1, Zenon DEF Return
  <2>2. PICK e \in Entry : e = c[k]
    BY <2>1
  <2>3. cache'[k] = [e EXCEPT !.amid = e.amid \ {i}] /\ e.amid \ {i} \in SUBSET Handlers
    BY <2>1, <2>2 DEF Entry
  <2> QED
    BY <2>1, <2>2, <2>3, EntryAmid
<1>2. CacheLater(O, cache')
  BY <1>1, Zenon DEF CacheLater
<1>3. HeldLater(O, info')
  <2>1. info' = [f EXCEPT ![i] = None]
    BY DEF Return
  <2>2. \A j \in Handlers : info'[j] # None => info'[j] = f[j]
    BY <2>1
  <2> QED
    BY <2>2, Zenon DEF HeldLater
<1>4. Quiet
  BY QuietStep, Zenon DEF Return
<1> QED
  BY <1>2, <1>3, <1>4, AnchorsKept, Zenon

\* Nothing moves.
LEMMA StillMoves ==
  ASSUME UNCHANGED tree, NEW O
  PROVE  Moves(O)
BY DEF Moves

\* A handler goes on with the tree, the cache and all held attributes as they are.
LEMMA AnchorsSame ==
  ASSUME CacheInv, CacheInv', Anchors, UNCHANGED <<tree, cache, info>>, Quiet
  PROVE  Anchors'
<1>1. Moves({}) /\ CacheLater({}, cache') /\ HeldLater({}, info')
  BY LaterItself, Zenon DEF Moves
<1> QED
  BY <1>1, AnchorsKept, Zenon

\* It only invalidates.
LEMMA AnchorsDropped ==
  ASSUME CacheInv, CacheInv', Anchors, NEW x, cache' = Invalidate(cache, x),
         UNCHANGED <<tree, info>>, Quiet
  PROVE  Anchors'
<1>1. Moves({}) /\ CacheLater({}, cache') /\ HeldLater({}, info')
  BY LaterItself, LaterInvalidate, Zenon DEF Moves
<1> QED
  BY <1>1, AnchorsKept, Zenon

\* It changes the objects O.
LEMMA AnchorsChanged ==
  ASSUME CacheInv, CacheInv', Anchors, NEW i \in Handlers, NEW O, NEW R, Moves(O),
         cache' = Changed(i, O, R), info' = OutdatedInfo(O), Quiet
  PROVE  Anchors'
<1>1. CacheLater(O, cache') /\ HeldLater(O, info')
  BY LaterOutdated, Zenon
<1> QED
  BY <1>1, AnchorsKept, Zenon

\* It answers without a change, or with an invalidation or a change before.
LEMMA AnchorsAnswered ==
  ASSUME CacheInv, CacheInv', Anchors, NEW i \in Handlers, UNCHANGED tree,
         \/ Return(i, cache, info)
         \/ \E x : Return(i, Invalidate(cache, x), info)
         \/ \E O, R : Return(i, Changed(i, O, R), OutdatedInfo(O))
  PROVE  Anchors'
<1>1. info \in [Handlers -> Info \cup {None}] /\ cache \in [Objects -> Entry \cup {None}]
  BY DEF CacheInv, CacheType
<1>2. CASE Return(i, cache, info)
  BY <1>1, <1>2, LaterItself, StillMoves, ReturnLater, Zenon
<1>3. ASSUME NEW x, Return(i, Invalidate(cache, x), info)
      PROVE  Anchors'
  <2>1. PICK c : c = Invalidate(cache, x)
    BY Zenon
  <2>2. Follows({i}, c) /\ CacheLater({}, c) /\ Return(i, c, info)
    BY <1>3, <2>1, FollowsInvalidate, LaterInvalidate, Zenon
  <2> QED
    BY <1>1, <2>2, LaterItself, StillMoves, ReturnLater, Zenon DEF Follows
<1>4. ASSUME NEW O, NEW R, Return(i, Changed(i, O, R), OutdatedInfo(O))
      PROVE  Anchors'
  <2>1. PICK c, f : c = Changed(i, O, R) /\ f = OutdatedInfo(O)
    BY Zenon
  <2>2. Follows({i}, c) /\ Holds(f) /\ Return(i, c, f)
    BY <1>4, <2>1, FollowsChanged, HoldsOutdated, Zenon
  <2>3. CacheLater(O, c) /\ HeldLater(O, f)
    BY <2>1, LaterOutdated, Zenon
  <2> QED
    BY <2>2, <2>3, StillMoves, ReturnLater, Zenon DEF Follows, Holds
<1> QED
  BY <1>2, <1>3, <1>4, Zenon

\* PUTROOTFH, PUTFH, LOOKUP and LOOKUPP.
LEMMA SetCurrentAnchors ==
  ASSUME CacheInv, CacheInv', Anchors, NEW i \in Handlers, SetCurrent(i)
  PROVE  Anchors'
<1>1. CASE UNCHANGED <<tree, cache, pc, target, info>>
  BY <1>1, AnchorsSame, Zenon DEF Quiet
<1>2. ASSUME NEW k \in Objects, PutFHMiss(i, k)
      PROVE  Anchors'
  <2>1. Quiet
    <3>1. PICK s : s = "path"
      BY Zenon
    <3>2. s \notin {"put", "handle"}
      BY <3>1
    <3> QED
      BY <1>2, <3>1, <3>2, QuietStep, Zenon DEF PutFHMiss, Goto
  <2> QED
    BY <1>2, <2>1, AnchorsSame, Zenon DEF PutFHMiss
<1>3. CASE PutFHPath(i)
  BY <1>3, AnchorsAnswered, Zenon DEF PutFHPath
<1> QED
  BY <1>1, <1>2, <1>3, Zenon DEF SetCurrent, PutRootFH, LookupParent, PutFHCached, Lookup

\* GETATTR and READDIR.
LEMMA ReadAttributesAnchors ==
  ASSUME CacheInv, CacheInv', Anchors, NEW i \in Handlers, ReadAttributes(i)
  PROVE  Anchors'
<1>0. /\ info \in [Handlers -> Info \cup {None}] /\ cache \in [Objects -> Entry \cup {None}]
      /\ pc \in [Handlers -> Stages] /\ target \in [Handlers -> FileHandle \cup {None}]
  BY DEF CacheInv, CacheType
<1>1. CASE GetAttr(i)
  <2>1. Quiet
    <3>1. PICK s : s = "lstat"
      BY Zenon
    <3>2. s \notin {"put", "handle"}
      BY <3>1
    <3> QED
      BY <1>1, <3>1, <3>2, QuietStep, Zenon DEF GetAttr, Goto
  <2> QED
    BY <1>1, <2>1, AnchorsSame, Zenon DEF GetAttr
<1>2. ASSUME NEW p, NEW o, Resolve(p) = o, info' = [info EXCEPT ![i] = Read(o)],
             target'[i].path = p, UNCHANGED <<tree, cache>>,
             \A j \in Handlers : j # i => pc'[j] = pc[j] /\ target'[j] = target[j]
      PROVE  Anchors'
  <2>1. info'[i] = Read(o) /\ \A j \in Handlers : j # i => info'[j] = info[j]
    BY <1>0, <1>2, Zenon
  <2>2. Read(o).of = o
    BY DEF Read
  <2>3. \A q : Resolve(q)' = Resolve(q)
    BY <1>2 DEF Resolve
  <2>4. ASSUME NEW j \in Handlers, pc'[j] \in {"put", "handle"}, info'[j].since = Current
        PROVE  (Resolve(target[j].path) = info[j].of)'
    <3>1. CASE j = i
      BY <1>2, <2>1, <2>2, <3>1, Zenon DEF Resolve
    <3>2. CASE j # i
      <4>1. pc'[j] = pc[j] /\ target'[j] = target[j] /\ info'[j] = info[j]
        BY <1>2, <2>1, <3>2, Zenon
      <4>2. Resolve(target[j].path) = info[j].of
        BY <2>4, <4>1, Zenon DEF Anchors
      <4> QED
        BY <1>2, <4>1, <4>2, Zenon DEF Resolve
    <3> QED
      BY <3>1, <3>2
  <2>5. ASSUME NEW k \in Objects, cache'[k] # None, cache'[k].fi.since = Current
        PROVE  (Resolve(cache[k].path) = cache[k].fi.of)'
    BY <1>2, <2>5, Zenon DEF Anchors, Resolve
  <2> QED
    BY <2>4, <2>5, Zenon DEF Anchors
<1>3. CASE Lstat(i)
  <2>1. PICK p : p = target[i].path
    BY Zenon
  <2>2. PICK o : o = Resolve(p)
    BY Zenon
  <2>3. /\ info' = [info EXCEPT ![i] = Read(o)] /\ target'[i].path = p
        /\ UNCHANGED <<tree, cache, target>>
    BY <1>3, <2>1, <2>2, Zenon DEF Lstat
  <2>4. \A j \in Handlers : j # i => pc'[j] = pc[j]
    BY <1>0, <1>3, Zenon DEF Lstat, Goto
  <2> QED
    BY <1>2, <2>2, <2>3, <2>4, Zenon
<1>4. ASSUME NEW n \in Names, ReadDir(i, n)
      PROVE  Anchors'
  <2>1. PICK o : o = Resolve(n)
    BY Zenon
  <2>2. o = tree[n]
    BY <2>1, AttrCacheAssumption DEF Resolve
  <2>3. PICK t : t = [handle |-> Root, path |-> n]
    BY Zenon
  <2>4. /\ info' = [info EXCEPT ![i] = Read(o)] /\ UNCHANGED <<tree, cache>>
        /\ target' = [target EXCEPT ![i] = t]
    BY <1>4, <2>2, <2>3, Zenon DEF ReadDir
  <2>5. target'[i] = t /\ t.path = n
    BY <1>0, <2>3, <2>4
  <2>6. \A j \in Handlers : j # i => pc'[j] = pc[j] /\ target'[j] = target[j]
    BY <1>0, <1>4, <2>4, Zenon DEF ReadDir, Goto
  <2> QED
    BY <1>2, <2>1, <2>4, <2>5, <2>6, Zenon
<1>5. CASE ReadDirHandle(i)
  <2>1. /\ pc' = [pc EXCEPT ![i] = "put"] /\ pc[i] = "handle"
        /\ target' = [target EXCEPT ![i].handle = Resolve(target[i].path)]
        /\ UNCHANGED <<tree, cache, info>>
    BY <1>5, Zenon DEF ReadDirHandle, Goto
  <2>2. target[i] \in FileHandle
    BY <2>1, HandlerFacts
  <2>3. target'[i].path = target[i].path /\ \A j \in Handlers : j # i => target'[j] = target[j]
    BY <1>0, <2>1, <2>2 DEF FileHandle
  <2>4. Quiet
    BY <1>0, <2>1, <2>3, Zenon DEF Quiet
  <2> QED
    BY <2>1, <2>4, AnchorsSame, Zenon
<1>6. CASE PutEntry(i)
  <2>1. /\ pc[i] = "put" /\ UNCHANGED tree
        /\ Return(i, Put(cache, target[i].handle, target[i].path, info[i]), info)
    BY <1>6, Zenon DEF PutEntry
  <2>2. PICK x, p, fi : x = target[i].handle /\ p = target[i].path /\ fi = info[i]
    BY Zenon
  <2>3. PICK c : c = Put(cache, x, p, fi)
    BY Zenon
  <2>4. x \in Objects /\ p \in Names \cup {Root} /\ fi \in Info /\ (p = Root => x = Root)
    BY <2>1, <2>2, HandlerFacts DEF Staged, Rooted
  <2>5. c \in [Objects -> Entry \cup {None}] /\ \A k \in Objects : k # x => c[k] = cache[k]
    <3>1. Stores(x, p, fi, c)
      BY <2>3, <2>4, Zenon DEF Stores
    <3>2. Stored(i, x, c)
      BY <3>1, FollowsPut, Zenon
    <3> QED
      BY <3>2, Zenon DEF Stored, Follows
  <2>6. c[x].path = p /\ c[x].fi = fi
    <3>1. PICK e : e = [path |-> p, fi |-> fi, age |-> 0,
                        late |-> IF fi.since = Current THEN 0 ELSE fi.since,
                        amid |-> {j \in Handlers : Changing(j, x)}, outlived |-> {}]
      BY Zenon
    <3>2. c[x] = e
      BY <1>0, <2>3, <2>4, <3>1, Zenon DEF Put
    <3>3. e.path = p /\ e.fi = fi
      BY <3>1
    <3> QED
      BY <3>2, <3>3
  <2>7. ASSUME NEW k \in Objects, cache'[k] # None
        PROVE  c[k] # None /\ cache'[k].path = c[k].path /\ cache'[k].fi = c[k].fi
    <3>1. c[k] # None /\ cache'[k] = [c[k] EXCEPT !.amid = @ \ {i}]
      BY <2>1, <2>2, <2>3, <2>7, Zenon DEF Return
    <3>2. PICK e \in Entry : e = c[k]
      BY <2>5, <3>1
    <3>3. cache'[k] = [e EXCEPT !.amid = e.amid \ {i}] /\ e.amid \ {i} \in SUBSET Handlers
      BY <3>1, <3>2 DEF Entry
    <3> QED
      BY <3>1, <3>2, <3>3, EntryAmid
  <2>8. \A k \in Objects : c[k] # None /\ c[k].fi.since = Current => Resolve(c[k].path) = c[k].fi.of
    BY <2>1, <2>2, <2>5, <2>6, Zenon DEF Anchors
  <2>9. ASSUME NEW k \in Objects, cache'[k] # None, cache'[k].fi.since = Current
        PROVE  (Resolve(cache[k].path) = cache[k].fi.of)'
    <3>1. Resolve(c[k].path) = c[k].fi.of
      BY <2>7, <2>8, <2>9, Zenon
    <3> QED
      BY <2>1, <2>7, <2>9, <3>1, Zenon DEF Resolve
  <2>10. \A j \in Handlers : j # i => pc'[j] = pc[j] /\ target'[j] = target[j] /\ info'[j] = info[j]
    BY <1>0, <2>1, Zenon DEF Return
  <2>11. pc'[i] = "idle"
    BY <1>0, <2>1, Zenon DEF Return
  <2>12. ASSUME NEW j \in Handlers, pc'[j] \in {"put", "handle"}, info'[j].since = Current
         PROVE  (Resolve(target[j].path) = info[j].of)'
    <3>1. j # i
      BY <2>11, <2>12
    <3>2. Resolve(target[j].path) = info[j].of
      BY <2>10, <2>12, <3>1, Zenon DEF Anchors
    <3> QED
      BY <2>1, <2>10, <3>1, <3>2, Zenon DEF Resolve
  <2> QED
    BY <2>9, <2>12, Zenon DEF Anchors
<1> QED
  BY <1>1, <1>3, <1>4, <1>5, <1>6, Zenon DEF ReadAttributes

\* SETATTR, SETXATTR, REMOVEXATTR and COMMIT.
LEMMA ChangeAttributesAnchors ==
  ASSUME CacheInv, CacheInv', Anchors, NEW i \in Handlers, ChangeAttributes(i)
  PROVE  Anchors'
<1>0. {"apply", "xset", "xtimes", "invalidate"} \cap {"put", "handle"} = {}
  OBVIOUS
<1>1. ASSUME NEW attrs \in Asks, SetAttr(i, attrs)
      PROVE  Anchors'
  <2>1. Quiet
    <3>1. CASE UNCHANGED <<pc, target>>
      BY <3>1, Zenon DEF Quiet
    <3>2. CASE Goto(i, "apply") /\ target' = [target EXCEPT ![i] = cur[i]]
      BY <1>0, <3>2, QuietStep DEF Goto
    <3> QED
      BY <1>1, <3>1, <3>2, Zenon DEF SetAttr
  <2> QED
    BY <1>1, <2>1, AnchorsDropped, Zenon DEF SetAttr
<1>2. CASE SetAttrApply(i)
  <2>1. PICK o, R : /\ UNCHANGED tree
                    /\ \/ /\ cache' = Changed(i, {o}, R) /\ info' = OutdatedInfo({o})
                          /\ UNCHANGED <<pc, target>>
                       \/ Return(i, Changed(i, {o}, R), OutdatedInfo({o}))
    BY <1>2, Zenon DEF SetAttrApply
  <2>2. CASE UNCHANGED <<pc, target>> /\ cache' = Changed(i, {o}, R) /\ info' = OutdatedInfo({o})
    <3>1. Quiet
      BY <2>2, Zenon DEF Quiet
    <3> QED
      BY <2>1, <2>2, <3>1, StillMoves, AnchorsChanged, Zenon
  <2>3. CASE Return(i, Changed(i, {o}, R), OutdatedInfo({o}))
    BY <2>1, <2>3, AnchorsAnswered, Zenon
  <2> QED
    BY <2>1, <2>2, <2>3, Zenon
<1>3. CASE SetXAttr(i)
  <2>1. Quiet
    BY <1>0, <1>3, QuietStep DEF SetXAttr, Goto
  <2> QED
    BY <1>3, <2>1, AnchorsSame, Zenon DEF SetXAttr
<1>4. CASE SetExtendedAttr(i) \/ SetXAttrTimes(i)
  <2>1. PICK O, R, s : /\ cache' = Changed(i, O, R) /\ info' = OutdatedInfo(O)
                       /\ pc' = [pc EXCEPT ![i] = s] /\ s \in {"xtimes", "invalidate"}
                       /\ UNCHANGED <<tree, target>>
    BY <1>4, Zenon DEF SetExtendedAttr, SetXAttrTimes, Goto
  <2>2. Quiet
    <3>1. s \notin {"put", "handle"}
      BY <2>1
    <3>2. target' = [target EXCEPT ![i] = target[i]]
      BY <2>1, Stays, Zenon
    <3> QED
      BY <2>1, <3>1, <3>2, QuietStep, Zenon
  <2> QED
    BY <2>1, <2>2, StillMoves, AnchorsChanged, Zenon
<1>5. CASE InvalidateTarget(i)
  BY <1>5, AnchorsAnswered, Zenon DEF InvalidateTarget
<1>6. CASE Commit(i)
  <2>1. Quiet
    BY <1>6, Zenon DEF Commit, Quiet
  <2> QED
    BY <1>6, <2>1, AnchorsDropped, Zenon DEF Commit
<1> QED
  BY <1>1, <1>2, <1>3, <1>4, <1>5, <1>6, Zenon DEF ChangeAttributes

\* A call that changes the directory moves only the objects that it changes.
LEMMA DirCallAnchors ==
  ASSUME CacheInv, CacheInv', Anchors, NEW i \in Handlers, NEW t, NEW O, NEW s, NEW p,
         DirCall(i, t, O, s, p), s \in {"created", "invalidate"}, Moves(O \cup {Root})
  PROVE  Anchors'
<1>1. s \notin {"put", "handle"}
  OBVIOUS
<1>2. Quiet
  BY <1>1, QuietStep, Zenon DEF DirCall, Goto
<1> QED
  BY <1>2, AnchorsChanged, Zenon DEF DirCall

\* CREATE, REMOVE, RENAME and LINK.
LEMMA ChangeDirectoryAnchors ==
  ASSUME CacheInv, CacheInv', Anchors, NEW i \in Handlers, ChangeDirectory(i)
  PROVE  Anchors'
<1>0. tree \in [Names -> Files \cup {None}] /\ "created" \in {"created", "invalidate"}
      /\ "invalidate" \in {"created", "invalidate"}
  BY DEF CacheInv, CacheType
<1>1. ASSUME NEW n \in Names, Remove(i, n)
      PROVE  Anchors'
  <2>1. PICK O, t : O = {tree[n]} /\ t = [tree EXCEPT ![n] = None]
    BY Zenon
  <2>2. DirCall(i, t, O, "invalidate", Root) /\ tree' = t
    BY <1>1, <2>1, Zenon DEF Remove, DirCall
  <2>3. Moves(O \cup {Root})
    BY <1>0, <2>1, <2>2 DEF Moves
  <2> QED
    BY <1>0, <2>2, <2>3, DirCallAnchors, Zenon
<1>2. ASSUME NEW n \in Names, NEW o \in Files, Create(i, n, o)
      PROVE  Anchors'
  <2>1. PICK O, t : O = {} /\ t = [tree EXCEPT ![n] = o]
    BY Zenon
  <2>2. DirCall(i, t, O, "created", n) /\ tree' = t /\ tree[n] = None
    BY <1>2, <2>1, Zenon DEF Create, DirCall
  <2>3. Moves(O \cup {Root})
    BY <1>0, <2>1, <2>2 DEF Moves
  <2> QED
    BY <1>0, <2>2, <2>3, DirCallAnchors, Zenon
<1>3. ASSUME NEW m \in Names, NEW n \in Names, Rename(i, m, n)
      PROVE  Anchors'
  <2>1. PICK O, t : /\ O = {tree[m], tree[n]} \ {None}
                    /\ t = [tree EXCEPT ![m] = None, ![n] = tree[m]]
    BY Zenon
  <2>2. DirCall(i, t, O, "invalidate", Root) /\ tree' = t
    BY <1>3, <2>1, Zenon DEF Rename, DirCall
  <2>3. Moves(O \cup {Root})
    BY <1>0, <2>1, <2>2 DEF Moves
  <2> QED
    BY <1>0, <2>2, <2>3, DirCallAnchors, Zenon
<1>4. ASSUME NEW m \in Names, NEW n \in Names, Link(i, m, n)
      PROVE  Anchors'
  <2>1. PICK O, t : O = {tree[m]} /\ t = [tree EXCEPT ![n] = tree[m]]
    BY Zenon
  <2>2. DirCall(i, t, O, "invalidate", Root) /\ tree' = t /\ tree[n] = None
    BY <1>4, <2>1, Zenon DEF Link, DirCall
  <2>3. Moves(O \cup {Root})
    BY <1>0, <2>1, <2>2 DEF Moves
  <2> QED
    BY <1>0, <2>2, <2>3, DirCallAnchors, Zenon
<1>5. CASE CreateInvalidate(i)
  <2>1. Quiet
    <3>1. target' = [target EXCEPT ![i] = target[i]]
      BY <1>5, Stays, Zenon DEF CreateInvalidate
    <3>2. "chandle" \notin {"put", "handle"}
      OBVIOUS
    <3> QED
      BY <1>5, <3>1, <3>2, QuietStep DEF CreateInvalidate, Goto
  <2> QED
    BY <1>5, <2>1, AnchorsDropped, Zenon DEF CreateInvalidate
<1>6. CASE CreateHandle(i)
  BY <1>6, AnchorsAnswered, Zenon DEF CreateHandle
<1> QED
  BY <1>1, <1>2, <1>3, <1>4, <1>5, <1>6, Zenon DEF ChangeDirectory

\* OPEN, WRITE and CLOSE.
LEMMA UseFileAnchors ==
  ASSUME CacheInv, CacheInv', Anchors, NEW i \in Handlers, UseFile(i)
  PROVE  Anchors'
<1>0. tree \in [Names -> Files \cup {None}]
  BY DEF CacheInv, CacheType
<1>1. ASSUME NEW n \in Names, NEW how \in {"chmod", "create", "write", "claim"},
             OpenExisting(i, n, how)
      PROVE  Anchors'
  <2>1. how \notin {"put", "handle"}
    OBVIOUS
  <2>2. Quiet
    BY <1>1, <2>1, QuietStep, Zenon DEF OpenExisting, Goto
  <2> QED
    BY <1>1, <2>2, AnchorsSame, Zenon DEF OpenExisting
<1>2. ASSUME NEW n \in Names, NEW o \in Files, OpenNew(i, n, o)
      PROVE  Anchors'
  <2>1. PICK O, R : cache' = Changed(i, O, R) /\ info' = OutdatedInfo(O)
    BY <1>2, Zenon DEF OpenNew
  <2>2. tree' = [tree EXCEPT ![n] = o] /\ tree[n] = None
    BY <1>2, Zenon DEF OpenNew
  <2>3. Moves(O)
    BY <1>0, <2>2 DEF Moves
  <2>4. PICK how \in {"chmod", "create"} : pc' = [pc EXCEPT ![i] = how]
    BY <1>2, Zenon DEF OpenNew, Goto
  <2>5. Quiet
    <3>1. how \notin {"put", "handle"}
      OBVIOUS
    <3>2. \E t : target' = [target EXCEPT ![i] = t]
      BY <1>2, Zenon DEF OpenNew
    <3> QED
      BY <2>4, <3>1, <3>2, QuietStep, Zenon
  <2> QED
    BY <2>1, <2>3, <2>5, AnchorsChanged, Zenon
<1>3. CASE OpenChmod(i)
  <2>1. PICK O, R, s : /\ cache' = Changed(i, O, R) /\ info' = OutdatedInfo(O)
                       /\ pc' = [pc EXCEPT ![i] = s] /\ s = "create"
                       /\ UNCHANGED <<tree, target>>
    BY <1>3, Zenon DEF OpenChmod, Goto
  <2>2. Quiet
    <3>1. s \notin {"put", "handle"}
      BY <2>1
    <3>2. target' = [target EXCEPT ![i] = target[i]]
      BY <2>1, Stays, Zenon
    <3> QED
      BY <2>1, <3>1, <3>2, QuietStep, Zenon
  <2> QED
    BY <2>1, <2>2, StillMoves, AnchorsChanged, Zenon
<1>4. CASE OpenHandle(i)
  BY <1>4, AnchorsAnswered, Zenon DEF OpenHandle
<1>5. CASE OpenFails(i)
  <2>1. PICK c : c = [k \in Objects |-> IF cache[k] = None THEN None
                                        ELSE [cache[k] EXCEPT !.outlived = @ \ {i}]]
    BY Zenon
  <2>2. Return(i, c, info) /\ UNCHANGED tree
    BY <1>5, <2>1, Zenon DEF OpenFails
  <2>3. ASSUME NEW k \in Objects, cache[k] # None
        PROVE  c[k] \in Entry /\ c[k].path = cache[k].path /\ c[k].fi = cache[k].fi
    <3>1. PICK e \in Entry : e = cache[k]
      BY <2>3 DEF CacheInv, CacheType
    <3>2. c[k] = [e EXCEPT !.outlived = e.outlived \ {i}] /\ e.outlived \ {i} \in SUBSET Handlers
      BY <2>1, <2>3, <3>1 DEF Entry
    <3> QED
      BY <3>1, <3>2, EntryOutlived
  <2>4. /\ \A k \in Objects : cache[k] = None => c[k] = None
        /\ c = [k \in Objects |-> c[k]]
    BY <2>1, Zenon
  <2>5. c \in [Objects -> Entry \cup {None}]
    BY <2>3, <2>4
  <2>6. CacheLater({}, c)
    BY <2>3, <2>4, Zenon DEF CacheLater, Later
  <2>7. info \in [Handlers -> Info \cup {None}]
    BY DEF CacheInv, CacheType
  <2> QED
    BY <2>2, <2>5, <2>6, <2>7, LaterItself, StillMoves, ReturnLater, Zenon
<1>6. ASSUME NEW f \in files, WriteUnstable(i, f)
      PROVE  Anchors'
  <2>1. Quiet
    BY <1>6, Zenon DEF WriteUnstable, Quiet
  <2> QED
    BY <1>6, <2>1, StillMoves, AnchorsChanged, Zenon DEF WriteUnstable
<1>7. ASSUME NEW f \in files, WriteStable(i, f)
      PROVE  Anchors'
  <2>1. "invalidate" \notin {"put", "handle"}
    OBVIOUS
  <2>2. Quiet
    BY <1>7, <2>1, QuietStep DEF WriteStable, Goto
  <2> QED
    BY <1>7, <2>2, StillMoves, AnchorsChanged, Zenon DEF WriteStable
<1>8. ASSUME NEW f \in files, Close(i, f)
      PROVE  Anchors'
  <2>1. "close" \notin {"put", "handle"}
    OBVIOUS
  <2>2. Quiet
    BY <1>8, <2>1, QuietStep DEF Close, Goto
  <2> QED
    BY <1>8, <2>2, AnchorsDropped, Zenon DEF Close
<1>9. CASE CloseFile(i)
  BY <1>9, AnchorsAnswered, Zenon DEF CloseFile
<1> QED
  BY <1>1, <1>2, <1>3, <1>4, <1>5, <1>6, <1>7, <1>8, <1>9, Zenon DEF UseFile

\* Another user changes an object without moving it.
LEMMA ElsewhereAnchors ==
  ASSUME CacheInv, CacheInv', Anchors, NEW o \in Objects, Elsewhere(o)
  PROVE  Anchors'
<1>1. ASSUME NEW k \in Objects, cache'[k] # None
      PROVE  /\ cache[k] # None /\ cache'[k].path = cache[k].path
             /\ Later({o}, cache[k].fi, cache'[k].fi)
  <2>1. cache[k] # None /\ cache'[k] = [cache[k] EXCEPT !.fi = Outdate(@, {o})]
    BY <1>1, Zenon DEF Elsewhere
  <2>2. PICK e \in Entry : e = cache[k]
    BY <2>1 DEF CacheInv, CacheType
  <2>3. cache'[k].path = e.path /\ cache'[k].fi = Outdate(e.fi, {o}) /\ e.fi \in Info
    BY <2>1, <2>2 DEF Entry
  <2> QED
    BY <2>1, <2>2, <2>3, OutdateLater, Zenon
<1>2. CacheLater({o}, cache')
  BY <1>1, Zenon DEF CacheLater
<1>3. HeldLater({o}, info') /\ Moves({o}) /\ Quiet
  BY LaterOutdated, StillMoves, Zenon DEF Elsewhere, Quiet
<1> QED
  BY <1>2, <1>3, AnchorsKept, Zenon

\* Nothing but entries goes when the cache is cleaned.
LEMMA GcAnchors ==
  ASSUME CacheInv, CacheInv', Anchors, Gc
  PROVE  Anchors'
<1>1. \A k \in Objects : cache'[k] # None => cache'[k] = cache[k]
  BY Zenon DEF Gc
<1>2. CacheLater({}, cache')
  BY <1>1, Zenon DEF CacheLater, Later
<1>3. HeldLater({}, info') /\ Moves({}) /\ Quiet
  BY LaterItself, StillMoves, Zenon DEF Gc, Quiet
<1> QED
  BY <1>2, <1>3, AnchorsKept, Zenon

\* With time attributes get no less out of date.
LEMMA OlderLater ==
  ASSUME NEW fi \in Info
  PROVE  Later({}, fi, Older(fi)) /\ Older(fi) \in Info
<1>1. Timeout \in Nat /\ MaxDelay \in Nat /\ None \notin Info
  BY AttrCacheAssumption, NoneAssumption
<1>2. CASE fi.since \in {Current, Cap}
  BY <1>2, Zenon DEF Older, Later
<1>3. CASE fi.since \notin {Current, Cap}
  <2>1. Older(fi) = [fi EXCEPT !.since = fi.since + 1]
    BY <1>1, <1>3, Zenon DEF Older
  <2>2. Older(fi).since # Current
    BY <1>1, <1>3, <2>1 DEF Info, Current, Cap
  <2> QED
    BY <1>1, <2>2, OlderFacts, Zenon DEF Later
<1> QED
  BY <1>2, <1>3, <1>1, OlderFacts, Zenon

\* The clock.
LEMMA TickAnchors ==
  ASSUME CacheInv, CacheInv', Anchors, Tick
  PROVE  Anchors'
<1>0. Cap # Current
  BY AttrCacheAssumption DEF Cap, Current
<1>1. ASSUME NEW k \in Objects, cache'[k] # None, cache'[k].fi.since = Current
      PROVE  /\ cache[k] # None /\ cache'[k].path = cache[k].path
             /\ Later({}, cache[k].fi, cache'[k].fi)
  <2>1. /\ cache[k] # None
        /\ \/ cache'[k] = [cache[k] EXCEPT !.fi = Older(@), !.age = @ + 1]
           \/ cache'[k] = Expired(cache[k])
    BY <1>1, Zenon DEF Tick
  <2>2. PICK e \in Entry : e = cache[k]
    BY <2>1 DEF CacheInv, CacheType
  <2>3. e.fi \in Info
    BY DEF Entry
  <2>4. CASE cache'[k] = [e EXCEPT !.fi = Older(@), !.age = @ + 1]
    <3>1. cache'[k].path = e.path /\ cache'[k].fi = Older(e.fi)
      BY <2>4 DEF Entry
    <3> QED
      BY <2>1, <2>2, <2>3, <3>1, OlderLater, Zenon
  <2>5. CASE cache'[k] = Expired(e)
    <3>1. cache'[k].fi.since = Cap
      BY <2>5 DEF Expired, Entry
    <3> QED
      BY <1>0, <1>1, <3>1
  <2> QED
    BY <2>1, <2>2, <2>4, <2>5
<1>2. CacheLater({}, cache')
  BY <1>1, Zenon DEF CacheLater
<1>3. ASSUME NEW j \in Handlers, info'[j] # None
      PROVE  info[j] # None /\ Later({}, info[j], info'[j])
  <2>1. info'[j] = Older(info[j]) /\ info[j] \in Info \cup {None}
    BY Zenon DEF Tick, CacheInv, CacheType
  <2>2. info[j] # None
    BY <1>3, <2>1, OlderFacts, Zenon
  <2> QED
    BY <2>1, <2>2, OlderLater, Zenon
<1>4. HeldLater({}, info')
  BY <1>3, Zenon DEF HeldLater
<1>5. Moves({}) /\ Quiet
  BY StillMoves, Zenon DEF Tick, Quiet
<1> QED
  BY <1>2, <1>4, <1>5, AnchorsKept, Zenon

\* Every step keeps Anchors.
LEMMA NextAnchors ==
  ASSUME CacheInv, Anchors, [Next]_vars
  PROVE  Anchors'
<1>0. CacheInv'
  BY NextCacheInv
<1>1. ASSUME NEW i \in Handlers,
             \/ SetCurrent(i) \/ ReadAttributes(i) \/ ChangeAttributes(i)
             \/ ChangeDirectory(i) \/ UseFile(i)
      PROVE  Anchors'
  BY <1>0, <1>1, SetCurrentAnchors, ReadAttributesAnchors, ChangeAttributesAnchors,
     ChangeDirectoryAnchors, UseFileAnchors, Zenon
<1>2. ASSUME NEW i \in Handlers, CallFails(i)
      PROVE  Anchors'
  BY <1>0, <1>2, AnchorsAnswered, Zenon DEF CallFails
<1>3. ASSUME NEW o \in Objects, Elsewhere(o)
      PROVE  Anchors'
  BY <1>0, <1>3, ElsewhereAnchors
<1>4. CASE Gc \/ Tick
  BY <1>0, <1>4, GcAnchors, TickAnchors, Zenon
<1>5. CASE UNCHANGED vars
  <2>1. Quiet
    BY <1>5, Zenon DEF vars, Quiet
  <2> QED
    BY <1>0, <1>5, <2>1, AnchorsSame, Zenon DEF vars
<1> QED
  BY <1>1, <1>2, <1>3, <1>4, <1>5, Zenon DEF Next

----------------------------------------------------------------------------
\* CacheInv holds in every state: an entry that Get may return has been out of date
\* since it was stored for at most its age, and a handler that an entry has outlived
\* has yet to invalidate the entry's handle.
THEOREM CacheInvariant == Spec => []CacheInv
<1>1. Init => CacheInv
  BY InitCacheInv
<1>2. CacheInv /\ [Next]_vars => CacheInv'
  BY NextCacheInv
<1> QED
  BY <1>1, <1>2, PTL DEF Spec

\* Attributes that are in the cache, or that GETATTR or READDIR is about to store
\* there, and that nobody has changed, are those of the file that their path leads to,
\* whatever CREATE, REMOVE, RENAME and LINK do to the directory in between.
THEOREM AnchorInvariant == Spec => []Anchors
<1>1. Init => Anchors
  BY Zenon DEF Init, Anchors
<1>2. CacheInv /\ Anchors /\ [Next]_vars => Anchors'
  BY NextAnchors
<1> QED
  BY <1>1, <1>2, CacheInvariant, PTL DEF Spec

\* What Get returns was at the entry's path at most the timeout and the delay of the
\* operation that stored it ago, and is what the path leads to if nobody has changed
\* it since, for any number of handlers, files and names, any timeout and any delay.
THEOREM StalenessIsBounded == Spec => []BoundedStaleness
<1>1. ASSUME CacheInv, Anchors
      PROVE  BoundedStaleness
  <2>1. ASSUME NEW k \in Objects, Cached(k)
        PROVE  /\ cache[k].fi.since <= Timeout + cache[k].late
               /\ cache[k].fi.since = Current => Resolve(cache[k].path) = cache[k].fi.of
    <3>1. PICK e \in Entry : e = cache[k] /\ Timely(e) /\ e.age <= Timeout
      BY <1>1, <2>1, Zenon DEF Cached, CacheInv, CacheType, Kept
    <3>2. Timeout \in Nat /\ MaxDelay \in Nat /\ e.age \in Int
      BY AttrCacheAssumption DEF Entry
    <3>3. e.fi.since \in Int /\ e.late \in Int
      BY <3>2 DEF Entry, Info, Current, Cap
    <3>4. e.fi.since <= Timeout + e.late
      BY <3>1, <3>2, <3>3 DEF Timely
    <3> QED
      BY <1>1, <2>1, <3>1, <3>4, Zenon DEF Anchors, Cached
  <2>2. \A i \in Handlers : info[i] # None => info[i].since <= held[i]
    BY <1>1, Zenon DEF CacheInv, Working
  <2> QED
    BY <2>1, <2>2, Zenon DEF BoundedStaleness
<1> QED
  BY <1>1, CacheInvariant, AnchorInvariant, PTL

\* When SETATTR, SETXATTR, a stable WRITE, CREATE, RENAME, REMOVE, LINK or a
\* successful OPEN has answered, no entry is left that was stored before it began
\* about what it changed through its handle, however the handlers interleave.
THEOREM ChangesReachCache == Spec => []ChangeReachesCache
<1>1. ASSUME CacheInv
      PROVE  ChangeReachesCache
  BY <1>1 DEF ChangeReachesCache, CacheInv, Kept, Due, DueAt, Idle
<1> QED
  BY <1>1, CacheInvariant, PTL
============================================================================
