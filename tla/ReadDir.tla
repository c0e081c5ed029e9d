------------------------------ MODULE ReadDir ------------------------------
(***************************************************************************)
(* READDIR (mux_v4.go) and the directory listers of a worker               *)
(* (worker/lister.go): paging with cookies, the table of listers, its      *)
(* expiry goroutine and the cleanup of the worker.                         *)
(*                                                                         *)
(* A reader is a client that lists a directory from cookie 0 to the end.   *)
(* The directories do not change; the file system is external.             *)
(***************************************************************************)
EXTENDS Integers, Sequences, FiniteSets

CONSTANTS
  Readers,      \* clients of the user whose worker this is
  Dirs,         \* directories
  Size,         \* the number of entries of each directory
  MaxListers,   \* how many directories are opened at most
  Indexes,      \* the indexes that AddLister may choose, 0 among them
  Batch,        \* batchSize
  Expiration,   \* ListerExpiration, in ticks
  None          \* no lister, no directory

Listers == 1..MaxListers             \* in the order in which List returned them

EOFLister == -1                      \* not an index

ASSUME ReadDirAssumption ==
  /\ Size \in [Dirs -> Nat]
  /\ Indexes \subseteq Nat /\ 0 \in Indexes
  /\ Batch \in Nat \ {0}
  /\ Expiration \in Nat
  /\ MaxListers \in Nat
  /\ None \notin Listers \cup Dirs

VARIABLES
  table,        \* Worker.Listers: the lister at each index
  idle,         \* for how many ticks the one at an index was not used
  dirOf,        \* the directory that each lister lists, once opened
  closings,     \* how often each lister was closed
  discarded,    \* Worker.discarded
  cleaned,      \* cleanup has run
  expired,      \* history: a lister was closed because it was not used
  reader        \* the clients, and the handlers of their requests

vars == <<table, idle, dirOf, closings, discarded, cleaned, expired, reader>>

----------------------------------------------------------------------------

(* A reader that lists dir: the entries it has got, the cookie and the     *)
(* verifier it sends next, and where the handler of its request is: none   *)
(* ("rest"), before ListAt ("list") or before CloseLister ("close").       *)
Starting(d) == [at |-> "rest", dir |-> d, got |-> <<>>, cookie |-> 0, verf |-> 0,
                lister |-> None, done |-> FALSE]

Fresh == Starting(None)

Init ==
  /\ table = [x \in Indexes |-> None]
  /\ idle = [x \in Indexes |-> 0]
  /\ dirOf = [l \in Listers |-> None]
  /\ closings = [l \in Listers |-> 0]
  /\ discarded = FALSE
  /\ cleaned = FALSE
  /\ expired = FALSE
  /\ reader = [c \in Readers |-> Fresh]

InUse == {c \in Readers : reader[c].at # "rest"}

\* A client that has a listing to do or to go on with.
Reading(c) == reader[c].dir # None /\ ~reader[c].done

Resting(c) == reader[c].at = "rest" /\ ~discarded

Begin(c, d) ==
  /\ ~Reading(c)
  /\ Resting(c)
  /\ reader' = [reader EXCEPT ![c] = Starting(d)]
  /\ UNCHANGED <<table, idle, dirOf, closings, discarded, cleaned, expired>>

\* The client stops reading without reaching the end.
Abandon(c) ==
  /\ Reading(c)
  /\ reader[c].at = "rest"
  /\ reader' = [reader EXCEPT ![c] = Fresh]
  /\ UNCHANGED <<table, idle, dirOf, closings, discarded, cleaned, expired>>

----------------------------------------------------------------------------
(* READDIR *)

\* The index of a new lister: 0 if it is free, else a random one that is.
FreeIndex(x) == table[x] = None /\ (x = 0 \/ table[0] # None)

\* READDIR has the lister of verifier x and will call its ListAt.
Listing(c, x, l) ==
  reader' = [reader EXCEPT ![c] = [at |-> "list", dir |-> @.dir, got |-> @.got,
                                   cookie |-> @.cookie, verf |-> x, lister |-> l,
                                   done |-> FALSE]]

\* Cookie 0: the directory is opened and its lister entered in the table.
ReadDirFirst(c, l, x) ==
  /\ Reading(c) /\ Resting(c)
  /\ reader[c].cookie = 0
  /\ l = 1 + Cardinality({m \in Listers : dirOf[m] # None})
  /\ FreeIndex(x)
  /\ dirOf' = [dirOf EXCEPT ![l] = reader[c].dir]
  /\ table' = [table EXCEPT ![x] = l]
  /\ idle' = [idle EXCEPT ![x] = 0]
  /\ Listing(c, x, l)
  /\ UNCHANGED <<closings, discarded, cleaned, expired>>

\* Another cookie: GetLister finds the lister of the verifier and refreshes it,
ReadDirNext(c) ==
  LET x == reader[c].verf IN
  /\ Reading(c) /\ Resting(c)
  /\ reader[c].cookie # 0
  /\ table[x] # None
  /\ idle' = [idle EXCEPT ![x] = 0]
  /\ Listing(c, x, table[x])
  /\ UNCHANGED <<table, dirOf, closings, discarded, cleaned, expired>>

\* or does not, and the client, told NFS4ERR_NOT_SAME, starts again.
ReadDirNotSame(c) ==
  /\ Reading(c) /\ Resting(c)
  /\ reader[c].cookie # 0
  /\ table[reader[c].verf] = None
  /\ reader' = [reader EXCEPT ![c] = Starting(reader[c].dir)]
  /\ UNCHANGED <<table, idle, dirOf, closings, discarded, cleaned, expired>>

Offset(cookie) == IF cookie = 0 THEN 0 ELSE cookie - 1000

(* What ListAt returns (external): a batch from the offset on, with io.EOF *)
(* if it is shorter than the buffer, and perhaps if it ends the directory. *)
ListAt(l, offset) ==
  LET size == Size[dirOf[l]]
      left == IF offset > size THEN 0 ELSE size - offset
      n == IF left < Batch THEN left ELSE Batch IN
  {[n |-> n, eof |-> e] : e \in {n < Batch, n = left}}

\* Variant of Pages: io.EOF is kept when the reply is cut.
PagesEndEarly(b) == {[n |-> k, eof |-> b.eof] : k \in (IF b.n = 0 THEN 0 ELSE 1)..b.n}

(* The reply takes the entries of the batch in order until one does not    *)
(* fit: that one is still sent, and the listing is then not at its end.    *)
Pages(b) ==
  {[n |-> k, eof |-> FALSE] : k \in 1..b.n} \cup {[n |-> b.n, eof |-> b.eof]}

Entries(l, offset, n) == [j \in 1..n |-> <<dirOf[l], offset + j>>]

\* The cookie of the last of n entries: the offset of the next one, plus 1000.
NextCookie(cookie, n) == IF n = 0 THEN cookie ELSE Offset(cookie) + 1000 + n

ReadDirPage(c) ==
  LET l == reader[c].lister
      offset == Offset(reader[c].cookie) IN
  /\ reader[c].at = "list"
  /\ closings[l] = 0
  /\ \E b \in ListAt(l, offset) : \E page \in Pages(b) :
       reader' = [reader EXCEPT ![c] =
                    [at |-> IF page.eof THEN "close" ELSE "rest", dir |-> @.dir,
                     got |-> @.got \o Entries(l, offset, page.n),
                     cookie |-> NextCookie(@.cookie, page.n), verf |-> @.verf,
                     lister |-> None, done |-> FALSE]]
  /\ UNCHANGED <<table, idle, dirOf, closings, discarded, cleaned, expired>>

(* ListAt fails, always when the lister has been closed meanwhile: the     *)
(* worker is discarded and the client told so.                             *)
ReadDirFails(c) ==
  /\ reader[c].at = "list"
  /\ discarded' = TRUE
  /\ reader' = [reader EXCEPT ![c] = Fresh]
  /\ UNCHANGED <<table, idle, dirOf, closings, cleaned, expired>>

\* CloseLister closes the lister that is at index x, if there is one.
CloseLister(x) ==
  /\ table' = [table EXCEPT ![x] = None]
  /\ closings' = [closings EXCEPT ![table[x]] = @ + 1]

\* After io.EOF the lister is closed and the verifier becomes EOFLister.
ReadDirEOF(c) ==
  /\ reader[c].at = "close"
  /\ IF table[reader[c].verf] = None
     THEN UNCHANGED <<table, closings>>
     ELSE CloseLister(reader[c].verf)
  /\ reader' = [reader EXCEPT ![c] = [at |-> "rest", dir |-> @.dir, got |-> @.got,
                                      cookie |-> @.cookie, verf |-> EOFLister,
                                      lister |-> None, done |-> TRUE]]
  /\ UNCHANGED <<idle, dirOf, discarded, cleaned, expired>>

\* The file system reports an error of the closing, and so does READDIR.
ReadDirCloseFails(c) ==
  /\ reader[c].at = "close"
  /\ table[reader[c].verf] # None
  /\ CloseLister(reader[c].verf)
  /\ reader' = [reader EXCEPT ![c] = Fresh]
  /\ UNCHANGED <<idle, dirOf, discarded, cleaned, expired>>

----------------------------------------------------------------------------
(* The goroutines of the worker *)

\* Variant of CleanupListers: the listers that it closes stay in the table.
CleanupListersKeeps ==
  LET old == {x \in Indexes : table[x] # None /\ idle[x] > Expiration} IN
  /\ ~discarded
  /\ old # {}
  /\ closings' = [l \in Listers |->
                    closings[l] + Cardinality({x \in old : table[x] = l})]
  /\ expired' = TRUE
  /\ UNCHANGED <<table, idle, dirOf, discarded, cleaned, reader>>

\* Variant of CleanupListers: index 0 is taken for no lister.
CleanupListersSkipsZero ==
  LET old == {x \in Indexes \ {0} : table[x] # None /\ idle[x] > Expiration} IN
  /\ ~discarded
  /\ old # {}
  /\ table' = [x \in Indexes |-> IF x \in old THEN None ELSE table[x]]
  /\ closings' = [l \in Listers |->
                    closings[l] + Cardinality({x \in old : table[x] = l})]
  /\ expired' = TRUE
  /\ UNCHANGED <<idle, dirOf, discarded, cleaned, reader>>

\* A pass of cleanupListers closes the listers that were not used for long.
CleanupListers ==
  LET old == {x \in Indexes : table[x] # None /\ idle[x] > Expiration} IN
  /\ ~discarded
  /\ old # {}
  /\ table' = [x \in Indexes |-> IF x \in old THEN None ELSE table[x]]
  /\ closings' = [l \in Listers |->
                    closings[l] + Cardinality({x \in old : table[x] = l})]
  /\ expired' = TRUE
  /\ UNCHANGED <<idle, dirOf, discarded, cleaned, reader>>

\* The worker is discarded: it is idle, or its user has new credentials.
Discard ==
  /\ ~discarded
  /\ discarded' = TRUE
  /\ UNCHANGED <<table, idle, dirOf, closings, cleaned, expired, reader>>

\* cleanup, once the worker is discarded and not in use.
Cleanup ==
  /\ discarded /\ ~cleaned
  /\ InUse = {}
  /\ closings' = [l \in Listers |->
                    closings[l] + Cardinality({x \in Indexes : table[x] = l})]
  /\ table' = [x \in Indexes |-> None]
  /\ cleaned' = TRUE
  /\ UNCHANGED <<idle, dirOf, discarded, expired, reader>>

Tick ==
  /\ idle' = [x \in Indexes |->
                IF table[x] = None \/ idle[x] > Expiration THEN idle[x]
                ELSE idle[x] + 1]
  /\ idle' # idle
  /\ UNCHANGED <<table, dirOf, closings, discarded, cleaned, expired, reader>>

Handle(c) ==
  ReadDirPage(c) \/ ReadDirFails(c) \/ ReadDirEOF(c) \/ ReadDirCloseFails(c)

Request(c) ==
  \/ \E d \in Dirs : Begin(c, d)
  \/ Abandon(c)
  \/ \E l \in Listers, x \in Indexes : ReadDirFirst(c, l, x)
  \/ ReadDirNext(c) \/ ReadDirNotSame(c)

Next ==
  \/ \E c \in Readers : Handle(c) \/ Request(c)
  \/ CleanupListers \/ Discard \/ Cleanup \/ Tick

Spec == Init /\ [][Next]_vars

(* Handlers run to their end, the clock and the ticker of the expiry       *)
(* goroutine go on, and cleanup is a goroutine of its own.                 *)
Fairness ==
  /\ \A c \in Readers : WF_vars(Handle(c))
  /\ WF_vars(CleanupListers) /\ WF_vars(Cleanup) /\ WF_vars(Tick)

FairSpec == Spec /\ Fairness

----------------------------------------------------------------------------

(* READDIR, CleanupListers and cleanup race for the listers in the table:  *)
(* each lister is closed at most once, one that is not in the table is     *)
(* closed, and none is left open when the worker has been cleaned up.      *)
ListerClosedOnce ==
  \A l \in Listers :
    /\ dirOf[l] # None =>
         closings[l] = IF \E x \in Indexes : table[x] = l THEN 0 ELSE 1
    /\ cleaned => \A x \in Indexes : table[x] = None

(* As long as no lister was closed for lack of use, a client that follows  *)
(* the cookies of READDIR to the end gets every entry of its directory,    *)
(* once and in order, wherever the pages were cut and whoever else reads.  *)
CompleteListing ==
  \A c \in Readers :
    reader[c].done /\ ~expired =>
      reader[c].got = [j \in 1..Size[reader[c].dir] |-> <<reader[c].dir, j>>]

(* A lister is closed in the end, also when its client never comes back:   *)
(* by the end of the listing, the expiry goroutine or cleanup.             *)
ListerIsReleased ==
  \A l \in Listers : dirOf[l] # None ~> closings[l] > 0

============================================================================
