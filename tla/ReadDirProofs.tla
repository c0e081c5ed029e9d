--------------------------- MODULE ReadDirProofs ---------------------------
(***************************************************************************)
(* Proofs about ReadDir, for any readers, directories, indexes, batch size *)
(* and expiration.                                                         *)
(***************************************************************************)
EXTENDS ReadDir, FiniteSetTheorems, TLAPS

\* The cookies that READDIR sends are above 1000.
Cookies == {k \in Nat : k = 0 \/ k > 1000}

ReaderState ==
  [at : {"rest", "list", "close"}, dir : Dirs \cup {None}, got : Seq(Dirs \X Nat),
   cookie : Cookies, verf : Indexes \cup {EOFLister}, lister : Listers \cup {None},
   done : BOOLEAN]

\* Every variable has its type.
DirType ==
  /\ table \in [Indexes -> Listers \cup {None}]
  /\ idle \in [Indexes -> Nat]
  /\ dirOf \in [Listers -> Dirs \cup {None}]
  /\ closings \in [Listers -> Nat]
  /\ discarded \in BOOLEAN /\ cleaned \in BOOLEAN /\ expired \in BOOLEAN
  /\ reader \in [Readers -> ReaderState]

\* The listers that List has returned, which are numbered as it returns them.
Opened == {m \in Listers : dirOf[m] # None}

Numbered == \E n \in 0..MaxListers : Opened = 1..n

\* The table holds listers that were opened, each at one index.
Tabled ==
  /\ \A x \in Indexes : table[x] # None => dirOf[table[x]] # None
  /\ \A x, y \in Indexes : table[x] = table[y] /\ table[x] # None => x = y

\* A lister is closed once when it is not in the table, and not before it is
\* opened.
Closings ==
  \A l \in Listers :
    closings[l] = IF dirOf[l] = None \/ \E x \in Indexes : table[x] = l THEN 0 ELSE 1

\* After cleanup the table is empty and no request is handled any more.
Ended ==
  cleaned => discarded /\ InUse = {} /\ \A x \in Indexes : table[x] = None

\* What a request under way has set up.
HandlerState(r) ==
  /\ r.at # "rest" => r.dir # None /\ ~r.done
  /\ r.cookie # 0 \/ r.done => r.dir # None
  /\ ~r.done => r.verf \in Indexes
  /\ r.at = "list" => r.lister \in Listers /\ dirOf[r.lister] # None

DirInv ==
  /\ DirType /\ Numbered /\ Tabled /\ Closings /\ Ended
  /\ \A c \in Readers : HandlerState(reader[c])
----------------------------------------------------------------------------
\* A reader that starts afresh.
LEMMA StartingState ==
  ASSUME NEW d \in Dirs \cup {None}
  PROVE  Starting(d) \in ReaderState /\ HandlerState(Starting(d)) /\ Starting(d).at = "rest"
BY ReadDirAssumption DEF Starting, ReaderState, HandlerState, Cookies

\* What ListAt and the reply may return.
LEMMA PageFacts ==
  ASSUME NEW l \in Listers, dirOf \in [Listers -> Dirs \cup {None}], dirOf[l] # None,
         NEW offset \in Nat, NEW b \in ListAt(l, offset), NEW page \in Pages(b)
  PROVE  /\ page.n \in Nat /\ page.eof \in BOOLEAN
         /\ page.n > 0 => offset + page.n <= Size[dirOf[l]]
         /\ page.eof /\ offset <= Size[dirOf[l]] => offset + page.n = Size[dirOf[l]]
         /\ offset <= Size[dirOf[l]] => offset + page.n <= Size[dirOf[l]]
         /\ page.n = 0 => page.eof
<1> DEFINE size == Size[dirOf[l]]
           left == IF offset > size THEN 0 ELSE size - offset
           n == IF left < Batch THEN left ELSE Batch
<1>1. size \in Nat /\ Batch \in Nat \ {0}
  BY ReadDirAssumption
<1>2. b.n = n /\ b.eof \in {n < Batch, n = left}
  BY DEF ListAt
<1> HIDE DEF size
<1>3. left \in Nat /\ n \in Nat /\ n <= left
  BY <1>1
<1>4. b.eof \in BOOLEAN /\ (b.eof => n = left) /\ (n = 0 => b.eof)
  <2>1. CASE b.eof = (n < Batch)
    <3>1. (n < Batch) \in BOOLEAN
      BY <1>1, <1>3
    <3>2. (n < Batch => n = left) /\ (n = 0 => n < Batch)
      BY <1>1, <1>3
    <3> QED
      BY <2>1, <3>1, <3>2, Zenon
  <2>2. CASE b.eof = (n = left)
    <3>1. n = 0 => n = left
      BY <1>1, <1>3
    <3>2. (n = left) \in BOOLEAN
      OBVIOUS
    <3> QED
      BY <2>2, <3>1, <3>2, Zenon
  <2> QED
    BY <1>2, <2>1, <2>2
<1>5. \/ page.n \in 1..n /\ page.eof = FALSE
      \/ page.n = n /\ page.eof = b.eof
  BY <1>2 DEF Pages
<1>6. page.n \in Nat /\ page.n <= left
  BY <1>3, <1>5
<1>7. page.eof \in BOOLEAN
  BY <1>4, <1>5, Zenon
<1>8. page.eof => page.n = left
  BY <1>4, <1>5, Zenon
<1>9. page.n = 0 => page.eof
  <2>1. page.n = 0 => page.n \notin 1..n
    BY <1>3
  <2> QED
    BY <1>4, <1>5, <2>1, Zenon
<1> QED
  BY <1>1, <1>6, <1>7, <1>8, <1>9 DEF size

\* A step that changes one reader only.
LEMMA ReaderOnly ==
  ASSUME DirInv, NEW c \in Readers, NEW R \in ReaderState, HandlerState(R),
         reader' = [reader EXCEPT ![c] = R],
         discarded' \in BOOLEAN, discarded => discarded', idle' \in [Indexes -> Nat],
         cleaned => R.at = "rest",
         UNCHANGED <<table, dirOf, closings, cleaned, expired>>
  PROVE  DirInv'
<1> USE DEF DirInv
<1>1. DirType'
  BY DEF DirType
<1>2. \A d \in Readers : reader'[d] = IF d = c THEN R ELSE reader[d]
  BY DEF DirType
<1>3. Numbered' /\ Tabled' /\ Closings'
  BY DEF Numbered, Opened, Tabled, Closings
<1>4. Ended'
  BY <1>2 DEF Ended, InUse
<1>5. \A d \in Readers : HandlerState(reader[d])'
  BY <1>2 DEF HandlerState
<1> QED
  BY <1>1, <1>3, <1>4, <1>5

\* Requests that leave the table alone.
LEMMA PlainRequest ==
  ASSUME DirInv, NEW c \in Readers,
         (\E d \in Dirs : Begin(c, d)) \/ Abandon(c) \/ ReadDirNotSame(c)
  PROVE  DirInv'
<1>1. PICK d \in Dirs \cup {None} : reader' = [reader EXCEPT ![c] = Starting(d)]
  BY DEF Begin, Abandon, ReadDirNotSame, Fresh, DirInv, DirType, ReaderState
<1>2. UNCHANGED <<table, idle, dirOf, closings, discarded, cleaned, expired>>
  BY DEF Begin, Abandon, ReadDirNotSame
<1>3. PICK R : R = Starting(d)
  OBVIOUS
<1> QED
  BY <1>1, <1>2, <1>3, StartingState, ReaderOnly, Zenon DEF DirInv, DirType

\* ListAt returns a page.
LEMMA PageStep ==
  ASSUME DirInv, NEW c \in Readers, ReadDirPage(c)
  PROVE  DirInv'
<1> DEFINE r == reader[c]
           offset == Offset(r.cookie)
<1>1. /\ r \in ReaderState /\ HandlerState(r) /\ r.at = "list" /\ ~cleaned
      /\ r.lister \in Listers /\ dirOf[r.lister] \in Dirs /\ dirOf[r.lister] # None
      /\ r.dir # None /\ ~r.done /\ r.verf \in Indexes
  BY DEF DirInv, DirType, HandlerState, ReadDirPage, Ended, InUse
<1>2. PICK b \in ListAt(r.lister, offset) : \E page \in Pages(b) :
       reader' = [reader EXCEPT ![c] =
                    [at |-> IF page.eof THEN "close" ELSE "rest", dir |-> r.dir,
                     got |-> r.got \o Entries(r.lister, offset, page.n),
                     cookie |-> NextCookie(r.cookie, page.n), verf |-> r.verf,
                     lister |-> None, done |-> FALSE]]
  BY Zenon DEF ReadDirPage
<1>3. PICK page \in Pages(b) :
       reader' = [reader EXCEPT ![c] =
                    [at |-> IF page.eof THEN "close" ELSE "rest", dir |-> r.dir,
                     got |-> r.got \o Entries(r.lister, offset, page.n),
                     cookie |-> NextCookie(r.cookie, page.n), verf |-> r.verf,
                     lister |-> None, done |-> FALSE]]
  BY <1>2, Zenon
<1>4. offset \in Nat /\ r.cookie \in Cookies /\ r.got \in Seq(Dirs \X Nat)
  BY <1>1 DEF Offset, ReaderState, Cookies
<1>5. page.n \in Nat /\ page.eof \in BOOLEAN
  BY <1>1, <1>4, PageFacts, Zenon DEF DirInv, DirType
<1>6. NextCookie(r.cookie, page.n) \in Cookies
  BY <1>4, <1>5 DEF NextCookie, Cookies
<1>7. r.got \o Entries(r.lister, offset, page.n) \in Seq(Dirs \X Nat)
  <2>1. Entries(r.lister, offset, page.n) \in Seq(Dirs \X Nat)
    <3>1. PICK s : s = Entries(r.lister, offset, page.n)
      OBVIOUS
    <3>2. s \in [1..page.n -> Dirs \X Nat]
      BY <1>1, <1>4, <1>5, <3>1 DEF Entries
    <3> QED
      BY <1>5, <3>1, <3>2
  <2> QED
    BY <1>4, <2>1
<1>8. PICK R : R = [at |-> IF page.eof THEN "close" ELSE "rest", dir |-> r.dir,
                    got |-> r.got \o Entries(r.lister, offset, page.n),
                    cookie |-> NextCookie(r.cookie, page.n), verf |-> r.verf,
                    lister |-> None, done |-> FALSE]
  BY Zenon
<1>9. R \in ReaderState
  BY <1>1, <1>5, <1>6, <1>7, <1>8, Zenon DEF ReaderState
<1>10. HandlerState(R)
  BY <1>1, <1>5, <1>8 DEF HandlerState
<1>11. reader' = [reader EXCEPT ![c] = R]
  BY <1>3, <1>8, Zenon
<1>12. UNCHANGED <<table, idle, dirOf, closings, discarded, cleaned, expired>>
  BY DEF ReadDirPage
<1> QED
  BY <1>1, <1>9, <1>10, <1>11, <1>12, ReaderOnly, Zenon DEF DirInv, DirType

\* ListAt returns an error.
LEMMA FailStep ==
  ASSUME DirInv, NEW c \in Readers, ReadDirFails(c)
  PROVE  DirInv'
<1>1. PICK R : R = Starting(None)
  OBVIOUS
<1> QED
  BY <1>1, StartingState, ReaderOnly, Zenon DEF DirInv, DirType, ReadDirFails, Fresh

\* READDIR finds the lister of a verifier.
LEMMA NextStep ==
  ASSUME DirInv, NEW c \in Readers, ReadDirNext(c)
  PROVE  DirInv'
<1> DEFINE r == reader[c]
<1>1. /\ r \in ReaderState /\ HandlerState(r) /\ ~cleaned /\ ~discarded
      /\ r.dir # None /\ ~r.done /\ r.verf \in Indexes
  BY DEF DirInv, DirType, HandlerState, ReadDirNext, Ended, Reading, Resting
<1>2. table[r.verf] \in Listers /\ dirOf[table[r.verf]] # None
  BY <1>1 DEF DirInv, DirType, Tabled, ReadDirNext
<1>3. PICK R : R = [at |-> "list", dir |-> r.dir, got |-> r.got, cookie |-> r.cookie,
                    verf |-> r.verf, lister |-> table[r.verf], done |-> FALSE]
  BY Zenon
<1>4. R \in ReaderState
  BY <1>1, <1>2, <1>3, Zenon DEF ReaderState
<1>5. HandlerState(R)
  BY <1>1, <1>2, <1>3 DEF HandlerState
<1>6. reader' = [reader EXCEPT ![c] = R]
  BY <1>3, Zenon DEF ReadDirNext, Listing
<1>7. /\ UNCHANGED <<table, dirOf, closings, discarded, cleaned, expired>>
      /\ idle' \in [Indexes -> Nat]
  BY Zenon DEF ReadDirNext, DirInv, DirType
<1> QED
  BY <1>1, <1>4, <1>5, <1>6, <1>7, ReaderOnly, Zenon DEF DirInv, DirType

\* READDIR with cookie 0 opens the directory and takes a free index.
LEMMA FirstStep ==
  ASSUME DirInv, NEW c \in Readers, NEW l \in Listers, NEW x \in Indexes, ReadDirFirst(c, l, x)
  PROVE  DirInv'
<1> USE DEF DirInv
<1> DEFINE r == reader[c]
<1>1. /\ r \in ReaderState /\ HandlerState(r) /\ ~cleaned /\ ~discarded
      /\ r.dir \in Dirs /\ r.dir # None /\ table[x] = None
  BY DEF DirType, ReadDirFirst, Ended, Reading, Resting, FreeIndex, ReaderState
<1>2. PICK n \in 0..MaxListers : Opened = 1..n
  BY DEF Numbered
<1>3. Cardinality(1..n) = n
  BY <1>2, FS_Interval, ReadDirAssumption
<1>4. l = n + 1 /\ n + 1 \in 0..MaxListers
  <2>1. l = 1 + Cardinality(Opened)
    BY DEF ReadDirFirst, Opened
  <2>2. l \in 1..MaxListers
    BY DEF Listers
  <2> QED
    BY <1>2, <1>3, <2>1, <2>2, ReadDirAssumption
<1>5. dirOf[l] = None
  BY <1>2, <1>4 DEF Opened
<1>6. /\ dirOf' = [dirOf EXCEPT ![l] = r.dir] /\ table' = [table EXCEPT ![x] = l]
      /\ idle' = [idle EXCEPT ![x] = 0]
      /\ UNCHANGED <<closings, discarded, cleaned, expired>>
  BY DEF ReadDirFirst
<1>7. /\ \A m \in Listers : dirOf'[m] = IF m = l THEN r.dir ELSE dirOf[m]
      /\ \A y \in Indexes : table'[y] = IF y = x THEN l ELSE table[y]
      /\ \A y \in Indexes : table[y] # l
      /\ l # None
  BY <1>5, <1>6, ReadDirAssumption DEF DirType, Tabled
<1>8. PICK R : R = [at |-> "list", dir |-> r.dir, got |-> r.got, cookie |-> r.cookie,
                    verf |-> x, lister |-> l, done |-> FALSE]
  BY Zenon
<1>9. R \in ReaderState
  BY <1>1, <1>8 DEF ReaderState
<1>10. reader' = [reader EXCEPT ![c] = R]
  BY <1>8, Zenon DEF ReadDirFirst, Listing
<1>11. DirType'
  BY <1>1, <1>6, <1>9, <1>10 DEF DirType
<1>12. Numbered'
  <2>1. Opened' = Opened \cup {l}
    BY <1>1, <1>7 DEF Opened
  <2>2. Opened' = 1..(n + 1)
    BY <1>2, <1>4, <2>1
  <2> QED
    BY <1>4, <2>2 DEF Numbered
<1>13. Tabled'
  BY <1>1, <1>7 DEF Tabled, DirType
<1>14. Closings'
  <2> SUFFICES ASSUME NEW m \in Listers
               PROVE  closings'[m] = IF dirOf'[m] = None \/ \E y \in Indexes : table'[y] = m
                                     THEN 0 ELSE 1
    BY Zenon DEF Closings
  <2>1. CASE m = l
    BY <1>5, <1>6, <1>7, <2>1 DEF Closings
  <2>2. CASE m # l
    <3>1. m # None
      BY ReadDirAssumption
    <3>2. \A y \in Indexes : table'[y] = m <=> table[y] = m
      BY <1>1, <1>7, <2>2, <3>1, Zenon
    <3> QED
      BY <1>6, <1>7, <2>2, <3>2 DEF Closings
  <2> QED
    BY <2>1, <2>2
<1>15. Ended'
  BY <1>1, <1>6 DEF Ended
<1>16. ASSUME NEW d \in Readers
       PROVE  HandlerState(reader[d])'
  <2>1. CASE d = c
    <3>1. reader'[d] = R
      BY <1>10, <2>1, Zenon DEF DirType
    <3> QED
      BY <1>1, <1>7, <1>8, <3>1 DEF HandlerState
  <2>2. CASE d # c
    <3>1. reader'[d] = reader[d]
      BY <1>10, <2>2 DEF DirType
    <3> QED
      BY <1>1, <1>7, <3>1 DEF HandlerState
  <2> QED
    BY <2>1, <2>2, Zenon
<1> QED
  BY <1>11, <1>12, <1>13, <1>14, <1>15, <1>16, Zenon

\* How many indexes in S hold lister l.
LEMMA Occurrences ==
  ASSUME Tabled, DirType, NEW S \in SUBSET Indexes, NEW l \in Listers
  PROVE  Cardinality({x \in S : table[x] = l}) = IF \E x \in S : table[x] = l THEN 1 ELSE 0
<1>1. l # None
  BY ReadDirAssumption
<1>2. CASE \E x \in S : table[x] = l
  <2>1. PICK x \in S : table[x] = l
    BY <1>2
  <2>2. {y \in S : table[y] = l} = {x}
    BY <1>1, <2>1 DEF Tabled
  <2>3. Cardinality({x}) = 1
    BY FS_Singleton, Zenon
  <2> QED
    BY <1>2, <2>2, <2>3
<1>3. CASE ~\E x \in S : table[x] = l
  <2>1. {y \in S : table[y] = l} = {}
    BY <1>3
  <2> QED
    BY <1>3, <2>1, FS_EmptySet
<1> QED
  BY <1>2, <1>3

\* Closing the listers at the indexes in S and taking them out of the table.
LEMMA CloseStep ==
  ASSUME DirInv, NEW S \in SUBSET Indexes,
         table' = [x \in Indexes |-> IF x \in S THEN None ELSE table[x]],
         closings' = [l \in Listers |-> closings[l] + Cardinality({x \in S : table[x] = l})],
         dirOf' = dirOf
  PROVE  /\ table' \in [Indexes -> Listers \cup {None}] /\ closings' \in [Listers -> Nat]
         /\ Numbered' /\ Tabled' /\ Closings'
<1> USE DEF DirInv
<1>1. \A l \in Listers :
        closings'[l] = closings[l] + (IF \E x \in S : table[x] = l THEN 1 ELSE 0)
  BY Occurrences
<1>2. table' \in [Indexes -> Listers \cup {None}]
  BY DEF DirType
<1>3. closings' \in [Listers -> Nat]
  <2>1. \A l \in Listers : closings'[l] \in Nat
    BY <1>1 DEF DirType
  <2> QED
    BY <2>1
<1>4. Numbered' /\ Tabled'
  BY DEF Numbered, Opened, Tabled
<1>5. ASSUME NEW l \in Listers
      PROVE  closings'[l] = IF dirOf'[l] = None \/ \E x \in Indexes : table'[x] = l THEN 0 ELSE 1
  <2>1. l # None
    BY ReadDirAssumption
  <2>2. CASE \E x \in S : table[x] = l
    <3>1. PICK x \in S : table[x] = l
      BY <2>2
    <3>2. \A y \in Indexes : table'[y] # l
      BY <2>1, <3>1 DEF Tabled
    <3>3. dirOf[l] # None /\ closings[l] = 0
      BY <2>1, <3>1, Zenon DEF Tabled, Closings
    <3> QED
      BY <1>1, <2>2, <3>2, <3>3
  <2>3. CASE ~\E x \in S : table[x] = l
    <3>1. \A y \in Indexes : table'[y] = l <=> table[y] = l
      BY <2>1, <2>3
    <3>2. closings'[l] = closings[l]
      BY <1>1, <2>3 DEF DirType
    <3> QED
      BY <3>1, <3>2 DEF Closings
  <2> QED
    BY <2>2, <2>3
<1> QED
  BY <1>2, <1>3, <1>4, <1>5 DEF Closings

\* The end of a listing.
LEMMA EndStep ==
  ASSUME DirInv, NEW c \in Readers, ReadDirEOF(c) \/ ReadDirCloseFails(c)
  PROVE  DirInv'
<1> USE DEF DirInv
<1> DEFINE r == reader[c]
<1>1. /\ r \in ReaderState /\ HandlerState(r) /\ ~cleaned /\ c \in InUse
      /\ r.dir # None /\ ~r.done /\ r.verf \in Indexes
  BY DEF DirType, HandlerState, ReadDirEOF, ReadDirCloseFails, Ended, InUse
<1>2. PICK S \in SUBSET Indexes :
        S = IF table[r.verf] = None THEN {} ELSE {r.verf}
  BY <1>1, Zenon
<1>3. /\ table' = [x \in Indexes |-> IF x \in S THEN None ELSE table[x]]
      /\ closings' = [l \in Listers |-> closings[l] + Cardinality({x \in S : table[x] = l})]
  <2>1. CASE table[r.verf] = None
    <3>1. UNCHANGED <<table, closings>>
      BY <2>1 DEF ReadDirEOF, ReadDirCloseFails
    <3>2. \A l \in Listers : Cardinality({x \in S : table[x] = l}) = 0
      BY <1>2, <2>1, Occurrences, Zenon
    <3> QED
      BY <1>2, <2>1, <3>1, <3>2 DEF DirType
  <2>2. CASE table[r.verf] # None
    <3>1. CloseLister(r.verf)
      BY <2>2 DEF ReadDirEOF, ReadDirCloseFails
    <3>2. \A l \in Listers : Cardinality({x \in S : table[x] = l}) =
                               IF table[r.verf] = l THEN 1 ELSE 0
      BY <1>2, <2>2, Occurrences, SMTT(60)
    <3>3. table[r.verf] \in Listers
      BY <1>1, <2>2 DEF DirType
    <3>4. table' = [x \in Indexes |-> IF x \in S THEN None ELSE table[x]]
      BY <1>1, <1>2, <2>2, <3>1, Zenon DEF CloseLister, DirType
    <3>5. \A l \in Listers :
            closings'[l] = closings[l] + (IF table[r.verf] = l THEN 1 ELSE 0)
      BY <3>1, <3>3 DEF CloseLister, DirType
    <3>6. closings' \in [Listers -> Nat]
      BY <3>1, <3>3 DEF CloseLister, DirType
    <3> QED
      BY <3>2, <3>4, <3>5, <3>6, Zenon
  <2> QED
    BY <2>1, <2>2
<1>4. PICK R \in ReaderState : HandlerState(R) /\ reader' = [reader EXCEPT ![c] = R]
  <2>1. CASE ReadDirEOF(c)
    <3>1. PICK R : R = [at |-> "rest", dir |-> r.dir, got |-> r.got, cookie |-> r.cookie,
                        verf |-> EOFLister, lister |-> None, done |-> TRUE]
      BY ZenonT(60)
    <3>2. R \in ReaderState /\ HandlerState(R)
      BY <1>1, <3>1 DEF ReaderState, HandlerState
    <3>3. reader' = [reader EXCEPT ![c] = R]
      BY <2>1, <3>1, Zenon DEF ReadDirEOF
    <3> QED
      BY <3>2, <3>3, Zenon
  <2>2. CASE ReadDirCloseFails(c)
    BY <2>2, StartingState, Zenon DEF ReadDirCloseFails, Fresh
  <2> QED
    BY <2>1, <2>2
<1>5. UNCHANGED <<idle, dirOf, discarded, cleaned, expired>>
  BY DEF ReadDirEOF, ReadDirCloseFails
<1>6. /\ table' \in [Indexes -> Listers \cup {None}] /\ closings' \in [Listers -> Nat]
      /\ Numbered' /\ Tabled' /\ Closings'
  BY <1>3, <1>5, CloseStep, Zenon
<1>7. \A d \in Readers : reader'[d] = IF d = c THEN R ELSE reader[d]
  BY <1>4 DEF DirType
<1>8. DirType'
  BY <1>4, <1>5, <1>6, Zenon DEF DirType
<1>9. Ended'
  BY <1>1, <1>5, Zenon DEF Ended
<1>10. \A d \in Readers : HandlerState(reader[d])'
  BY <1>4, <1>5, <1>7, SMTT(60) DEF HandlerState
<1> QED
  BY <1>6, <1>8, <1>9, <1>10, Zenon

\* The goroutines of the worker.
LEMMA WorkerStep ==
  ASSUME DirInv, CleanupListers \/ Discard \/ Cleanup \/ Tick \/ UNCHANGED vars
  PROVE  DirInv'
<1> USE DEF DirInv
<1>1. CASE CleanupListers
  <2>1. PICK S \in SUBSET Indexes :
          /\ table' = [x \in Indexes |-> IF x \in S THEN None ELSE table[x]]
          /\ closings' = [l \in Listers |-> closings[l] + Cardinality({x \in S : table[x] = l})]
    BY <1>1, ZenonT(60) DEF CleanupListers
  <2>2. UNCHANGED <<idle, dirOf, discarded, cleaned, reader>> /\ expired' = TRUE /\ ~discarded
    BY <1>1 DEF CleanupListers
  <2>3. /\ table' \in [Indexes -> Listers \cup {None}] /\ closings' \in [Listers -> Nat]
        /\ Numbered' /\ Tabled' /\ Closings'
    BY <2>1, <2>2, CloseStep, Zenon
  <2>4. DirType' /\ Ended'
    BY <2>2, <2>3, Zenon DEF DirType, Ended
  <2> QED
    BY <2>2, <2>3, <2>4 DEF HandlerState
<1>2. CASE Cleanup
  <2>1. PICK S \in SUBSET Indexes : S = Indexes
    BY Zenon
  <2>2. /\ table' = [x \in Indexes |-> IF x \in S THEN None ELSE table[x]]
        /\ closings' = [l \in Listers |-> closings[l] + Cardinality({x \in S : table[x] = l})]
    BY <1>2, <2>1, Zenon DEF Cleanup
  <2>3. /\ UNCHANGED <<idle, dirOf, discarded, expired, reader>>
        /\ cleaned' = TRUE /\ discarded /\ InUse = {}
    BY <1>2 DEF Cleanup
  <2>4. /\ table' \in [Indexes -> Listers \cup {None}] /\ closings' \in [Listers -> Nat]
        /\ Numbered' /\ Tabled' /\ Closings'
    BY <2>2, <2>3, CloseStep, Zenon
  <2>5. DirType' /\ Ended'
    BY <2>1, <2>2, <2>3, <2>4, Zenon DEF DirType, Ended, InUse
  <2> QED
    BY <2>3, <2>4, <2>5 DEF HandlerState
<1>3. CASE Discard \/ Tick \/ UNCHANGED vars
  <2>1. /\ UNCHANGED <<table, dirOf, closings, cleaned, expired, reader>>
        /\ discarded' \in BOOLEAN /\ (discarded => discarded')
    BY <1>3, Zenon DEF Discard, Tick, vars, DirType
  <2>2. idle' \in [Indexes -> Nat]
    BY <1>3 DEF Discard, Tick, vars, DirType
  <2>3. DirType' /\ Ended'
    BY <2>1, <2>2 DEF DirType, Ended, InUse
  <2> QED
    BY <2>1, <2>3 DEF Numbered, Opened, Tabled, Closings, HandlerState
<1> QED
  BY <1>1, <1>2, <1>3, Zenon

\* At first the table is empty and nothing was opened.
LEMMA InitDirInv ==
  ASSUME Init
  PROVE  DirInv
<1>1. Fresh \in ReaderState /\ HandlerState(Fresh) /\ Fresh.at = "rest"
  BY StartingState DEF Fresh
<1>2. \A c \in Readers : reader[c] = Fresh
  BY DEF Init
<1>3. discarded \in BOOLEAN /\ cleaned \in BOOLEAN /\ expired \in BOOLEAN
  BY Zenon DEF Init
<1>4. DirType
  BY <1>1, <1>3 DEF Init, DirType
<1>5. Opened = 1..0
  BY DEF Opened, Init
<1>6. Numbered
  BY <1>5, ReadDirAssumption DEF Numbered
<1>7. Tabled /\ Closings
  BY DEF Init, Tabled, Closings
<1>8. Ended
  BY DEF Init, Ended
<1> QED
  BY <1>1, <1>2, <1>4, <1>6, <1>7, <1>8, Zenon DEF DirInv

\* The invariant of the table of listers, whatever readers and goroutines do.
THEOREM DirInvariant == Spec => []DirInv
<1>1. ASSUME DirInv, [Next]_vars
      PROVE  DirInv'
  <2>1. ASSUME NEW c \in Readers, Handle(c)
        PROVE  DirInv'
    BY <1>1, <2>1, PageStep, FailStep, EndStep, Zenon DEF Handle
  <2>2. ASSUME NEW c \in Readers, Request(c)
        PROVE  DirInv'
    BY <1>1, <2>2, PlainRequest, FirstStep, NextStep DEF Request
  <2> QED
    BY <1>1, <2>1, <2>2, WorkerStep DEF Next
<1> QED
  BY <1>1, InitDirInv, PTL DEF Spec

\* Every lister is closed once, by READDIR, the expiry goroutine or cleanup, and
\* none is left open by cleanup.
THEOREM ListersClosedOnce == Spec => []ListerClosedOnce
<1>1. DirInv => ListerClosedOnce
  BY Zenon DEF DirInv, Closings, Ended, ListerClosedOnce
<1> QED
  BY <1>1, DirInvariant, PTL
----------------------------------------------------------------------------
\* A reader that goes by a verifier.
Active(r) == r.dir # None /\ ~r.done /\ (r.cookie # 0 \/ r.at # "rest")

\* The lister of its verifier lists its directory, and nobody else goes by it.
Owned ==
  /\ \A c \in Readers :
       Active(reader[c]) /\ ~cleaned =>
         table[reader[c].verf] # None /\ dirOf[table[reader[c].verf]] = reader[c].dir
  /\ \A c, d \in Readers :
       Active(reader[c]) /\ Active(reader[d]) /\ reader[c].verf = reader[d].verf => c = d
  /\ \A c \in Readers : reader[c].at = "list" => dirOf[reader[c].lister] = reader[c].dir

\* A reader has got the entries before its cookie, which are all after io.EOF.
SoFar(r) ==
  r.dir # None =>
    /\ Offset(r.cookie) <= Size[r.dir] /\ Len(r.got) = Offset(r.cookie)
    /\ \A j \in 1..Offset(r.cookie) : r.got[j] = <<r.dir, j>>
    /\ r.at = "close" \/ r.done => Offset(r.cookie) = Size[r.dir]

\* Every listing is right as long as no lister was closed for lack of use.
ListInv == ~expired => Owned /\ \A c \in Readers : SoFar(reader[c])

\* A step that changes one reader, which keeps its directory and verifier or
\* gives them up.
LEMMA ListReader ==
  ASSUME DirInv, ListInv, NEW c \in Readers, NEW R \in ReaderState,
         reader' = [reader EXCEPT ![c] = R],
         UNCHANGED <<table, dirOf, cleaned, expired>>,
         Active(R) => Active(reader[c]) /\ R.dir = reader[c].dir /\ R.verf = reader[c].verf,
         ~expired /\ R.at = "list" => dirOf[R.lister] = R.dir,
         ~expired => SoFar(R)
  PROVE  ListInv'
<1>1. \A d \in Readers : reader'[d] = IF d = c THEN R ELSE reader[d]
  BY DEF DirInv, DirType
<1> SUFFICES ASSUME ~expired
             PROVE  Owned' /\ \A d \in Readers : SoFar(reader'[d])
  BY DEF ListInv
<1>2. Owned /\ \A d \in Readers : SoFar(reader[d])
  BY DEF ListInv
<1>3. \A d \in Readers : SoFar(reader'[d])
  BY <1>1, <1>2, Zenon
<1>4. \A d \in Readers :
        Active(reader'[d]) =>
          Active(reader[d]) /\ reader'[d].dir = reader[d].dir /\ reader'[d].verf = reader[d].verf
  BY <1>1, Zenon
<1>5. \A d \in Readers : reader'[d].at = "list" => dirOf'[reader'[d].lister] = reader'[d].dir
  BY <1>1, <1>2, SMTT(60) DEF Owned
<1>6. \A d \in Readers :
        Active(reader'[d]) /\ ~cleaned' =>
          table'[reader'[d].verf] # None /\ dirOf'[table'[reader'[d].verf]] = reader'[d].dir
  BY <1>2, <1>4, ZenonT(60) DEF Owned
<1>7. \A d, e \in Readers :
        Active(reader'[d]) /\ Active(reader'[e]) /\ reader'[d].verf = reader'[e].verf => d = e
  BY <1>2, <1>4, ZenonT(60) DEF Owned
<1> QED
  BY <1>3, <1>5, <1>6, <1>7, Zenon DEF Owned, Active

\* A reader that starts afresh has got nothing yet.
LEMMA StartingSoFar ==
  ASSUME NEW d \in Dirs \cup {None}
  PROVE  /\ Starting(d) \in ReaderState /\ SoFar(Starting(d)) /\ ~Active(Starting(d))
         /\ Starting(d).at = "rest"
<1>1. Starting(d) \in ReaderState
  BY StartingState
<1>2. PICK R : R = Starting(d)
  OBVIOUS
<1>3. /\ R.at = "rest" /\ R.dir = d /\ R.cookie = 0 /\ R.got = <<>> /\ R.done = FALSE
  BY <1>2 DEF Starting
<1>4. SoFar(R)
  BY <1>3, ReadDirAssumption DEF SoFar, Offset
<1> QED
  BY <1>1, <1>2, <1>3, <1>4 DEF Active

\* The entries of a page follow those that the reader has.
LEMMA MoreEntries ==
  ASSUME NEW d \in Dirs, NEW m \in Nat, NEW n \in Nat, NEW s \in Seq(Dirs \X Nat),
         Len(s) = m, \A j \in 1..m : s[j] = <<d, j>>
  PROVE  /\ Len(s \o [j \in 1..n |-> <<d, m + j>>]) = m + n
         /\ \A i \in 1..(m + n) : (s \o [j \in 1..n |-> <<d, m + j>>])[i] = <<d, i>>
<1> DEFINE u == [j \in 1..n |-> <<d, m + j>>]
           t == s \o u
<1>1. u \in [1..n -> Dirs \X Nat] /\ \A j \in 1..n : u[j] = <<d, m + j>>
  OBVIOUS
<1>2. u \in Seq(Dirs \X Nat) /\ Len(u) = n
  BY <1>1
<1> HIDE DEF u
<1>3. /\ Len(t) = m + n
      /\ \A j \in 1..(m + n) : t[j] = IF j <= m THEN s[j] ELSE u[j - m]
  BY <1>2
<1> HIDE DEF t
<1>4. ASSUME NEW j \in 1..(m + n)
      PROVE  t[j] = <<d, j>>
  <2>1. CASE j <= m
    BY <1>3, <2>1
  <2>2. CASE j > m
    <3>1. j - m \in 1..n /\ m + (j - m) = j
      BY <2>2
    <3> QED
      BY <1>1, <1>3, <2>2, <3>1
  <2> QED
    BY <2>1, <2>2
<1> QED
  BY <1>3, <1>4, Zenon DEF t, u

\* A page goes on where the one before ended, and io.EOF is at the end.
LEMMA PageListed ==
  ASSUME DirInv, ListInv, NEW c \in Readers, ReadDirPage(c)
  PROVE  ListInv'
<1> DEFINE r == reader[c]
           offset == Offset(r.cookie)
<1>1. /\ r \in ReaderState /\ HandlerState(r) /\ r.at = "list" /\ ~cleaned
      /\ r.lister \in Listers /\ dirOf[r.lister] \in Dirs /\ dirOf[r.lister] # None
      /\ r.dir # None /\ r.dir \in Dirs /\ ~r.done /\ r.verf \in Indexes
  BY ZenonT(60) DEF DirInv, DirType, HandlerState, ReadDirPage, Ended, InUse, ReaderState
<1>2. PICK b \in ListAt(r.lister, offset) : \E page \in Pages(b) :
       reader' = [reader EXCEPT ![c] =
                    [at |-> IF page.eof THEN "close" ELSE "rest", dir |-> r.dir,
                     got |-> r.got \o Entries(r.lister, offset, page.n),
                     cookie |-> NextCookie(r.cookie, page.n), verf |-> r.verf,
                     lister |-> None, done |-> FALSE]]
  BY Zenon DEF ReadDirPage
<1>3. PICK page \in Pages(b) :
       reader' = [reader EXCEPT ![c] =
                    [at |-> IF page.eof THEN "close" ELSE "rest", dir |-> r.dir,
                     got |-> r.got \o Entries(r.lister, offset, page.n),
                     cookie |-> NextCookie(r.cookie, page.n), verf |-> r.verf,
                     lister |-> None, done |-> FALSE]]
  BY <1>2, ZenonT(60)
<1>4. offset \in Nat /\ r.cookie \in Cookies /\ r.got \in Seq(Dirs \X Nat)
  BY <1>1 DEF Offset, ReaderState, Cookies
<1>5. /\ page.n \in Nat /\ page.eof \in BOOLEAN
      /\ page.eof /\ offset <= Size[dirOf[r.lister]] => offset + page.n = Size[dirOf[r.lister]]
      /\ offset <= Size[dirOf[r.lister]] => offset + page.n <= Size[dirOf[r.lister]]
  BY <1>1, <1>4, PageFacts, Zenon DEF DirInv, DirType
<1>6. PICK R : R = [at |-> IF page.eof THEN "close" ELSE "rest", dir |-> r.dir,
                    got |-> r.got \o Entries(r.lister, offset, page.n),
                    cookie |-> NextCookie(r.cookie, page.n), verf |-> r.verf,
                    lister |-> None, done |-> FALSE]
  BY Zenon
<1>7. /\ R.at \in {"close", "rest"} /\ (R.at = "close" => page.eof) /\ R.dir = r.dir
      /\ R.got = r.got \o Entries(r.lister, offset, page.n)
      /\ R.cookie = NextCookie(r.cookie, page.n) /\ R.verf = r.verf /\ R.done = FALSE
  BY <1>5, <1>6, Zenon
<1>8. reader' = [reader EXCEPT ![c] = R]
  BY <1>3, <1>6, Zenon
<1>9. R \in ReaderState
  BY <1>8, PageStep, Zenon DEF DirInv, DirType
<1>10. Offset(R.cookie) = offset + page.n
  BY <1>4, <1>5, <1>7, SMTT(60) DEF NextCookie, Offset, Cookies
<1>11. ASSUME ~expired
       PROVE  SoFar(R)
  <2>1. dirOf[r.lister] = r.dir /\ SoFar(r)
    BY <1>1, <1>11, Zenon DEF ListInv, Owned
  <2>2. offset <= Size[r.dir] /\ Len(r.got) = offset /\ \A j \in 1..offset : r.got[j] = <<r.dir, j>>
    BY <1>1, <2>1, Zenon DEF SoFar
  <2>3. R.got = r.got \o [j \in 1..page.n |-> <<r.dir, offset + j>>]
    BY <1>7, <2>1 DEF Entries
  <2>4. /\ Len(R.got) = offset + page.n
        /\ \A j \in 1..(offset + page.n) : R.got[j] = <<r.dir, j>>
    <3>1. PICK d \in Dirs, m \in Nat, n \in Nat, s \in Seq(Dirs \X Nat) :
            d = r.dir /\ m = offset /\ n = page.n /\ s = r.got
      BY <1>1, <1>4, <1>5, Zenon
    <3>2. Len(s) = m /\ \A j \in 1..m : s[j] = <<d, j>>
      BY <2>2, <3>1
    <3>3. /\ Len(s \o [j \in 1..n |-> <<d, m + j>>]) = m + n
          /\ \A i \in 1..(m + n) : (s \o [j \in 1..n |-> <<d, m + j>>])[i] = <<d, i>>
      BY <3>2, MoreEntries, ZenonT(60)
    <3>4. R.got = s \o [j \in 1..n |-> <<d, m + j>>]
      BY <2>3, <3>1
    <3> QED
      BY <3>1, <3>3, <3>4, ZenonT(60)
  <2>5. /\ offset + page.n <= Size[r.dir]
        /\ R.at = "close" => offset + page.n = Size[r.dir]
    BY <1>5, <1>7, <2>1, <2>2, Zenon
  <2> QED
    BY <1>7, <1>10, <2>4, <2>5, ZenonT(60) DEF SoFar
<1>12. UNCHANGED <<table, dirOf, cleaned, expired>>
  BY Zenon DEF ReadDirPage
<1>13. Active(r) /\ R.at # "list"
  BY <1>1, <1>7 DEF Active
<1> QED
  BY <1>7, <1>8, <1>9, <1>11, <1>12, <1>13, ListReader, Zenon

\* Starting afresh, by the client or after an error.
LEMMA PlainListed ==
  ASSUME DirInv, ListInv, NEW c \in Readers,
         \/ \E d \in Dirs : Begin(c, d)
         \/ Abandon(c) \/ ReadDirNotSame(c) \/ ReadDirFails(c)
  PROVE  ListInv'
<1>1. PICK d \in Dirs \cup {None} : reader' = [reader EXCEPT ![c] = Starting(d)]
  BY ZenonT(60) DEF Begin, Abandon, ReadDirNotSame, ReadDirFails, Fresh, DirInv, DirType, ReaderState
<1>2. UNCHANGED <<table, dirOf, cleaned, expired>>
  BY Zenon DEF Begin, Abandon, ReadDirNotSame, ReadDirFails
<1>3. PICK R : R = Starting(d)
  OBVIOUS
<1>4. R \in ReaderState /\ SoFar(R) /\ ~Active(R) /\ R.at = "rest"
  BY <1>3, StartingSoFar
<1> QED
  BY <1>1, <1>2, <1>3, <1>4, ListReader, ZenonT(60)

\* The lister of a verifier is that of the reader's directory.
LEMMA NextListed ==
  ASSUME DirInv, ListInv, NEW c \in Readers, ReadDirNext(c)
  PROVE  ListInv'
<1> DEFINE r == reader[c]
<1>1. /\ r \in ReaderState /\ ~cleaned /\ Active(r) /\ r.at = "rest" /\ r.done = FALSE
  BY DEF DirInv, DirType, ReadDirNext, Ended, Reading, Resting, Active, ReaderState
<1>2. PICK R : R = [at |-> "list", dir |-> r.dir, got |-> r.got, cookie |-> r.cookie,
                    verf |-> r.verf, lister |-> table[r.verf], done |-> FALSE]
  BY ZenonT(60)
<1>3. /\ R.at = "list" /\ R.dir = r.dir /\ R.got = r.got /\ R.cookie = r.cookie
      /\ R.verf = r.verf /\ R.lister = table[r.verf] /\ R.done = FALSE
  BY <1>2, Zenon
<1>4. reader' = [reader EXCEPT ![c] = R]
  BY <1>2, Zenon DEF ReadDirNext, Listing
<1>5. R \in ReaderState
  BY <1>4, NextStep, Zenon DEF DirInv, DirType
<1>6. ASSUME ~expired
      PROVE  dirOf[R.lister] = R.dir /\ SoFar(R)
  <2>1. dirOf[table[r.verf]] = r.dir /\ SoFar(r)
    BY <1>1, <1>6, Zenon DEF ListInv, Owned
  <2> QED
    BY <1>1, <1>3, <2>1, Zenon DEF SoFar
<1>7. UNCHANGED <<table, dirOf, cleaned, expired>>
  BY DEF ReadDirNext
<1> QED
  BY <1>1, <1>3, <1>4, <1>5, <1>6, <1>7, ListReader, ZenonT(60)

\* A free index is the verifier of no other reader.
LEMMA FirstListed ==
  ASSUME DirInv, ListInv, NEW c \in Readers, NEW l \in Listers, NEW x \in Indexes,
         ReadDirFirst(c, l, x)
  PROVE  ListInv'
<1> SUFFICES ASSUME ~expired
             PROVE  Owned' /\ \A d \in Readers : SoFar(reader'[d])
  BY ZenonT(60) DEF ListInv, ReadDirFirst
<1> DEFINE r == reader[c]
<1>1. /\ r \in ReaderState /\ ~cleaned /\ r.dir \in Dirs /\ r.dir # None /\ table[x] = None
      /\ r.at = "rest" /\ r.done = FALSE
  BY DEF DirInv, DirType, ReadDirFirst, Ended, Reading, Resting, FreeIndex, ReaderState
<1>2. Owned /\ \A d \in Readers : SoFar(reader[d])
  BY DEF ListInv
<1>3. PICK n \in 0..MaxListers : Opened = 1..n
  BY DEF DirInv, Numbered
<1>4. l \notin Opened
  <2>1. l = 1 + Cardinality(Opened)
    BY DEF ReadDirFirst, Opened
  <2>2. Cardinality(1..n) = n
    BY <1>3, FS_Interval, ReadDirAssumption
  <2> QED
    BY <1>3, <2>1, <2>2, ReadDirAssumption
<1>5. dirOf[l] = None /\ l # None
  BY <1>4, ReadDirAssumption, Zenon DEF Opened
<1>6. /\ \A m \in Listers : dirOf'[m] = IF m = l THEN r.dir ELSE dirOf[m]
      /\ \A y \in Indexes : table'[y] = IF y = x THEN l ELSE table[y]
      /\ cleaned' = cleaned
  BY DEF DirInv, DirType, ReadDirFirst
<1>7. PICK R : R = [at |-> "list", dir |-> r.dir, got |-> r.got, cookie |-> r.cookie,
                    verf |-> x, lister |-> l, done |-> FALSE]
  BY Zenon
<1>8. /\ R.at = "list" /\ R.dir = r.dir /\ R.got = r.got /\ R.cookie = r.cookie
      /\ R.verf = x /\ R.lister = l /\ R.done = FALSE
  BY <1>7
<1>9. reader' = [reader EXCEPT ![c] = R]
  BY <1>7, Zenon DEF ReadDirFirst, Listing
<1>10. \A d \in Readers : reader'[d] = IF d = c THEN R ELSE reader[d]
  BY <1>9 DEF DirInv, DirType
<1>11. ASSUME NEW d \in Readers
       PROVE  SoFar(reader'[d])
  <2>1. CASE d = c
    <3>1. SoFar(r)
      BY <1>1, <1>2, Zenon
    <3>2. SoFar(R)
      BY <1>1, <1>8, <3>1, Zenon DEF SoFar
    <3> QED
      BY <1>10, <2>1, <3>2, Zenon
  <2>2. CASE d # c
    BY <1>2, <1>10, <2>2
  <2> QED
    BY <2>1, <2>2
<1>12. ASSUME NEW d \in Readers, d # c, Active(reader[d])
       PROVE  /\ reader[d].verf \in Indexes /\ reader[d].verf # x
              /\ table'[reader[d].verf] = table[reader[d].verf]
              /\ table[reader[d].verf] \in Listers
              /\ dirOf[table[reader[d].verf]] = reader[d].dir
              /\ table[reader[d].verf] # None /\ table[reader[d].verf] # l
  <2>1. HandlerState(reader[d]) /\ reader[d] \in ReaderState
    BY Zenon DEF DirInv, DirType
  <2>2. reader[d].verf \in Indexes /\ reader[d].dir # None
    BY <1>12, <2>1, Zenon DEF HandlerState, Active
  <2>3. table[reader[d].verf] # None /\ dirOf[table[reader[d].verf]] = reader[d].dir
    BY <1>1, <1>2, <1>12, Zenon DEF Owned
  <2> QED
    BY <1>1, <1>5, <1>6, <2>2, <2>3, Zenon DEF DirInv, DirType
<1>13. ASSUME NEW d \in Readers, Active(reader'[d])
       PROVE  table'[reader'[d].verf] # None /\ dirOf'[table'[reader'[d].verf]] = reader'[d].dir
  <2>1. CASE d = c
    BY <1>5, <1>6, <1>8, <1>10, <2>1, ZenonT(60)
  <2>2. CASE d # c
    BY <1>6, <1>10, <1>12, <1>13, <2>2
  <2> QED
    BY <2>1, <2>2, Zenon
<1>14. ASSUME NEW d \in Readers, NEW e \in Readers, Active(reader'[d]), Active(reader'[e]),
              reader'[d].verf = reader'[e].verf
       PROVE  d = e
  BY <1>2, <1>8, <1>10, <1>12, <1>14, ZenonT(60) DEF Owned
<1>15. ASSUME NEW d \in Readers, reader'[d].at = "list"
       PROVE  dirOf'[reader'[d].lister] = reader'[d].dir
  <2>1. CASE d = c
    BY <1>6, <1>8, <1>10, <2>1, Zenon
  <2>2. CASE d # c
    <3>1. reader'[d] = reader[d]
      BY <1>10, <2>2
    <3>2. /\ dirOf[reader[d].lister] = reader[d].dir
          /\ reader[d].lister \in Listers /\ dirOf[reader[d].lister] # None
      BY <1>2, <1>15, <3>1, ZenonT(60) DEF Owned, DirInv, HandlerState
    <3> QED
      BY <1>5, <1>6, <3>1, <3>2, Zenon
  <2> QED
    BY <2>1, <2>2
<1> QED
  BY <1>11, <1>13, <1>14, <1>15, ZenonT(60) DEF Owned, Active

\* The end of a listing closes the lister of no other reader.
LEMMA EndListed ==
  ASSUME DirInv, ListInv, NEW c \in Readers, ReadDirEOF(c) \/ ReadDirCloseFails(c)
  PROVE  ListInv'
<1> SUFFICES ASSUME ~expired
             PROVE  Owned' /\ \A d \in Readers : SoFar(reader'[d])
  BY DEF ListInv, ReadDirEOF, ReadDirCloseFails
<1> DEFINE r == reader[c]
<1>1. /\ r \in ReaderState /\ r.at = "close" /\ r.dir # None /\ r.done = FALSE
      /\ r.verf \in Indexes /\ Active(r) /\ ~cleaned
  BY Zenon DEF DirInv, DirType, HandlerState, ReadDirEOF, ReadDirCloseFails, ReaderState, Active,
     Ended, InUse
<1>2. Owned /\ \A d \in Readers : SoFar(reader[d])
  BY Zenon DEF ListInv
<1>3. /\ UNCHANGED <<dirOf, cleaned>>
      /\ \A x \in Indexes : x # r.verf => table'[x] = table[x]
  BY DEF ReadDirEOF, ReadDirCloseFails, CloseLister, DirInv, DirType
<1>4. PICK R \in ReaderState :
        reader' = [reader EXCEPT ![c] = R] /\ SoFar(R) /\ ~Active(R) /\ R.at = "rest"
  <2>1. CASE ReadDirEOF(c)
    <3>1. PICK R : R = [at |-> "rest", dir |-> r.dir, got |-> r.got, cookie |-> r.cookie,
                        verf |-> EOFLister, lister |-> None, done |-> TRUE]
      BY ZenonT(60)
    <3>2. R \in ReaderState /\ ~Active(R) /\ R.at = "rest"
      BY <1>1, <3>1, ZenonT(60) DEF ReaderState, Active
    <3>3. SoFar(R)
      BY <1>1, <1>2, <3>1, Zenon DEF SoFar
    <3>4. reader' = [reader EXCEPT ![c] = R]
      BY <2>1, <3>1, ZenonT(60) DEF ReadDirEOF
    <3> QED
      BY <3>2, <3>3, <3>4, Zenon
  <2>2. CASE ReadDirCloseFails(c)
    BY <2>2, StartingSoFar, ZenonT(60) DEF ReadDirCloseFails, Fresh
  <2> QED
    BY <2>1, <2>2
<1>5. \A d \in Readers : reader'[d] = IF d = c THEN R ELSE reader[d]
  BY <1>4 DEF DirInv, DirType
<1>6. ASSUME NEW d \in Readers
      PROVE  SoFar(reader'[d])
  <2>1. CASE d = c
    BY <1>4, <1>5, <2>1, Zenon
  <2>2. CASE d # c
    BY <1>2, <1>5, <2>2, ZenonT(60)
  <2> QED
    BY <2>1, <2>2
<1>7. ASSUME NEW d \in Readers, reader'[d].at = "list"
      PROVE  dirOf'[reader'[d].lister] = reader'[d].dir
  <2>1. d # c
    BY <1>4, <1>5, <1>7, Zenon
  <2>2. reader'[d] = reader[d] /\ dirOf' = dirOf
    BY <1>3, <1>5, <2>1, Zenon
  <2> QED
    BY <1>2, <1>7, <2>2 DEF Owned
<1>8. ASSUME NEW d \in Readers, Active(reader'[d])
      PROVE  /\ reader'[d] = reader[d] /\ Active(reader[d])
             /\ table'[reader[d].verf] = table[reader[d].verf]
  <2>1. reader'[d] = reader[d] /\ Active(reader[d]) /\ d # c
    BY <1>4, <1>5, <1>8, Zenon
  <2>2. reader[d].verf # r.verf
    BY <1>1, <1>2, <2>1, Zenon DEF Owned
  <2>3. reader[d].verf \in Indexes
    BY <2>1, Zenon DEF DirInv, HandlerState, Active
  <2> QED
    BY <1>3, <2>1, <2>2, <2>3, Zenon
<1>9. /\ \A d \in Readers :
           Active(reader'[d]) /\ ~cleaned' =>
             table'[reader'[d].verf] # None /\ dirOf'[table'[reader'[d].verf]] = reader'[d].dir
      /\ \A d, e \in Readers :
           Active(reader'[d]) /\ Active(reader'[e]) /\ reader'[d].verf = reader'[e].verf => d = e
  BY <1>2, <1>3, <1>8 DEF Owned
<1> QED
  BY <1>6, <1>7, <1>9, Zenon DEF Owned, Active

\* The goroutines of the worker: only expiry takes a lister from a reader.
LEMMA WorkerListed ==
  ASSUME DirInv, ListInv, CleanupListers \/ Discard \/ Cleanup \/ Tick \/ UNCHANGED vars
  PROVE  ListInv'
<1>1. CASE CleanupListers
  BY <1>1 DEF CleanupListers, ListInv
<1>2. CASE Cleanup
  BY <1>2, ZenonT(60) DEF Cleanup, ListInv, Owned, Active, SoFar
<1>3. CASE Discard \/ Tick \/ UNCHANGED vars
  BY <1>3, SMTT(60) DEF Discard, Tick, vars, ListInv, Owned, Active, SoFar
<1> QED
  BY <1>1, <1>2, <1>3, Zenon

\* At first nobody reads.
LEMMA InitListInv ==
  ASSUME Init
  PROVE  ListInv
<1>1. Fresh.at = "rest" /\ SoFar(Fresh) /\ ~Active(Fresh)
  BY StartingSoFar DEF Fresh
<1>2. \A c \in Readers : reader[c] = Fresh
  BY DEF Init
<1> QED
  BY <1>1, <1>2 DEF ListInv, Owned

\* Both invariants hold, whatever readers and goroutines do.
THEOREM ListInvariant == Spec => []ListInv
<1>1. ASSUME DirInv, ListInv, [Next]_vars
      PROVE  ListInv'
  <2>1. ASSUME NEW c \in Readers, Handle(c)
        PROVE  ListInv'
    BY <1>1, <2>1, PageListed, PlainListed, EndListed, Zenon DEF Handle
  <2>2. ASSUME NEW c \in Readers, Request(c)
        PROVE  ListInv'
    BY <1>1, <2>2, PlainListed, FirstListed, NextListed DEF Request
  <2> QED
    BY <1>1, <2>1, <2>2, WorkerListed, Zenon DEF Next
<1> QED
  BY <1>1, InitListInv, DirInvariant, PTL DEF Spec

\* A client that follows the cookies of READDIR to the end has every entry once
\* and in order, for directories and batches of any size and any other readers.
THEOREM ListingsComplete == Spec => []CompleteListing
<1>1. ASSUME DirInv, ListInv
      PROVE  CompleteListing
  <2> SUFFICES ASSUME NEW c \in Readers, reader[c].done, ~expired
               PROVE  reader[c].got = [j \in 1..Size[reader[c].dir] |-> <<reader[c].dir, j>>]
    BY Zenon DEF CompleteListing
  <2> DEFINE r == reader[c]
  <2>1. r.dir # None /\ r.got \in Seq(Dirs \X Nat)
    BY <1>1, Zenon DEF DirInv, DirType, ReaderState, HandlerState
  <2>2. /\ Len(r.got) = Size[r.dir]
        /\ \A j \in 1..Size[r.dir] : r.got[j] = <<r.dir, j>>
    BY <1>1, <2>1 DEF ListInv, SoFar
  <2>3. r.got = [j \in 1..Len(r.got) |-> r.got[j]]
    BY <2>1
  <2> QED
    BY <2>2, <2>3, Zenon
<1> QED
  BY <1>1, DirInvariant, ListInvariant, PTL
============================================================================
