-------------------------- MODULE OpenFilesProofs --------------------------
(***************************************************************************)
(* Proofs about OpenFiles, for any number of workers, handlers,            *)
(* connections, clients and files.  OpenFiles implements Workers, so what  *)
(* WorkersProofs shows of the life of a worker can be used here.           *)
(***************************************************************************)
EXTENDS OpenFiles, WorkersProofs

\* A file that was opened is in one table, or in one hand, or closed once.
Placed(f) ==
    /\ \A v, w \in Tables(f) : v = w
    /\ \A g, h \in Carrying(f) : g = h
    /\ Tables(f) = {} \/ Carrying(f) = {}
    /\ closes[f] = IF Tables(f) = {} /\ Carrying(f) = {} THEN 1 ELSE 0

\* The files of a client that are in a table.
InTables(k) == {f \in Opened : info[f].client = k /\ Tables(f) # {}}

\* The inductive invariant, beside the one of Workers.
FileInv ==
    /\ OFTypeOK
    /\ \A h \in DOMAIN held : held[h].file \in Opened
    /\ \A f \in Opened : Placed(f)
    /\ \A f \in Files \ Opened : closes[f] = 0
    /\ \A w \in Workers : files[w] # {} => w \in created \ cleaned
    /\ BusyCountsFiles
-----------------------------------------------------------------------------
\* Every step of OpenFiles is a step of Workers, or leaves Workers alone.
LEMMA StepOfWorkers ==
    ASSUME [OFNext]_<<vars, fileVars>>
    PROVE  [Next]_vars
<1>1. ASSUME NEW op \in ops, FileStep(op)
      PROVE  UNCHANGED vars
  BY <1>1, Zenon DEF FileStep, OpenFound, OpenFile, RemoveFile, OpenFails, AddFile, CloseFile
<1>2. ASSUME NEW op \in ops, OFEndOperation(op)
      PROVE  Next
  BY <1>2 DEF OFEndOperation, Next
<1>3. ASSUME NEW w \in Workers, OFCleanup(w)
      PROVE  Next
  BY <1>3 DEF OFCleanup, Next
<1>4. CASE OtherStep
  BY <1>4 DEF OtherStep, Next
<1> QED
  BY <1>1, <1>2, <1>3, <1>4, Zenon DEF OFNext

\* OpenFiles implements Workers: adding the files to a worker changes nothing in
\* its life, and every theorem about Workers holds of OpenFiles.
THEOREM ImplementsWorkers == OFSpec => Spec
<1>1. OFInit => Init
  BY DEF OFInit
<1>2. [OFNext]_<<vars, fileVars>> => [Next]_vars
  BY StepOfWorkers
<1> QED
  BY <1>1, <1>2, PTL DEF OFSpec, Spec
-----------------------------------------------------------------------------
\* What an operation carries after it took a file in hand.
LEMMA HoldCarries ==
    ASSUME NEW h, NEW s, NEW f, NEW r, Hold(h, s, f, r)
    PROVE  /\ DOMAIN held' = DOMAIN held \cup {h}
           /\ held'[h] = [stage |-> s, file |-> f, req |-> r]
           /\ \A g \in DOMAIN held : g # h => held'[g] = held[g]
           /\ \A e : Carrying(e)' =
                (Carrying(e) \ {h}) \cup (IF e = f /\ s # "answered" THEN {h} ELSE {})
           /\ s = "answered" => \A e : Carrying(e)' = Carrying(e) \ {h}
<1> DEFINE new == [stage |-> s, file |-> f, req |-> r]
<1>1. /\ DOMAIN held' = DOMAIN held \cup {h}
      /\ held'[h] = new
      /\ \A g \in DOMAIN held : g # h => held'[g] = held[g]
  BY DEF Hold
<1>2. new.stage = s /\ new.file = f
  OBVIOUS
<1> HIDE DEF new
<1>3. ASSUME NEW e
      PROVE  Carrying(e)' =
                (Carrying(e) \ {h}) \cup (IF e = f /\ s # "answered" THEN {h} ELSE {})
  BY <1>1, <1>2 DEF Carrying
<1>4. ASSUME s = "answered", NEW e PROVE Carrying(e)' = Carrying(e) \ {h}
  BY <1>3, <1>4
<1> QED
  BY <1>1, <1>3, <1>4 DEF new

\* What an operation carries after it let go of its file.
LEMMA DropCarries ==
    ASSUME NEW h, Drop(h)
    PROVE  /\ DOMAIN held' = DOMAIN held \ {h}
           /\ \A g \in DOMAIN held' : held'[g] = held[g]
           /\ \A e : Carrying(e)' = Carrying(e) \ {h}
<1>1. /\ DOMAIN held' = DOMAIN held \ {h}
      /\ \A g \in DOMAIN held' : held'[g] = held[g]
  BY DEF Drop
<1>2. ASSUME NEW e PROVE Carrying(e)' = Carrying(e) \ {h}
  BY <1>1 DEF Carrying
<1> QED
  BY <1>1, <1>2

\* The same for a handler that had nothing in hand.
LEMMA HoldFirst ==
    ASSUME NEW h, NEW s, NEW f, NEW r, Hold(h, s, f, r), h \notin DOMAIN held
    PROVE  /\ s = "answered" => \A e : Carrying(e)' = Carrying(e)
           /\ s # "answered" => \A e : Carrying(e)' =
                                         Carrying(e) \cup (IF e = f THEN {h} ELSE {})
<1>1. ASSUME NEW e
      PROVE  Carrying(e)' =
                (Carrying(e) \ {h}) \cup (IF e = f /\ s # "answered" THEN {h} ELSE {})
  BY HoldCarries, ZenonT(60)
<1>2. ASSUME NEW e PROVE Carrying(e) \ {h} = Carrying(e)
  BY DEF Carrying
<1>3. ASSUME s = "answered", NEW e PROVE Carrying(e)' = Carrying(e)
  BY <1>1, <1>2, <1>3, Zenon
<1>4. ASSUME s # "answered", NEW e
      PROVE  Carrying(e)' = Carrying(e) \cup (IF e = f THEN {h} ELSE {})
  BY <1>1, <1>2, <1>4
<1> QED
  BY <1>3, <1>4

\* A file in hand at a stage before the answer is carried by that handler alone,
\* is in no table and is not closed.
LEMMA CarriedFile ==
    ASSUME FileInv, NEW h \in DOMAIN held, held[h].stage # "answered"
    PROVE  LET f == held[h].file
           IN  /\ f \in Opened /\ f \in Files
               /\ Carrying(f) = {h} /\ Tables(f) = {} /\ closes[f] = 0
               /\ \A e : e # f => h \notin Carrying(e)
<1>1. held[h].file \in Opened /\ held[h].file \in Files
  BY DEF FileInv, OFTypeOK
<1>2. h \in Carrying(held[h].file) /\ \A e : e # held[h].file => h \notin Carrying(e)
  BY DEF Carrying
<1> QED
  BY <1>1, <1>2 DEF FileInv, Placed

\* A handler that has answered, or has no file, carries nothing.
LEMMA CarriesNothing ==
    ASSUME NEW h, ~Holds(h, "opened"), ~Holds(h, "removed"), OFTypeOK
    PROVE  \A e : h \notin Carrying(e)
BY DEF Holds, Carrying, OFTypeOK, Held
-----------------------------------------------------------------------------
\* Taking a file in hand keeps the types.
LEMMA HoldTyped ==
    ASSUME OFTypeOK, \A h \in DOMAIN held : held[h].file \in Opened,
           NEW op \in ops, NEW f \in Files, NEW r \in Request,
           NEW s \in {"opened", "removed", "answered"}, Hold(op.h, s, f, r),
           ops' = ops, f \in Opened', Opened \subseteq Opened'
    PROVE  /\ DOMAIN held' \subseteq {p.h : p \in ops'}
           /\ held' \in [DOMAIN held' -> Held]
           /\ \A h \in DOMAIN held' : held'[h].file \in Opened'
<1> DEFINE new == [stage |-> s, file |-> f, req |-> r]
<1>1. new \in Held /\ new.file = f
  BY DEF Held
<1> HIDE DEF new
<1>2. held' = [g \in DOMAIN held \cup {op.h} |-> IF g = op.h THEN new ELSE held[g]]
  BY DEF Hold, new
<1>3. DOMAIN held' = DOMAIN held \cup {op.h} /\ held'[op.h] = new
      /\ \A g \in DOMAIN held : g # op.h => held'[g] = held[g]
  BY <1>2
<1>4. DOMAIN held' \subseteq {p.h : p \in ops'}
  BY <1>3 DEF OFTypeOK
<1>5. held' \in [DOMAIN held' -> Held]
  BY <1>1, <1>2 DEF OFTypeOK
<1> QED
  BY <1>1, <1>3, <1>4, <1>5

\* Letting go of a file keeps the types.
LEMMA DropTyped ==
    ASSUME OFTypeOK, \A h \in DOMAIN held : held[h].file \in Opened,
           NEW h0, Drop(h0), \A p \in ops : p.h # h0 => p \in ops', Opened' = Opened
    PROVE  /\ DOMAIN held' \subseteq {p.h : p \in ops'}
           /\ held' \in [DOMAIN held' -> Held]
           /\ \A h \in DOMAIN held' : held'[h].file \in Opened'
<1>1. /\ DOMAIN held' = DOMAIN held \ {h0} /\ held' \in [DOMAIN held' -> Held]
      /\ \A g \in DOMAIN held' : held'[g] = held[g]
  BY DEF Drop, OFTypeOK
<1>2. DOMAIN held' \subseteq {p.h : p \in ops'}
  BY <1>1, ZenonT(60) DEF OFTypeOK
<1> QED
  BY <1>1, <1>2

\* Every step keeps the types of the files.
LEMMA FileTypeStep ==
    ASSUME IInv, FileInv, [OFNext]_<<vars, fileVars>>
    PROVE  OFTypeOK' /\ \A h \in DOMAIN held' : held'[h].file \in Opened'
<1> USE DEF FileInv
<1> DEFINE HeldOK == /\ DOMAIN held' \subseteq {p.h : p \in ops'}
                     /\ held' \in [DOMAIN held' -> Held]
                     /\ \A h \in DOMAIN held' : held'[h].file \in Opened'
           Goal == OFTypeOK' /\ \A h \in DOMAIN held' : held'[h].file \in Opened'
<1>1. ASSUME NEW op \in ops, NEW k \in ClientIds, NEW r \in Request, OpenFound(op, k, r)
      PROVE  Goal
  <2>1. op.w \in Workers
    BY DEF IInv, TypeOK
  <2>2. PICK f \in files[op.w] : Hold(op.h, "answered", f, r)
    BY <1>1 DEF OpenFound, FilesBySeqID
  <2>3. f \in Opened /\ f \in Files
    BY <2>1, <2>2, Zenon DEF OFTypeOK
  <2>4. UNCHANGED <<ops, info, files, removed, busy, closes>>
    BY <1>1 DEF OpenFound, vars
  <2>5. HeldOK
    BY <2>2, <2>3, <2>4, HoldTyped, Zenon DEF Opened
  <2> QED
    BY <2>4, <2>5 DEF OFTypeOK, Opened
<1>2. ASSUME NEW op \in ops, NEW k \in ClientIds, NEW r \in Request, NEW f \in Files,
             OpenFile(op, k, r, f)
      PROVE  Goal
  <2> DEFINE new == [client |-> k, req |-> r]
  <2>1. new \in Info
    BY DEF Info
  <2> HIDE DEF new
  <2>2. /\ info' = [g \in Opened \cup {f} |-> IF g = f THEN new ELSE info[g]]
        /\ Hold(op.h, "opened", f, r)
        /\ UNCHANGED <<ops, files, removed, busy, closes>>
    BY <1>2 DEF OpenFile, vars, new
  <2>3. Opened' = Opened \cup {f} /\ info' \in [Opened' -> Info]
    BY <2>1, <2>2, Zenon DEF Opened, OFTypeOK
  <2>4. HeldOK
    BY <2>2, <2>3, HoldTyped, Zenon
  <2> QED
    BY <2>2, <2>3, <2>4, Zenon DEF OFTypeOK
<1>3. ASSUME NEW op \in ops, NEW f \in Files, RemoveFile(op, f)
      PROVE  Goal
  <2>1. op.w \in Workers
    BY DEF IInv, TypeOK
  <2>2. /\ f \in files[op.w]
        /\ files' = [files EXCEPT ![op.w] = @ \ {f}]
        /\ removed' = [removed EXCEPT ![op.w] = @ \cup {f}]
        /\ busy' = [busy EXCEPT ![info[f].client] = @ - 1]
        /\ Hold(op.h, "removed", f, info[f].req)
        /\ UNCHANGED <<ops, info, closes>>
    BY <1>3 DEF RemoveFile, vars
  <2>3. f \in Opened /\ info[f].req \in Request /\ info[f].client \in ClientIds
    BY <2>1, <2>2, Zenon DEF OFTypeOK, Info
  <2>4. HeldOK
    BY <2>2, <2>3, HoldTyped, Zenon DEF Opened
  <2> QED
    BY <2>1, <2>2, <2>3, <2>4 DEF OFTypeOK, Opened
<1>4. ASSUME NEW op \in ops, AddFile(op)
      PROVE  Goal
  <2> DEFINE f == held[op.h].file
  <2>1. op.w \in Workers /\ op.h \in DOMAIN held
    BY <1>4, Zenon DEF IInv, TypeOK, AddFile, Holds
  <2>2. /\ files' = [files EXCEPT ![op.w] = @ \cup {f}]
        /\ busy' = [busy EXCEPT ![info[f].client] = @ + 1]
        /\ Hold(op.h, "answered", f, held[op.h].req)
        /\ UNCHANGED <<ops, info, removed, closes>>
    BY <1>4 DEF AddFile, vars
  <2>3. f \in Opened /\ f \in Files /\ held[op.h].req \in Request
    BY <2>1 DEF OFTypeOK, Held
  <2> HIDE DEF f
  <2>4. info[f].client \in ClientIds
    BY <2>3, Zenon DEF OFTypeOK, Info
  <2>5. HeldOK
    BY <2>2, <2>3, HoldTyped, Zenon DEF Opened
  <2> QED
    BY <2>1, <2>2, <2>3, <2>4, <2>5, SMTT(60) DEF OFTypeOK, Opened
<1>5. ASSUME NEW op \in ops, OpenFails(op) \/ CloseFile(op)
      PROVE  Goal
  <2>1. /\ op.h \in DOMAIN held
        /\ closes' = [closes EXCEPT ![held[op.h].file] = @ + 1]
        /\ Drop(op.h)
        /\ UNCHANGED <<ops, info, files, removed, busy>>
    BY <1>5, Zenon DEF OpenFails, CloseFile, Holds, vars
  <2>2. HeldOK
    BY <2>1, DropTyped, Zenon DEF Opened
  <2> QED
    BY <2>1, <2>2, SMTT(60) DEF OFTypeOK, Opened, Held
<1>6. ASSUME NEW op \in ops, OFEndOperation(op)
      PROVE  Goal
  <2>1. /\ ops' = ops \ {op} /\ Drop(op.h)
        /\ UNCHANGED <<info, files, removed, busy, closes>>
    BY <1>6 DEF OFEndOperation, EndOperation
  <2>2. HeldOK
    BY <2>1, DropTyped, Zenon DEF Opened
  <2> QED
    BY <2>1, <2>2, Zenon DEF OFTypeOK, Opened
<1>7. ASSUME NEW w \in Workers, OFCleanup(w)
      PROVE  Goal
  <2>1. /\ closes' = [f \in Files |-> IF f \in files[w] THEN closes[f] + 1 ELSE closes[f]]
        /\ files' = [files EXCEPT ![w] = {}]
        /\ removed' = [removed EXCEPT ![w] = {}]
        /\ UNCHANGED <<ops, info, held>>
    BY <1>7, Zenon DEF OFCleanup, Cleanup
  <2>2. busy' \in [ClientIds -> Int]
    <3>1. ASSUME NEW k \in ClientIds
          PROVE  Cardinality({f \in files[w] : info[f].client = k}) \in Nat
      <4>1. {f \in files[w] : info[f].client = k} \subseteq Files
        BY DEF OFTypeOK
      <4> QED
        BY <4>1, OpenFilesAssumption, FS_Subset, FS_CardinalityType, Zenon
    <3> QED
      BY <1>7, <3>1 DEF OFCleanup, OFTypeOK
  <2> QED
    BY <2>1, <2>2 DEF OFTypeOK, Opened
<1>8. ASSUME UNCHANGED fileVars, ops \subseteq ops'
      PROVE  Goal
  BY <1>8 DEF OFTypeOK, Opened, fileVars
<1>9. CASE OtherStep /\ UNCHANGED fileVars
  <2>1. ops \subseteq ops'
    BY <1>9, ZenonT(60) DEF OtherStep, GetWorker, GetWorkerReuse, GetWorkerNew, GetWorkerReplace, Begin,
                DiscardOnServerFault, GoIdle, AutoDiscard, Accept, Drain, Stick, EndConn, Cancel,
                CloseListener, AcceptFails, ServeReturns
  <2> QED
    BY <1>8, <1>9, <2>1, ZenonT(60)
<1>10. CASE UNCHANGED <<vars, fileVars>>
  BY <1>8, <1>10 DEF vars
<1> QED
  BY <1>1, <1>2, <1>3, <1>4, <1>5, <1>6, <1>7, <1>9, <1>10, Zenon DEF OFNext, FileStep
-----------------------------------------------------------------------------
\* The tables a file is in after AddFile, RemoveFile and cleanup.
LEMMA TablesChange ==
    ASSUME OFTypeOK, NEW w \in Workers, NEW f
    PROVE  /\ files' = [files EXCEPT ![w] = @ \cup {f}] =>
                \A e : Tables(e)' = Tables(e) \cup (IF e = f THEN {w} ELSE {})
           /\ files' = [files EXCEPT ![w] = @ \ {f}] =>
                \A e : Tables(e)' = Tables(e) \ (IF e = f THEN {w} ELSE {})
           /\ files' = [files EXCEPT ![w] = {}] =>
                \A e : Tables(e)' = Tables(e) \ {w}
BY DEF Tables, OFTypeOK

\* A file in the table of a worker is in no other, in no hand and not closed.
LEMMA TabledFile ==
    ASSUME FileInv, NEW w \in Workers, NEW f \in files[w]
    PROVE  f \in Opened /\ f \in Files /\ Tables(f) = {w} /\ Carrying(f) = {} /\ closes[f] = 0
<1>1. f \in Opened /\ f \in Files
  BY SMTT(60) DEF FileInv, OFTypeOK
<1>2. w \in Tables(f)
  BY DEF Tables
<1> QED
  BY <1>1, <1>2 DEF FileInv, Placed

\* Every file that is opened stays in one place until it is closed, and no file
\* is closed before it was opened.
LEMMA PlacedStep ==
    ASSUME IInv, FileInv, [OFNext]_<<vars, fileVars>>
    PROVE  /\ \A f \in Opened' : Placed(f)'
           /\ \A f \in Files \ Opened' : closes'[f] = 0
<1> DEFINE Goal == /\ \A e \in Opened' : Placed(e)'
                   /\ \A e \in Files \ Opened' : closes'[e] = 0
<1>0. /\ OFTypeOK /\ Opened \subseteq Files
      /\ \A e \in Opened : Placed(e)
      /\ \A e \in Files \ Opened : closes[e] = 0
      /\ closes \in [Files -> Nat]
  BY DEF FileInv, OFTypeOK
<1>a. ASSUME Opened' = Opened, closes' = closes, \A e : Carrying(e)' = Carrying(e),
             \A e : Tables(e)' = Tables(e)
      PROVE  Goal
  BY <1>0, <1>a, Zenon DEF Placed
<1>1. ASSUME NEW op \in ops, NEW k \in ClientIds, NEW r \in Request, OpenFound(op, k, r)
      PROVE  Goal
  <2>1. PICK f \in files[op.w] : Hold(op.h, "answered", f, r)
    BY <1>1, Zenon DEF OpenFound, FilesBySeqID
  <2>2. op.h \notin DOMAIN held /\ UNCHANGED <<info, files, closes>>
    BY <1>1, Zenon DEF OpenFound
  <2>3. \A e : Carrying(e)' = Carrying(e)
    BY <2>1, <2>2, HoldFirst, Zenon
  <2> QED
    BY <1>a, <2>2, <2>3, Zenon DEF Opened, Tables
<1>2. ASSUME NEW op \in ops, NEW k \in ClientIds, NEW r \in Request, NEW f \in Files,
             OpenFile(op, k, r, f)
      PROVE  Goal
  <2>1. /\ op.h \notin DOMAIN held /\ f \notin Opened
        /\ Opened' = Opened \cup {f} /\ Hold(op.h, "opened", f, r)
        /\ UNCHANGED <<files, closes>>
    BY <1>2, Zenon DEF OpenFile, Opened
  <2>2. \A e : Carrying(e)' = Carrying(e) \cup (IF e = f THEN {op.h} ELSE {})
    BY <2>1, HoldFirst
  <2>3. Carrying(f) = {} /\ Tables(f) = {}
    BY <1>0, <2>1, Zenon DEF Carrying, Tables, FileInv, OFTypeOK
  <2>4. \A e : Tables(e)' = Tables(e)
    BY <2>1, Zenon DEF Tables
  <2> QED
    BY <1>0, <2>1, <2>2, <2>3, <2>4 DEF Placed
<1>3. ASSUME NEW op \in ops, NEW f \in Files, RemoveFile(op, f)
      PROVE  Goal
  <2>1. /\ op.h \notin DOMAIN held /\ f \in files[op.w]
        /\ files' = [files EXCEPT ![op.w] = @ \ {f}]
        /\ Hold(op.h, "removed", f, info[f].req)
        /\ UNCHANGED <<info, closes>>
    BY <1>3, Zenon DEF RemoveFile
  <2>2. op.w \in Workers
    BY Zenon DEF IInv, TypeOK
  <2>3. \A e : Carrying(e)' = Carrying(e) \cup (IF e = f THEN {op.h} ELSE {})
    BY <2>1, HoldFirst
  <2>4. \A e : Tables(e)' = Tables(e) \ (IF e = f THEN {op.w} ELSE {})
    BY <1>0, <2>1, <2>2, TablesChange, ZenonT(60)
  <2>5. Tables(f) = {op.w} /\ Carrying(f) = {} /\ closes[f] = 0
    BY <2>1, <2>2, TabledFile, Zenon
  <2> QED
    BY <1>0, <2>1, <2>3, <2>4, <2>5, SMTT(60) DEF Placed, Opened
<1>4. ASSUME NEW op \in ops, AddFile(op)
      PROVE  Goal
  <2> DEFINE f == held[op.h].file
  <2>1. /\ op.h \in DOMAIN held /\ held[op.h].stage = "opened"
        /\ files' = [files EXCEPT ![op.w] = @ \cup {f}]
        /\ Hold(op.h, "answered", f, held[op.h].req)
        /\ UNCHANGED <<info, closes>>
    BY <1>4 DEF AddFile, Holds
  <2>2. op.w \in Workers
    BY DEF IInv, TypeOK
  <2>3. /\ Carrying(f) = {op.h} /\ Tables(f) = {} /\ closes[f] = 0
        /\ \A e : e # f => op.h \notin Carrying(e)
    BY <2>1, CarriedFile
  <2> HIDE DEF f
  <2>4. \A e : Carrying(e)' = Carrying(e) \ {op.h}
    <3>1. PICK e0, r : e0 = f /\ r = held[op.h].req
      BY Zenon
    <3>2. Hold(op.h, "answered", e0, r)
      BY <2>1, <3>1 DEF Hold
    <3> QED
      BY <3>2, HoldCarries, Zenon
  <2>5. \A e : Tables(e)' = Tables(e) \cup (IF e = f THEN {op.w} ELSE {})
    BY <1>0, <2>1, <2>2, TablesChange, ZenonT(60)
  <2> QED
    BY <1>0, <2>1, <2>3, <2>4, <2>5, SMTT(60) DEF Placed, Opened
<1>5. ASSUME NEW op \in ops, OpenFails(op) \/ CloseFile(op)
      PROVE  Goal
  <2> DEFINE f == held[op.h].file
  <2>1. /\ op.h \in DOMAIN held /\ held[op.h].stage # "answered"
        /\ closes' = [closes EXCEPT ![f] = @ + 1]
        /\ Drop(op.h)
        /\ UNCHANGED <<info, files>>
    BY <1>5, Zenon DEF OpenFails, CloseFile, Holds
  <2>2. /\ f \in Opened /\ Carrying(f) = {op.h} /\ Tables(f) = {} /\ closes[f] = 0
        /\ \A e : e # f => op.h \notin Carrying(e)
    BY <2>1, CarriedFile
  <2>3. \A e : Carrying(e)' = Carrying(e) \ {op.h}
    BY <2>1, DropCarries, ZenonT(60)
  <2>4. \A e : Tables(e)' = Tables(e)
    BY <2>1, Zenon DEF Tables
  <2> HIDE DEF f
  <2> QED
    BY <1>0, <2>1, <2>2, <2>3, <2>4, SMTT(60) DEF Placed, Opened
<1>6. ASSUME NEW op \in ops, OFEndOperation(op)
      PROVE  Goal
  <2>1. Drop(op.h) /\ UNCHANGED <<info, files, closes>>
    BY <1>6 DEF OFEndOperation
  <2>2. \A e : op.h \notin Carrying(e)
    BY <1>0, <1>6, CarriesNothing, Zenon DEF OFEndOperation
  <2>3. ASSUME NEW e PROVE Carrying(e)' = Carrying(e)
    <3>1. Carrying(e)' = Carrying(e) \ {op.h}
      BY <2>1, DropCarries, Zenon
    <3> QED
      BY <2>2, <3>1
  <2> QED
    BY <1>a, <2>1, <2>3, Zenon DEF Opened, Tables
<1>7. ASSUME NEW w \in Workers, OFCleanup(w)
      PROVE  Goal
  <2>1. /\ closes' = [f \in Files |-> IF f \in files[w] THEN closes[f] + 1 ELSE closes[f]]
        /\ files' = [files EXCEPT ![w] = {}]
        /\ UNCHANGED <<info, held>>
    BY <1>7 DEF OFCleanup
  <2>2. \A e : Tables(e)' = Tables(e) \ {w}
    BY <1>0, <2>1, TablesChange, ZenonT(60)
  <2>3. \A e : Carrying(e)' = Carrying(e)
    BY <2>1 DEF Carrying
  <2>4. \A e \in files[w] : Tables(e) = {w} /\ Carrying(e) = {} /\ closes[e] = 0 /\ e \in Opened
    BY TabledFile, Zenon
  <2>5. \A e \in Opened : e \notin files[w] => w \notin Tables(e)
    BY DEF Tables
  <2> QED
    BY <1>0, <2>1, <2>2, <2>3, <2>4, <2>5, SMTT(60) DEF Placed, Opened
<1>8. CASE UNCHANGED fileVars
  BY <1>a, <1>8, Zenon DEF fileVars, Opened, Carrying, Tables
<1> QED
  BY <1>1, <1>2, <1>3, <1>4, <1>5, <1>6, <1>7, <1>8, Zenon DEF OFNext, FileStep

\* Only a worker that was made and is not cleaned up has files in its table: an
\* operation that enters one uses the worker, and cleanup takes all of them out.
LEMMA LiveTablesStep ==
    ASSUME IInv, FileInv, [OFNext]_<<vars, fileVars>>
    PROVE  \A w \in Workers : files'[w] # {} => w \in created' \ cleaned'
<1> DEFINE Goal == \A w \in Workers : files'[w] # {} => w \in created' \ cleaned'
<1>0. /\ \A w \in Workers : files[w] # {} => w \in created \ cleaned
      /\ files \in [Workers -> SUBSET Opened]
  BY Zenon DEF FileInv, OFTypeOK
<1>1. ASSUME NEW op \in ops, AddFile(op)
      PROVE  Goal
  <2>1. op.w \in created /\ op.w \in Workers /\ op \in UsedBy(op.w)
    BY DEF IInv, TypeOK, UsedBy
  <2>2. op.w \notin cleaned
    BY <2>1 DEF IInv, CleanupIsExclusive
  <2> QED
    BY <1>0, <1>1, <2>1, <2>2, Zenon DEF AddFile, vars, workerVars
<1>2. ASSUME NEW op \in ops, NEW f \in Files, RemoveFile(op, f)
      PROVE  Goal
  <2>1. op.w \in Workers
    BY DEF IInv, TypeOK
  <2>2. files[op.w] # {} /\ files' = [files EXCEPT ![op.w] = @ \ {f}]
        /\ UNCHANGED <<created, cleaned>>
    BY <1>2 DEF RemoveFile, vars, workerVars
  <2> QED
    BY <1>0, <2>1, <2>2, Zenon
<1>3. ASSUME NEW w \in Workers, OFCleanup(w)
      PROVE  Goal
  <2>1. created' = created /\ cleaned' = cleaned \cup {w} /\ files' = [files EXCEPT ![w] = {}]
    BY <1>3 DEF OFCleanup, Cleanup
  <2> QED
    BY <1>0, <2>1, Zenon
<1>4. ASSUME files' = files, created \subseteq created', cleaned' = cleaned
      PROVE  Goal
  BY <1>0, <1>4
<1>5. ASSUME NEW op \in ops, NEW k \in ClientIds, NEW r \in Request,
             OpenFound(op, k, r) \/ \E f \in Files : OpenFile(op, k, r, f)
      PROVE  Goal
  BY <1>4, <1>5, ZenonT(60) DEF OpenFound, OpenFile, vars, workerVars
<1>6. ASSUME NEW op \in ops, OpenFails(op) \/ CloseFile(op) \/ OFEndOperation(op)
      PROVE  Goal
  BY <1>4, <1>6, Zenon DEF OpenFails, CloseFile, OFEndOperation,
                                EndOperation, Close, vars, workerVars
<1>7. CASE OtherStep /\ UNCHANGED fileVars
  <2>1. created \subseteq created' /\ cleaned' = cleaned
    <3>1. ASSUME NEW h \in Handlers, NEW c \in Conns, NEW o \in Owner, GetWorker(h, c, o)
          PROVE  created \subseteq created' /\ cleaned' = cleaned
      BY <3>1, Zenon DEF GetWorker, GetWorkerReuse, GetWorkerNew, GetWorkerReplace, NewWorker
    <3>2. ASSUME NEW op \in ops, DiscardOnServerFault(op)
          PROVE  created' = created /\ cleaned' = cleaned
      BY <3>2, Zenon DEF DiscardOnServerFault
    <3>3. ASSUME NEW w \in Workers, GoIdle(w) \/ AutoDiscard(w)
          PROVE  created' = created /\ cleaned' = cleaned
      BY <3>3, Zenon DEF GoIdle, AutoDiscard
    <3>4. ASSUME NEW c \in Conns, Accept(c) \/ Drain(c) \/ Stick(c) \/ EndConn(c)
          PROVE  created' = created /\ cleaned' = cleaned
      BY <3>4, Zenon DEF Accept, Drain, Stick, EndConn, workerVars
    <3>5. CASE Cancel \/ CloseListener \/ AcceptFails \/ ServeReturns
      BY <3>5, Zenon DEF Cancel, CloseListener, AcceptFails, ServeReturns, workerVars
    <3> QED
      BY <1>7, <3>1, <3>2, <3>3, <3>4, <3>5, Zenon DEF OtherStep
  <2> QED
    BY <1>4, <1>7, <2>1, Zenon DEF fileVars
<1>8. CASE UNCHANGED <<vars, fileVars>>
  BY <1>4, <1>8, Zenon DEF vars, workerVars, fileVars
<1> QED
  BY <1>1, <1>2, <1>3, <1>5, <1>6, <1>7, <1>8, Zenon DEF OFNext, FileStep

\* The files that a client has in tables are finitely many.
LEMMA InTablesFinite ==
    ASSUME OFTypeOK, NEW k
    PROVE  IsFiniteSet(InTables(k)) /\ Cardinality(InTables(k)) \in Nat
<1>1. InTables(k) \in SUBSET Files
  BY Zenon DEF InTables, OFTypeOK
<1> QED
  BY <1>1, OpenFilesAssumption, FS_Subset, FS_CardinalityType, Zenon

\* Every step keeps Client.busy exact.
LEMMA BusyStep ==
    ASSUME IInv, FileInv, [OFNext]_<<vars, fileVars>>
    PROVE  BusyCountsFiles'
<1>0. /\ OFTypeOK /\ busy \in [ClientIds -> Int]
      /\ \A k \in ClientIds : busy[k] = Cardinality(InTables(k))
      /\ \A k \in ClientIds : IsFiniteSet(InTables(k)) /\ Cardinality(InTables(k)) \in Nat
  BY InTablesFinite, Zenon DEF FileInv, BusyCountsFiles, InTables, OFTypeOK
<1>s. SUFFICES \A k \in ClientIds : busy'[k] = Cardinality(InTables(k)')
  BY Zenon DEF BusyCountsFiles, InTables
<1> DEFINE Goal == \A k \in ClientIds : busy'[k] = Cardinality(InTables(k)')
<1>a. ASSUME busy' = busy, \A k \in ClientIds : InTables(k)' = InTables(k)
      PROVE  Goal
  BY <1>0, <1>a, Zenon
<1>1. ASSUME NEW op \in ops, NEW c \in ClientIds, NEW r \in Request, NEW f \in Files,
             OpenFile(op, c, r, f)
      PROVE  Goal
  <2>1. /\ f \notin Opened /\ Opened' = Opened \cup {f}
        /\ \A e \in Opened : info'[e] = info[e]
        /\ UNCHANGED <<files, busy>>
    BY <1>1 DEF OpenFile, Opened
  <2>2. Tables(f) = {}
    BY <1>0, <2>1, Zenon DEF Tables, OFTypeOK
  <2>3. \A e : Tables(e)' = Tables(e)
    BY <2>1, Zenon DEF Tables
  <2>4. \A k \in ClientIds : InTables(k)' = InTables(k)
    BY <2>1, <2>2, <2>3, Zenon DEF InTables
  <2> QED
    BY <1>a, <2>1, <2>4, ZenonT(60)
<1>2. ASSUME NEW op \in ops, AddFile(op)
      PROVE  Goal
  <2>1. PICK f : f = held[op.h].file
    OBVIOUS
  <2>2. /\ op.h \in DOMAIN held /\ held[op.h].stage = "opened"
        /\ files' = [files EXCEPT ![op.w] = @ \cup {f}]
        /\ busy' = [busy EXCEPT ![info[f].client] = @ + 1]
        /\ UNCHANGED info
    BY <1>2, <2>1, Zenon DEF AddFile, Holds
  <2>3. op.w \in Workers
    BY DEF IInv, TypeOK
  <2>4. f \in Opened /\ Tables(f) = {}
    BY <2>1, <2>2, CarriedFile, Zenon
  <2>5. \A e : Tables(e)' = Tables(e) \cup (IF e = f THEN {op.w} ELSE {})
    BY <1>0, <2>2, <2>3, TablesChange, Zenon
  <2>6. PICK c \in ClientIds : c = info[f].client
    BY <1>0, <2>4, Zenon DEF OFTypeOK, Info
  <2>7. /\ f \notin InTables(c) /\ InTables(c)' = InTables(c) \cup {f}
        /\ \A k \in ClientIds : k # c => InTables(k)' = InTables(k)
    BY <2>2, <2>4, <2>5, <2>6, Zenon DEF InTables, Opened
  <2>8. Cardinality(InTables(c)') = Cardinality(InTables(c)) + 1
    BY <1>0, <2>7, FS_AddElement, Zenon
  <2> QED
    BY <1>0, <2>2, <2>6, <2>7, <2>8, Zenon
<1>3. ASSUME NEW op \in ops, NEW f \in Files, RemoveFile(op, f)
      PROVE  Goal
  <2>1. /\ f \in files[op.w]
        /\ files' = [files EXCEPT ![op.w] = @ \ {f}]
        /\ busy' = [busy EXCEPT ![info[f].client] = @ - 1]
        /\ UNCHANGED info
    BY <1>3, Zenon DEF RemoveFile
  <2>2. op.w \in Workers
    BY DEF IInv, TypeOK
  <2>3. f \in Opened /\ Tables(f) = {op.w}
    BY <2>1, <2>2, TabledFile, Zenon
  <2>4. \A e : Tables(e)' = Tables(e) \ (IF e = f THEN {op.w} ELSE {})
    BY <1>0, <2>1, <2>2, TablesChange, Zenon
  <2>5. PICK c \in ClientIds : c = info[f].client
    BY <1>0, <2>3, Zenon DEF OFTypeOK, Info
  <2>6. /\ f \in InTables(c) /\ InTables(c)' = InTables(c) \ {f}
        /\ \A k \in ClientIds : k # c => InTables(k)' = InTables(k)
    BY <2>1, <2>3, <2>4, <2>5, Zenon DEF InTables, Opened
  <2>7. Cardinality(InTables(c)') = Cardinality(InTables(c)) - 1
    BY <1>0, <2>6, FS_RemoveElement, ZenonT(60)
  <2> QED
    BY <1>0, <2>1, <2>5, <2>6, <2>7, ZenonT(60)
<1>4. ASSUME NEW w \in Workers, OFCleanup(w)
      PROVE  Goal
  <2> DEFINE Gone(k) == {f \in files[w] : info[f].client = k}
  <2>1. /\ busy' = [k \in ClientIds |-> busy[k] - Cardinality(Gone(k))]
        /\ files' = [files EXCEPT ![w] = {}]
        /\ UNCHANGED info
    BY <1>4 DEF OFCleanup
  <2>2. \A e : Tables(e)' = Tables(e) \ {w}
    BY <1>0, <2>1, TablesChange, ZenonT(60)
  <2>3. \A e \in files[w] : Tables(e) = {w} /\ e \in Opened
    BY TabledFile, Zenon
  <2>4. \A e \in Opened : e \notin files[w] => w \notin Tables(e)
    BY DEF Tables
  <2>5. ASSUME NEW k \in ClientIds
        PROVE  InTables(k)' = InTables(k) \ Gone(k) /\ InTables(k) \cap Gone(k) = Gone(k)
    BY <2>1, <2>2, <2>3, <2>4, ZenonT(60) DEF InTables, Opened
  <2>6. ASSUME NEW k \in ClientIds
        PROVE  Cardinality(InTables(k)') = Cardinality(InTables(k)) - Cardinality(Gone(k))
    <3> HIDE DEF Gone
    <3>1. Cardinality(InTables(k) \ Gone(k))
            = Cardinality(InTables(k)) - Cardinality(InTables(k) \cap Gone(k))
      BY <1>0, FS_Difference, Zenon
    <3> QED
      BY <2>5, <3>1
  <2> QED
    BY <1>0, <2>1, <2>6
<1>5. ASSUME UNCHANGED <<info, files, busy>>
      PROVE  Goal
  BY <1>a, <1>5, Zenon DEF InTables, Opened, Tables
<1>6. ASSUME NEW op \in ops, NEW k \in ClientIds, NEW r \in Request, OpenFound(op, k, r)
      PROVE  Goal
  BY <1>5, <1>6, Zenon DEF OpenFound
<1>7. ASSUME NEW op \in ops, OpenFails(op) \/ CloseFile(op) \/ OFEndOperation(op)
      PROVE  Goal
  BY <1>5, <1>7, Zenon DEF OpenFails, CloseFile, OFEndOperation
<1>8. CASE UNCHANGED fileVars
  BY <1>5, <1>8, Zenon DEF fileVars
<1> QED
  BY <1>1, <1>2, <1>3, <1>4, <1>6, <1>7, <1>8, ZenonT(60) DEF OFNext, FileStep
-----------------------------------------------------------------------------
\* No file is open when the server starts.
LEMMA InitFileInv ==
    ASSUME OFInit
    PROVE  FileInv
<1>1. Opened = {} /\ DOMAIN held = {} /\ \A f \in Files : closes[f] = 0
  BY Zenon DEF OFInit, Opened
<1>2. OFTypeOK
  <2>1. info \in [Opened -> Info] /\ held \in [DOMAIN held -> Held]
    BY DEF OFInit, Opened
  <2> QED
    BY <1>1, <2>1 DEF OFInit, OFTypeOK
<1>3. BusyCountsFiles
  <2>1. \A k : {f \in Opened : info[f].client = k /\ Tables(f) # {}} = {}
    BY <1>1
  <2> QED
    BY <2>1, FS_EmptySet, Zenon DEF BusyCountsFiles, OFInit
<1>4. \A w \in Workers : files[w] = {}
  BY DEF OFInit
<1> QED
  BY <1>1, <1>2, <1>3, <1>4, Zenon DEF FileInv

\* The invariant of the workers and that of their open files hold together, for
\* any numbers of workers, connections, clients and files.
THEOREM FilesInvariant == OFSpec => [](IInv /\ FileInv)
<1>1. OFInit => FileInv
  BY InitFileInv, Zenon
<1>2. IInv /\ FileInv /\ [OFNext]_<<vars, fileVars>> => FileInv'
  <2> SUFFICES ASSUME IInv, FileInv, [OFNext]_<<vars, fileVars>>
               PROVE  FileInv'
    OBVIOUS
  <2> QED
    BY FileTypeStep, PlacedStep, LiveTablesStep, BusyStep, Zenon DEF FileInv
<1>3. OFSpec => []IInv
  BY ImplementsWorkers, WorkersInvariant, PTL
<1> QED
  BY <1>1, <1>2, <1>3, PTL DEF OFSpec

\* OFTypeOK holds always: in particular only an operation under way has a file
\* of OPEN or CLOSE in hand.
THEOREM FilesTyped == OFSpec => []OFTypeOK
<1>1. FileInv => OFTypeOK
  BY Zenon DEF FileInv
<1> QED
  BY <1>1, FilesInvariant, PTL

\* OPEN, CLOSE, the cleanup of a worker and the error path of OPEN pass an open
\* file on and close it once, however they interleave.
THEOREM EachFileClosedOnce == OFSpec => []ClosedExactlyOnce
<1>1. FileInv => ClosedExactlyOnce
  <2> SUFFICES ASSUME FileInv, NEW f \in Opened
               PROVE  Cardinality(Tables(f)) + Cardinality(Carrying(f)) + closes[f] = 1
    BY DEF ClosedExactlyOnce
  <2>1. Placed(f)
    BY DEF FileInv
  <2>2. Cardinality({}) = 0 /\ \A x : Cardinality({x}) = 1
    BY FS_EmptySet, FS_Singleton, Zenon
  <2>3. ASSUME NEW S, \A x, y \in S : x = y
        PROVE  Cardinality(S) = IF S = {} THEN 0 ELSE 1
    <3>1. CASE S = {}
      BY <2>2, <3>1, Zenon
    <3>2. CASE S # {}
      <4>1. PICK x \in S : S = {x}
        BY <2>3, <3>2, Zenon
      <4> QED
        BY <2>2, <4>1, Zenon
    <3> QED
      BY <3>1, <3>2, Zenon
  <2>4. /\ Cardinality(Tables(f)) = IF Tables(f) = {} THEN 0 ELSE 1
        /\ Cardinality(Carrying(f)) = IF Carrying(f) = {} THEN 0 ELSE 1
    BY <2>1, <2>3, Zenon DEF Placed
  <2> QED
    BY <2>1, <2>4 DEF Placed
<1> QED
  BY <1>1, FilesInvariant, PTL

\* Client.Add and Client.Done balance, whoever takes the file out of the table.
THEOREM BusyIsExact == OFSpec => []BusyCountsFiles
<1>1. FileInv => BusyCountsFiles
  BY DEF FileInv
<1> QED
  BY <1>1, FilesInvariant, PTL

\* Serve returns only after every file that was ever opened has been closed: no
\* operation is left to carry one, and every worker's table was emptied.
THEOREM AllClosedAtReturn == OFSpec => []NothingLeftOpen
<1>1. IInv /\ FileInv /\ ServeReturnsClean => NothingLeftOpen
  <2> SUFFICES ASSUME IInv, FileInv, ServeReturnsClean, serve = "returned", NEW f \in Opened
               PROVE  closes[f] = 1
    BY DEF NothingLeftOpen
  <2>1. ops = {} /\ cleaned = created
    BY DEF ServeReturnsClean
  <2>2. DOMAIN held = {}
    BY <2>1, Zenon DEF FileInv, OFTypeOK
  <2>3. Tables(f) = {}
    BY <2>1, Zenon DEF FileInv, Tables
  <2>4. Carrying(f) = {}
    BY <2>2, Zenon DEF Carrying
  <2>5. Placed(f)
    BY DEF FileInv
  <2> QED
    BY <2>3, <2>4, <2>5, Zenon DEF Placed
<1>2. OFSpec => []ServeReturnsClean
  BY ImplementsWorkers, CleanReturn, PTL
<1> QED
  BY <1>1, <1>2, FilesInvariant, PTL
=============================================================================
