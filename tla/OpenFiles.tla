----------------------------- MODULE OpenFiles -----------------------------
(***************************************************************************)
(* The open files of the workers (worker/file.go and the OPEN and CLOSE    *)
(* operations of mux_v4.go) on top of their life (Workers).  OPEN opens a  *)
(* file in the file system and then enters it in the worker's table, which *)
(* marks the client busy; CLOSE takes it out and then closes it; cleanup   *)
(* closes what is left.  A file is identified with its random 64 bit index *)
(* in the table.                                                           *)
(***************************************************************************)
EXTENDS Workers

CONSTANTS
    Files,       \* open files, and their indices in Worker.Files
    ClientIds,   \* confirmed clients
    SequenceIDs, \* sequence ids of compounds
    MaxSlotID,   \* clients.MaxSlotID
    SeqIdMod     \* 2^32 in the code

ASSUME OpenFilesAssumption ==
    /\ IsFiniteSet(Files)
    /\ SequenceIDs \subseteq Nat
    /\ MaxSlotID \in Nat
    /\ SeqIdMod \in Nat \ {0}

VARIABLES
    info,     \* client and request of every file opened so far
    files,    \* Worker.Files
    removed,  \* Worker.ClosedFiles
    held,     \* the file an OPEN or CLOSE under way has in hand, by handler
    busy,     \* Client.busy
    closes    \* how often File.Close was called

fileVars == <<info, files, removed, held, busy, closes>>

\* A request is named by its compound: the sequence id and the slot.
Request == SequenceIDs \X (0..MaxSlotID)

\* The OPEN sequence id an NFSv4.1 compound stands for.
SeqID(r) == (r[1] * MaxSlotID + r[2]) % SeqIdMod

Info == [client : ClientIds, req : Request]

Held == [stage : {"opened", "removed", "answered"}, file : Files, req : Request]

Opened == DOMAIN info

OFInit ==
    /\ Init
    /\ info = [f \in {} |-> f]
    /\ files = [w \in Workers |-> {}]
    /\ removed = [w \in Workers |-> {}]
    /\ held = [h \in {} |-> h]
    /\ busy = [k \in ClientIds |-> 0]
    /\ closes = [f \in Files |-> 0]
-----------------------------------------------------------------------------
\* Worker.GetFileByClientSeqID.
FilesBySeqID(w, k, r) ==
    {f \in files[w] : info[f].client = k /\ SeqID(info[f].req) = SeqID(r)}

Hold(h, s, f, r) ==
    held' = [g \in DOMAIN held \cup {h} |->
               IF g = h THEN [stage |-> s, file |-> f, req |-> r] ELSE held[g]]

Drop(h) == held' = [g \in DOMAIN held \ {h} |-> held[g]]

Holds(h, s) == h \in DOMAIN held /\ held[h].stage = s

\* OPEN finds its sequence id among the open files and answers with that file.
OpenFound(op, k, r) ==
    /\ op.h \notin DOMAIN held
    /\ \E f \in FilesBySeqID(op.w, k, r) : Hold(op.h, "answered", f, r)
    /\ UNCHANGED <<vars, info, files, removed, busy, closes>>

\* OPEN opens a file in the file system.
OpenFile(op, k, r, f) ==
    /\ op.h \notin DOMAIN held
    /\ FilesBySeqID(op.w, k, r) = {}
    /\ f \notin Opened
    /\ info' = [g \in Opened \cup {f} |->
                  IF g = f THEN [client |-> k, req |-> r] ELSE info[g]]
    /\ Hold(op.h, "opened", f, r)
    /\ UNCHANGED <<vars, files, removed, busy, closes>>

\* Faulty OpenFails: the file is not closed.
OpenFailsLeaks(op) ==
    /\ Holds(op.h, "opened")
    /\ Drop(op.h)
    /\ UNCHANGED <<vars, info, files, removed, busy, closes>>

\* fs.Handle fails after the file was opened: the deferred f.Close.
OpenFails(op) ==
    /\ Holds(op.h, "opened")
    /\ closes' = [closes EXCEPT ![held[op.h].file] = @ + 1]
    /\ Drop(op.h)
    /\ UNCHANGED <<vars, info, files, removed, busy>>

\* Worker.AddFile, and OPEN's answer.
AddFile(op) ==
    /\ Holds(op.h, "opened")
    /\ LET f == held[op.h].file IN
         /\ files' = [files EXCEPT ![op.w] = @ \cup {f}]
         /\ busy' = [busy EXCEPT ![info[f].client] = @ + 1]
         /\ Hold(op.h, "answered", f, held[op.h].req)
    /\ UNCHANGED <<vars, info, removed, closes>>

\* Worker.RemoveFile of a CLOSE whose file is not known as closed.
RemoveFile(op, f) ==
    /\ op.h \notin DOMAIN held
    /\ f \notin removed[op.w]
    /\ f \in files[op.w]
    /\ files' = [files EXCEPT ![op.w] = @ \ {f}]
    /\ removed' = [removed EXCEPT ![op.w] = @ \cup {f}]
    /\ busy' = [busy EXCEPT ![info[f].client] = @ - 1]
    /\ Hold(op.h, "removed", f, info[f].req)
    /\ UNCHANGED <<vars, info, closes>>

\* f.File.Close of that CLOSE.
CloseFile(op) ==
    /\ Holds(op.h, "removed")
    /\ closes' = [closes EXCEPT ![held[op.h].file] = @ + 1]
    /\ Drop(op.h)
    /\ UNCHANGED <<vars, info, files, removed, busy>>

\* Faulty OFEndOperation: the file stays in hand.
OFEndOperationHolding(op) ==
    /\ EndOperation(op)
    /\ UNCHANGED fileVars

\* The operation returns, with no file left in hand.
OFEndOperation(op) ==
    /\ ~Holds(op.h, "opened") /\ ~Holds(op.h, "removed")
    /\ EndOperation(op)
    /\ Drop(op.h)
    /\ UNCHANGED <<info, files, removed, busy, closes>>

\* Faulty OFCleanup: no Client.Done.
OFCleanupStaysBusy(w) ==
    /\ Cleanup(w)
    /\ closes' = [f \in Files |-> IF f \in files[w] THEN closes[f] + 1 ELSE closes[f]]
    /\ files' = [files EXCEPT ![w] = {}]
    /\ removed' = [removed EXCEPT ![w] = {}]
    /\ UNCHANGED <<info, held, busy>>

\* Faulty OFCleanup: the files of the worker are forgotten.
OFCleanupNoFiles(w) ==
    /\ Cleanup(w)
    /\ UNCHANGED fileVars

\* The part of cleanup that closes the files of the worker.
OFCleanup(w) ==
    /\ Cleanup(w)
    /\ closes' = [f \in Files |-> IF f \in files[w] THEN closes[f] + 1 ELSE closes[f]]
    /\ busy' = [k \in ClientIds |->
                  busy[k] - Cardinality({f \in files[w] : info[f].client = k})]
    /\ files' = [files EXCEPT ![w] = {}]
    /\ removed' = [removed EXCEPT ![w] = {}]
    /\ UNCHANGED <<info, held>>

FileStep(op) ==
    \/ \E k \in ClientIds, r \in Request :
         OpenFound(op, k, r) \/ \E f \in Files : OpenFile(op, k, r, f)
    \/ \E f \in Files : RemoveFile(op, f)
    \/ OpenFails(op) \/ AddFile(op) \/ CloseFile(op)

\* The steps of Workers that touch no file.
OtherStep ==
    \/ \E h \in Handlers, c \in Conns, o \in Owner : GetWorker(h, c, o)
    \/ \E op \in ops : DiscardOnServerFault(op)
    \/ \E w \in Workers : GoIdle(w) \/ AutoDiscard(w)
    \/ \E c \in Conns : Accept(c) \/ Drain(c) \/ Stick(c) \/ EndConn(c)
    \/ Cancel \/ CloseListener \/ AcceptFails \/ ServeReturns

OFNext ==
    \/ \E op \in ops : FileStep(op) \/ OFEndOperation(op)
    \/ \E w \in Workers : OFCleanup(w)
    \/ OtherStep /\ UNCHANGED fileVars

OFSpec == OFInit /\ [][OFNext]_<<vars, fileVars>>
-----------------------------------------------------------------------------
\* Every variable has its type, and only operations under way have files in hand.
OFTypeOK ==
    /\ Opened \subseteq Files
    /\ info \in [Opened -> Info]
    /\ files \in [Workers -> SUBSET Opened]
    /\ removed \in [Workers -> SUBSET Opened]
    /\ DOMAIN held \subseteq {op.h : op \in ops}
    /\ held \in [DOMAIN held -> Held]
    /\ busy \in [ClientIds -> Int]
    /\ closes \in [Files -> Nat]

\* The operations that have f in hand and must close it or enter it in a table.
Carrying(f) ==
    {h \in DOMAIN held : held[h].file = f /\ held[h].stage # "answered"}

Tables(f) == {w \in Workers : f \in files[w]}

\* OPEN, two CLOSEs of the same file, and the cleanup of a discarded worker pass
\* an open file on: at all times exactly one worker's table or one operation is
\* responsible for closing it, until it has been closed, once.
ClosedExactlyOnce ==
    \A f \in Opened :
        Cardinality(Tables(f)) + Cardinality(Carrying(f)) + closes[f] = 1

\* Client.Add and Client.Done balance: a client is busy with the files it has in
\* the tables of the workers, so it can expire once they are gone and not before.
BusyCountsFiles ==
    \A k \in ClientIds :
        busy[k] = Cardinality({f \in Opened : info[f].client = k /\ Tables(f) # {}})

\* When Serve has returned, every file that was opened has been closed.
NothingLeftOpen ==
    serve = "returned" => \A f \in Opened : closes[f] = 1

\* "Check whether seqId is already an open file" (OPEN in mux_v4.go): an OPEN is
\* answered with the file that was opened for its own sequence id and slot.
OpenAnswersOwnFile ==
    \A h \in DOMAIN held : held[h].stage = "answered" =>
        info[held[h].file].req = held[h].req
=============================================================================
