--------------------------- MODULE CompoundProofs ---------------------------
(***************************************************************************)
(* Proofs about Compound, for calls of any length, any file handles and    *)
(* any errors of the file system.                                          *)
(***************************************************************************)
EXTENDS Compound, TLAPS

\* The errors of the file system that tell PUTFH that the file is gone.
GoneErrors == {"ErrNotExist", "EOPNOTSUPP"}

\* Before the first operation nothing has happened.
Fresh ==
    phase \in {"call", "first"} =>
        /\ count = 0 /\ next = "none" /\ unread = "none"
        /\ current = None /\ last = NoResult

\* There is no last result before the first one.
Unanswered == count = 0 => last = NoResult

\* While operations run, the header promises the whole call.
Promised == phase = "run" => header = [status |-> "OK", count |-> opsCount]

\* An operation that has been decoded after another one was allowed to run.
Allowed == next # "none" /\ count > 0 => Continues

\* Without a session a call of version 4.1 that runs has one operation.
OneWithoutSession ==
    minorVer > 0 /\ ~session /\ (phase = "run" \/ next # "none" \/ count > 1) =>
        opsCount <= 1

\* Arguments that were left in the input by anything but SECINFO ended the call.
UnreadEnds ==
    unread \notin {"none", "SECINFO"} =>
        next = "none" /\ count > 0 /\ last.status \in FatalStatuses

\* PUTFH of a file that is gone was answered with the status that ends the call.
GoneIsStale == last.op = "PUTFH" /\ last.err \in GoneErrors => last.status = "STALE"

\* The inductive invariant.
CInv ==
    /\ TypeOK
    /\ Fresh
    /\ Unanswered
    /\ Promised
    /\ Allowed
    /\ OneWithoutSession
    /\ UnreadEnds
    /\ GoneIsStale
    /\ HeaderMatchesBody
    /\ CurrentHandlePreventsPanic

\* An operation was executed and its result appended to the reply: what all the
\* handlers that doOperation calls have in common.
Replies ==
    /\ phase = "run" /\ next # "none"
    /\ UNCHANGED <<phase, minorVer, opsCount, session, header>>
    /\ next' = "none"
    /\ count' = count + 1
    /\ last'.op \in OpCodes
    /\ last'.err \in Errors \cup {"nil"}
    /\ last'.discarded \in BOOLEAN
    /\ last'.op = "PUTFH" /\ last'.err \in GoneErrors => last'.status = "STALE"
    /\ current' \in Handles \cup {None}
    /\ saved' \in Handles \cup {None}
    /\ \/ unread' = unread
       \/ /\ unread = "none"
          /\ unread' \in OpCodes
          /\ unread' = "SECINFO" \/ last'.status \in FatalStatuses

\* An operation ended the call without a result.
Breaks ==
    /\ phase = "run" /\ next # "none"
    /\ \/ End("closed")
       \/ End("crashed") /\ (current = None \/ next = "OPEN")
-----------------------------------------------------------------------------
\* No operation has the code that stands for none.
LEMMA CodeIsNotNone ==
    "none" \notin OpCodes
BY DEF OpCodes, NotImplementedOptionalOps, NotImplementedRequiredOps, UndefinedOps

\* An answer without an error of the file system is a result.
LEMMA AnswerReplies ==
    ASSUME CInv, NEW o \in OpCodes, Does(o), NEW op \in OpCodes, NEW status, Answer(op, status)
    PROVE  Replies
BY CodeIsNotNone DEF Answer, OperationResponse, Keep, Does, Replies, CInv, TypeOK, GoneErrors

\* An answer with an error of the file system is a result, provided that PUTFH
\* tells when the file is gone.
LEMMA ErrorReplies ==
    ASSUME CInv, NEW o \in OpCodes, Does(o), NEW op \in OpCodes, NEW status,
           NEW err \in Errors, NEW d \in BOOLEAN, AnswerError(op, status, err, d),
           op = "PUTFH" /\ err \in GoneErrors => status = "STALE"
    PROVE  Replies
BY CodeIsNotNone DEF AnswerError, OperationResponse, Keep, Does, Replies, CInv, TypeOK

\* A new current handle is a result.
LEMMA MovesReplies ==
    ASSUME CInv, NEW o \in OpCodes, Does(o), NEW op \in OpCodes, NEW h \in Handles, Moves(op, h)
    PROVE  Replies
BY CodeIsNotNone DEF Moves, OperationResponse, Keep, Does, Replies, CInv, TypeOK, GoneErrors

\* An answer before the arguments are decoded is a result, if the operation is
\* SECINFO or the status ends the call.
LEMMA UnreadReplies ==
    ASSUME CInv, NEW o \in OpCodes, Does(o), NEW op \in OpCodes, NEW status,
           AnswerUnread(op, status), op = "SECINFO" \/ status \in FatalStatuses
    PROVE  Replies
BY CodeIsNotNone DEF AnswerUnread, OperationResponse, Keep, Does, Replies, CInv, TypeOK, GoneErrors

\* A failure of the file system is a result.
LEMMA FailsReplies ==
    ASSUME CInv, NEW o \in OpCodes, Does(o), NEW op \in OpCodes, op # "PUTFH",
           Fails(op) \/ FailsInUse(op)
    PROVE  Replies
<1>1. PICK err \in Errors, d \in BOOLEAN : AnswerError(op, Err2Status[err], err, d)
  BY Zenon DEF Fails, FailsInUse
<1> QED
  BY <1>1, ErrorReplies

\* So is the refusal of an operation that needs a file handle.
LEMMA NoHandleReplies ==
    ASSUME CInv, NEW o \in OpCodes, Does(o), NEW op \in OpCodes, NoFileHandle(op)
    PROVE  Replies
BY AnswerReplies DEF NoFileHandle

\* Every handler either appends one result or ends the call, and it panics only
\* without a current handle or in OPEN.
LEMMA OperationKinds ==
    ASSUME CInv, doOperation
    PROVE  Replies \/ Breaks
<1> DEFINE Goal == Replies \/ Breaks
<1> USE DEF OpCodes, NotImplementedOptionalOps, NotImplementedRequiredOps, UndefinedOps
<1>b. ASSUME NEW o \in OpCodes, Does(o), End("closed") \/ (Panics /\ (current = None \/ o = "OPEN"))
      PROVE  Goal
  BY <1>b, CodeIsNotNone DEF Breaks, Does, Panics
<1>1. CASE PutRootFH \/ PutPubFH
  <2> SUFFICES ASSUME NEW o \in {"PUTROOTFH", "PUTPUBFH"}, PutRoot(o)
               PROVE  Goal
    BY <1>1 DEF PutRootFH, PutPubFH
  <2>1. Does(o) /\ o \in OpCodes /\ o # "PUTFH"
    BY ZenonT(60) DEF PutRoot
  <2>2. CASE Moves(o, Root)
    BY <2>1, <2>2, MovesReplies, CompoundAssumption
  <2>3. ASSUME NEW err \in Errors, AnswerError(o, Err2Status[err], err, TRUE)
        PROVE  Goal
    BY <2>1, <2>3, ErrorReplies, Zenon
  <2> QED
    BY <2>2, <2>3, ZenonT(60) DEF PutRoot
<1>2. CASE PutFH
  <2>1. Does("PUTFH")
    BY <1>2, Zenon DEF PutFH
  <2>2. ASSUME NEW h \in Handles, Moves("PUTFH", h)
        PROVE  Goal
    BY <2>1, <2>2, MovesReplies, Zenon
  <2>3. ASSUME NEW err \in Errors, NEW status, NEW d \in BOOLEAN,
               err \in GoneErrors => status = "STALE",
               AnswerError("PUTFH", status, err, d)
        PROVE  Goal
    BY <2>1, <2>3, ErrorReplies, ZenonT(60)
  <2> QED
    BY <1>2, <2>2, <2>3, Zenon DEF PutFH, GoneErrors
<1>3. CASE GetFH
  BY <1>3, AnswerReplies, NoHandleReplies DEF GetFH
<1>4. CASE SaveFH
  <2>1. CASE NoFileHandle("SAVEFH")
    BY <1>4, <2>1, NoHandleReplies DEF SaveFH
  <2>2. CASE current # None /\ OperationResponse("SAVEFH", "OK", "nil", FALSE) /\ Keep
             /\ saved' = current /\ UNCHANGED <<current, unread>>
    BY <1>4, <2>2, CodeIsNotNone
       DEF SaveFH, Does, OperationResponse, Keep, Replies, CInv, TypeOK, GoneErrors
  <2> QED
    BY <1>4, <2>1, <2>2, Zenon DEF SaveFH
<1>5. CASE RestoreFH
  <2>1. CASE Answer("RESTOREFH", "RESTOREFH")
    BY <1>5, <2>1, AnswerReplies, ZenonT(60) DEF RestoreFH
  <2>2. CASE saved # None /\ Moves("RESTOREFH", saved)
    <3>1. PICK h \in Handles : h = saved
      BY <2>2 DEF CInv, TypeOK
    <3>2. Moves("RESTOREFH", h)
      BY <2>2, <3>1, Zenon DEF Moves
    <3> QED
      BY <1>5, <3>2, MovesReplies DEF RestoreFH
  <2> QED
    BY <1>5, <2>1, <2>2, Zenon DEF RestoreFH
<1>6. CASE Lookup
  BY <1>6, AnswerReplies, NoHandleReplies, FailsReplies, MovesReplies, ZenonT(60) DEF Lookup
<1>7. CASE LookupParent
  BY <1>7, AnswerReplies, NoHandleReplies, FailsReplies, MovesReplies, ZenonT(60) DEF LookupParent
<1>8. CASE GetAttr \/ Access \/ Readlink
  <2> SUFFICES ASSUME NEW o \in {"GETATTR", "ACCESS", "READLINK"}, ReadFile(o)
               PROVE  Goal
    BY <1>8 DEF GetAttr, Access, Readlink
  <2>1. Does(o) /\ o \in OpCodes /\ o # "PUTFH"
    BY DEF ReadFile
  <2> QED
    BY <2>1, AnswerReplies, NoHandleReplies, FailsReplies, Zenon DEF ReadFile
<1>9. CASE ReadDir
  <2>1. Does("READDIR")
    BY <1>9 DEF ReadDir
  <2>2. ASSUME NEW err \in Errors, AnswerError("READDIR", Err2Status[err], err, TRUE)
        PROVE  Goal
    BY <2>1, <2>2, ErrorReplies, Zenon
  <2> QED
    BY <1>9, <2>1, <2>2, AnswerReplies, NoHandleReplies, FailsReplies, ZenonT(60) DEF ReadDir
<1>10. CASE Verify \/ NVerify
  <2> SUFFICES ASSUME NEW o \in {"VERIFY", "NVERIFY"}, NEW refusal, Compare(o, refusal)
               PROVE  Goal
    BY <1>10 DEF Verify, NVerify
  <2>1. Does(o) /\ o \in OpCodes /\ o # "PUTFH"
    BY DEF Compare
  <2> QED
    BY <2>1, AnswerReplies, NoHandleReplies, FailsReplies, ZenonT(60) DEF Compare
<1>11. CASE Create
  BY <1>11, AnswerReplies, NoHandleReplies, FailsReplies, MovesReplies, ZenonT(60) DEF Create
<1>12. CASE Remove
  BY <1>12, AnswerReplies, NoHandleReplies, FailsReplies, Zenon DEF Remove
<1>13. CASE Rename \/ Link
  <2>1. PICK o \in {"RENAME", "LINK"} : Does(o) /\ (TwoHandles(o) \/ CrossFS)
    BY <1>13 DEF Rename, Link
  <2>2. CASE TwoHandles(o)
    BY <2>1, <2>2, AnswerReplies, NoHandleReplies, ZenonT(60) DEF TwoHandles
  <2>3. ASSUME NEW err \in Errors, NEW status, NEW d \in BOOLEAN,
               AnswerError("RENAME", status, err, d)
        PROVE  Goal
    BY <2>1, <2>3, ErrorReplies
  <2> QED
    BY <2>1, <2>2, <2>3, AnswerReplies, ZenonT(60) DEF CrossFS
<1>14. CASE SetAttr
  BY <1>14, AnswerReplies, NoHandleReplies, FailsReplies, ZenonT(60) DEF SetAttr
<1>15. CASE Open
  <2>1. Does("OPEN")
    BY <1>15 DEF Open
  <2>2. ASSUME NEW err \in Errors, NEW status, NEW d \in BOOLEAN,
               AnswerError("OPEN", status, err, d)
        PROVE  Goal
    BY <2>1, <2>2, ErrorReplies, Zenon
  <2> QED
    BY <1>15, <1>b, <2>1, <2>2, AnswerReplies, FailsReplies, MovesReplies, ZenonT(60) DEF Open
<1>16. CASE OpenDowngrade
  BY <1>16, AnswerReplies DEF OpenDowngrade
<1>17. CASE Close \/ Read \/ Write
  <2> SUFFICES ASSUME NEW o \in {"CLOSE", "READ", "WRITE"}, UseOpenFile(o)
               PROVE  Goal
    BY <1>17 DEF Close, Read, Write
  <2>1. Does(o) /\ o \in OpCodes /\ o # "PUTFH"
    BY DEF UseOpenFile
  <2>2. ASSUME NEW err \in Errors, AnswerError(o, Err2Status[err], err, FALSE)
        PROVE  Goal
    BY <2>1, <2>2, ErrorReplies, Zenon
  <2> QED
    BY <2>1, <2>2, AnswerReplies, NoHandleReplies, ZenonT(60) DEF UseOpenFile
<1>18. CASE Commit
  BY <1>18, <1>b, AnswerReplies, Zenon DEF Commit
<1>19. CASE GetXAttr \/ SetXAttr \/ RemoveXAttr
  <2> SUFFICES ASSUME NEW o \in {"GETXATTR", "SETXATTR", "REMOVEXATTR"}, XAttr(o)
               PROVE  Goal
    BY <1>19 DEF GetXAttr, SetXAttr, RemoveXAttr
  <2>1. Does(o) /\ o \in OpCodes /\ o # "PUTFH"
    BY SMTT(60) DEF XAttr
  <2> QED
    BY <1>b, <2>1, AnswerReplies, FailsReplies, Zenon DEF XAttr
<1>20. CASE ListXAttrs
  BY <1>20, <1>b, AnswerReplies, FailsReplies, Zenon DEF ListXAttrs
<1>21. ASSUME NEW o \in DOMAIN ClientStatus, ClientOperation(o)
       PROVE  Goal
  <2>1. Does(o) /\ o \in OpCodes
    BY <1>21 DEF ClientOperation, ClientStatus
  <2>2. "OP_ILLEGAL" \in FatalStatuses
    BY SMTT(60) DEF FatalStatuses
  <2>3. ASSUME NEW c \in OpCodes, AnswerUnread(c, "OP_ILLEGAL")
        PROVE  Goal
    BY <2>1, <2>2, <2>3, UnreadReplies, ZenonT(60)
  <2>4. ASSUME NEW status, Answer(o, status)
        PROVE  Goal
    BY <2>1, <2>4, AnswerReplies
  <2>5. (IF o = "RENEW" THEN "SETCLIENTID" ELSE o) \in OpCodes
    BY <2>1, Zenon
  <2> QED
    BY <1>21, <2>3, <2>4, <2>5 DEF ClientOperation
<1>22. CASE Secinfo \/ SecinfoNoName
  BY <1>22, UnreadReplies, AnswerReplies, ZenonT(60) DEF Secinfo, SecinfoNoName
<1>23. CASE NotImplemented
  <2>1. {"NOTSUPP", "SERVERFAULT", "OP_ILLEGAL"} \subseteq FatalStatuses
    BY DEF FatalStatuses
  <2> QED
    BY <1>23, <2>1, UnreadReplies DEF NotImplemented
<1> QED
  BY <1>1, <1>2, <1>3, <1>4, <1>5, <1>6, <1>7, <1>8, <1>9, <1>10, <1>11, <1>12, <1>13, <1>14,
     <1>15, <1>16, <1>17, <1>18, <1>19, <1>20, <1>21, <1>22, <1>23
     DEF doOperation
-----------------------------------------------------------------------------
\* A result that is appended keeps the invariant: the call still has an operation
\* to answer, because the one that was executed had been allowed to run.
LEMMA RepliesStep ==
    ASSUME CInv, Replies
    PROVE  CInv'
<1> USE DEF CInv
<1>1. TypeOK'
  BY CodeIsNotNone DEF Replies, TypeOK, Allowed, Continues
<1>2. Fresh' /\ Unanswered' /\ Promised' /\ HeaderMatchesBody' /\ CurrentHandlePreventsPanic'
  BY DEF Replies, TypeOK, Fresh, Unanswered, Promised, HeaderMatchesBody, CurrentHandlePreventsPanic
<1>3. Allowed' /\ OneWithoutSession' /\ GoneIsStale'
  BY DEF Replies, Allowed, OneWithoutSession, GoneIsStale
<1>4. UnreadEnds'
  BY DEF Replies, UnreadEnds, TypeOK
<1> QED
  BY <1>1, <1>2, <1>3, <1>4

\* A call that ends without a result keeps the invariant.
LEMMA EndStep ==
    ASSUME CInv, NEW p \in FinalPhases, End(p),
           p = "replied" => count = 0,
           p = "crashed" => current = None \/ next = "OPEN"
    PROVE  CInv'
BY DEF CInv, End, compoundVars, FinalPhases, TypeOK, Fresh, Unanswered, Promised, Allowed, Continues,
       OneWithoutSession, UnreadEnds, GoneIsStale, HeaderMatchesBody, CurrentHandlePreventsPanic

\* So does one that is answered with a single result.
LEMMA SingleStep ==
    ASSUME CInv, phase = "first", NEW op \in OpCodes, NEW status,
           WriteHeaderAndSingleOperation(op, status)
    PROVE  CInv'
<1> USE DEF CInv
<1>1. /\ count = 0 /\ next = "none" /\ unread = "none" /\ count' = 1 /\ phase' = "replied"
      /\ last' = [op |-> op, status |-> status, err |-> "nil", discarded |-> FALSE]
      /\ header' = [status |-> status, count |-> 1]
      /\ UNCHANGED <<compoundVars, next>>
  BY DEF Fresh, WriteHeaderAndSingleOperation, WriteHeader, OperationResponse
<1>2. TypeOK'
  BY <1>1 DEF TypeOK, compoundVars, FinalPhases
<1>3. Fresh' /\ Unanswered' /\ Promised' /\ HeaderMatchesBody' /\ CurrentHandlePreventsPanic'
  BY <1>1 DEF Fresh, Unanswered, Promised, HeaderMatchesBody, CurrentHandlePreventsPanic
<1>4. Allowed' /\ OneWithoutSession' /\ GoneIsStale' /\ UnreadEnds'
  BY <1>1 DEF Allowed, OneWithoutSession, GoneIsStale, UnreadEnds, compoundVars, GoneErrors
<1> QED
  BY <1>2, <1>3, <1>4

\* The invariant holds at the start.
LEMMA InitCInv ==
    ASSUME Init
    PROVE  CInv
<1>1. TypeOK
  <2>1. /\ last.op = "none" /\ last.err = "nil" /\ last.discarded \in BOOLEAN
        /\ header.count = 0
    BY DEF Init, NoResult, NoHeader
  <2>2. session \in BOOLEAN
    BY Zenon DEF Init
  <2>3. /\ minorVer \in 0..3 /\ opsCount \in 0..MaxOps /\ count \in Nat /\ ~(count > 1)
        /\ current = None /\ saved = None /\ next = "none" /\ unread = "none" /\ phase = "call"
    BY DEF Init
  <2> QED
    BY <2>1, <2>2, <2>3 DEF TypeOK
<1>2. Fresh /\ Unanswered /\ Promised /\ Allowed /\ UnreadEnds
  BY DEF Init, Fresh, Unanswered, Promised, Allowed, UnreadEnds
<1>3. OneWithoutSession /\ GoneIsStale /\ HeaderMatchesBody /\ CurrentHandlePreventsPanic
  BY SMTT(60) DEF Init, NoResult, OneWithoutSession, GoneIsStale, GoneErrors, HeaderMatchesBody,
         CurrentHandlePreventsPanic
<1> QED
  BY <1>1, <1>2, <1>3 DEF CInv

\* Every step keeps the invariant.
LEMMA NextCInv ==
    ASSUME CInv, [Next]_vars
    PROVE  CInv'
<1> USE DEF CInv
<1>1. CASE Void \/ Rejected
  BY <1>1, EndStep DEF Void, Rejected, FinalPhases, Fresh
<1>2. CASE MinorVersMismatch
  <2>1. /\ count = 0 /\ next = "none" /\ unread = "none" /\ phase' = "replied"
        /\ header' = [status |-> "MINOR_VERS_MISMATCH", count |-> 0]
        /\ UNCHANGED <<compoundVars, next, count, last>>
    BY <1>2 DEF MinorVersMismatch, WriteHeader, Fresh
  <2> QED
    BY <2>1 DEF compoundVars, TypeOK, Fresh, Unanswered, Promised, Allowed, Continues, OneWithoutSession,
                UnreadEnds, GoneIsStale, HeaderMatchesBody, CurrentHandlePreventsPanic,
                FinalPhases
<1>3. CASE Accepted
  BY <1>3 DEF Accepted, compoundVars, TypeOK, Fresh, Unanswered, Promised, Allowed, Continues,
              OneWithoutSession, UnreadEnds, GoneIsStale, HeaderMatchesBody,
              CurrentHandlePreventsPanic, FinalPhases
<1>4. ASSUME NEW op \in OpCodes, Run(op)
      PROVE  CInv'
  <2>1. phase = "first"
    BY <1>4 DEF Run
  <2>2. ASSUME NEW status, WriteHeaderAndSingleOperation(op, status)
        PROVE  CInv'
    BY <2>1, <2>2, SingleStep
  <2>3. CASE /\ minorVer > 0 => op \in AllowedFirstOps41 \ {"SEQUENCE"} /\ ~NotOnlyOp(op)
             /\ WriteHeader(opsCount, "OK")
             /\ phase' = "run"
             /\ next' = op
             /\ UNCHANGED <<compoundVars, count, last>>
    <3>1. /\ count = 0 /\ unread = "none"
          /\ minorVer > 0 => opsCount <= 1
          /\ header' = [status |-> "OK", count |-> opsCount]
      BY <2>1, <2>3 DEF Fresh, NotOnlyOp, WriteHeader, TypeOK
    <3> QED
      BY <2>3, <3>1 DEF compoundVars, TypeOK, Fresh, Unanswered, Promised, Allowed, OneWithoutSession,
                        UnreadEnds, GoneIsStale, HeaderMatchesBody, CurrentHandlePreventsPanic
  <2> QED
    BY <1>4, <2>2, <2>3 DEF Run
<1>5. ASSUME NEW op \in OpCodes, Operation(op)
      PROVE  CInv'
  BY <1>5 DEF Operation, compoundVars, TypeOK, Fresh, Unanswered, Promised, Allowed, Continues,
              OneWithoutSession, UnreadEnds, GoneIsStale, HeaderMatchesBody,
              CurrentHandlePreventsPanic, FinalPhases
<1>6. CASE RunSequence
  <2>1. phase = "first" /\ "SEQUENCE" \in OpCodes
    BY <1>6 DEF RunSequence, OpCodes, UndefinedOps
  <2>2. ASSUME NEW status, WriteHeaderAndSingleOperation("SEQUENCE", status)
        PROVE  CInv'
    BY <2>1, <2>2, SingleStep
  <2>3. CASE End("replayed")
    BY <2>3, EndStep DEF FinalPhases
  <2>4. CASE /\ session' = TRUE
             /\ WriteHeader(opsCount, "OK")
             /\ OperationResponse("SEQUENCE", "OK", "nil", FALSE)
             /\ phase' = "run"
             /\ UNCHANGED <<minorVer, opsCount, current, saved, unread, next>>
    <3>1. /\ count' = 1 /\ next = "none" /\ unread = "none"
          /\ last' = [op |-> "SEQUENCE", status |-> "OK", err |-> "nil", discarded |-> FALSE]
          /\ header' = [status |-> "OK", count |-> opsCount]
      BY <2>1, <2>4 DEF Fresh, OperationResponse, WriteHeader
    <3> QED
      BY <2>1, <2>4, <3>1 DEF TypeOK, Fresh, Unanswered, Promised, Allowed, OneWithoutSession, UnreadEnds,
                        GoneIsStale, HeaderMatchesBody, CurrentHandlePreventsPanic
  <2> QED
    BY <1>6, <2>2, <2>3, <2>4, Zenon DEF RunSequence
<1>7. CASE Hangs \/ DecodeFails
  BY <1>7, EndStep, Zenon DEF Hangs, DecodeFails, FinalPhases
<1>8. CASE RewriteHeaderIfNeeded
  <2>1. /\ phase = "run" /\ next = "none" /\ count > 0 /\ phase' = "replied"
        /\ UNCHANGED <<compoundVars, next, count, last>>
    BY <1>8, Zenon DEF RewriteHeaderIfNeeded
  <2>2. header' = [status |-> last.status, count |-> count]
    BY <1>8, <2>1 DEF RewriteHeaderIfNeeded, WriteHeader, Promised
  <2> QED
    BY <2>1, <2>2 DEF compoundVars, TypeOK, Fresh, Unanswered, Promised, Allowed, OneWithoutSession,
                      UnreadEnds, GoneIsStale, HeaderMatchesBody, CurrentHandlePreventsPanic,
                      FinalPhases
<1>9. CASE doOperation
  <2>1. CASE Replies
    BY <2>1, RepliesStep
  <2>2. CASE Breaks
    BY <2>2, EndStep, Zenon DEF Breaks, FinalPhases
  <2> QED
    BY <1>9, <2>1, <2>2, OperationKinds
<1>10. CASE UNCHANGED vars
  BY <1>10 DEF vars, TypeOK, Fresh, Unanswered, Promised, Allowed, Continues, OneWithoutSession,
               UnreadEnds, GoneIsStale, HeaderMatchesBody, CurrentHandlePreventsPanic
<1> QED
  BY <1>1, <1>2, <1>3, <1>4, <1>5, <1>6, <1>7, <1>8, <1>9, <1>10 DEF Next
-----------------------------------------------------------------------------
\* The inductive invariant holds in every call.
THEOREM CompoundInvariant == Spec => []CInv
BY InitCInv, NextCInv, PTL DEF Spec

\* TypeOK holds always, so a reply never has more results than the call has
\* operations (Run executes the first one even of a call that says it has none).
THEOREM CompoundTyped == Spec => []TypeOK
<1>1. CInv => TypeOK
  BY DEF CInv
<1> QED
  BY <1>1, CompoundInvariant, PTL

\* However a call ends, the header of its reply describes the results behind it.
THEOREM HeaderIsRight == Spec => []HeaderMatchesBody
<1>1. CInv => HeaderMatchesBody
  BY DEF CInv
<1> QED
  BY <1>1, CompoundInvariant, PTL

\* From version 4.1 on, whatever the operations, none after the first runs
\* outside a session.
THEOREM SessionGuardsRest == Spec => []OnlyFirstRunsWithoutSession
<1>1. CInv => OnlyFirstRunsWithoutSession
  <2> SUFFICES ASSUME CInv, minorVer > 0, ~session, count > 1 \/ (count = 1 /\ next # "none")
               PROVE  FALSE
    BY DEF OnlyFirstRunsWithoutSession, CInv, TypeOK
  <2>1. opsCount \in Int /\ opsCount <= 1
    BY DEF CInv, OneWithoutSession, TypeOK
  <2>2. CASE count > 1
    BY <2>1, <2>2 DEF CInv, TypeOK
  <2>3. CASE count = 1 /\ next # "none"
    BY <2>1, <2>3 DEF CInv, Allowed, Continues
  <2> QED
    BY <2>2, <2>3
<1> QED
  BY <1>1, CompoundInvariant, PTL

\* In a call of any length only SECINFO leaves arguments behind that are taken for
\* the code of the next operation.
THEOREM OthersAreRead == Spec => []OnlySecinfoIsMisread
<1>1. CInv => OnlySecinfoIsMisread
  BY DEF CInv, UnreadEnds, OnlySecinfoIsMisread
<1> QED
  BY <1>1, CompoundInvariant, PTL

\* No operation on handles panics once a call has a current handle.
THEOREM HandleGuardsPanic == Spec => []CurrentHandlePreventsPanic
<1>1. CInv => CurrentHandlePreventsPanic
  BY DEF CInv
<1> QED
  BY <1>1, CompoundInvariant, PTL

\* After PUTFH of a file that is gone no operation is executed, so none acts on
\* the handle that was current before.
THEOREM NothingAfterStale == Spec => GoneFileEndsCompound
<1> DEFINE Gone == last.op = "PUTFH" /\ last.err \in {"ErrNotExist", "EOPNOTSUPP"}
<1>1. CInv /\ [Next]_vars => [Gone => UNCHANGED <<count, current, saved>>]_vars
  <2> SUFFICES ASSUME CInv, Next, Gone
               PROVE  UNCHANGED <<count, current, saved>>
    BY DEF vars
  <2>1. last.status \in FatalStatuses
    BY DEF CInv, GoneIsStale, GoneErrors, FatalStatuses
  <2>2. ~Continues
    BY <2>1 DEF Continues
  <2>3. phase \notin {"call", "first"}
    BY DEF CInv, Fresh, NoResult
  <2>4. next # "none" => count = 0
    BY <2>2 DEF CInv, Allowed, TypeOK
  <2>5. next = "none"
    BY <2>4 DEF CInv, Unanswered, NoResult
  <2>6. ~doOperation
    BY <2>5, OperationKinds DEF Replies, Breaks
  <2>7. Hangs \/ DecodeFails \/ RewriteHeaderIfNeeded
    BY <2>2, <2>3, <2>6, Zenon DEF Next, Void, Rejected, MinorVersMismatch, Accepted, Run, Operation,
                            RunSequence
  <2> QED
    BY <2>7 DEF Hangs, DecodeFails, End, RewriteHeaderIfNeeded, compoundVars
<1> QED
  BY <1>1, CompoundInvariant, PTL DEF Spec, GoneFileEndsCompound
=============================================================================
