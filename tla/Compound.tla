------------------------------ MODULE Compound ------------------------------
(***************************************************************************)
(* One COMPOUND call (mux_v4.go): the checks of Run and RunSequence, the   *)
(* loop over the operations, the current and saved file handle they share, *)
(* and the header that is written first and rewritten at the end.  Every   *)
(* operation is modelled with all its early returns and their order.  What *)
(* it asks of the registry, of the worker and of the file system is a      *)
(* choice among the answers those can give; Clients, Workers, OpenFiles    *)
(* and Slots model the state behind them.  Of the reply only the number of *)
(* results, the last result and the header are kept.                       *)
(***************************************************************************)
EXTENDS Integers, FiniteSets

CONSTANTS
    Handles,    \* file handles
    Root,       \* the handle of "/"
    None,       \* a nil pointer
    Errors,     \* errors the file system returns, among those Err2Status knows
    MaxOps      \* bound on the number of operations of a call

ASSUME CompoundAssumption ==
    /\ Root \in Handles
    /\ None \notin Handles
    /\ MaxOps \in Nat

VARIABLES
    phase,     \* where the handler is
    minorVer,  \* Compound.MinorVer
    opsCount,  \* Compound.OpsCount
    session,   \* whether Compound.SessionID and Slot are set
    current,   \* Compound.CurrentHandle
    saved,     \* Compound.SavedHandle
    next,      \* the operation code that was decoded last, until it is executed
    unread,    \* the first operation that left its arguments in the input
    count,     \* results in the reply
    last,      \* the last one: code, status, file system error, Discard called
    header     \* status and count in the header of the reply

vars == <<phase, minorVer, opsCount, session, current, saved, next, unread,
          count, last, header>>

\* How a call ends: with a reply, a reply copied from the slot, a denial, or an
\* error that ends the connection, each of which Handle sends as its response; or
\* with none, in a panic or in a decoder that waits for ever for more input.
FinalPhases == {"replied", "replayed", "denied", "closed", "crashed", "hung"}

\* The operations of NotImplementedOptionalOps behave alike, and so do those of
\* NotImplementedRequiredOps that may not come first: COPY and LOCK stand for them.
NotImplementedOptionalOps == {"COPY"}
NotImplementedRequiredOps == {"BIND_CONN_TO_SESSION", "LOCK"}
UndefinedOps == {"SEQUENCE", "UNKNOWN"}

OpCodes == NotImplementedOptionalOps \cup NotImplementedRequiredOps \cup UndefinedOps \cup
    {"SETCLIENTID", "SETCLIENTID_CONFIRM", "EXCHANGE_ID", "CREATE_SESSION",
     "RECLAIM_COMPLETE", "DESTROY_SESSION", "DESTROY_CLIENTID", "PUTROOTFH",
     "PUTPUBFH", "PUTFH", "GETFH", "SAVEFH", "RESTOREFH", "GETATTR", "LOOKUP",
     "LOOKUPP", "ACCESS", "READDIR", "RENEW", "SECINFO", "SECINFO_NO_NAME",
     "CREATE", "RENAME", "REMOVE", "LINK", "READLINK", "SETATTR", "OPEN",
     "OPEN_DOWNGRADE", "CLOSE", "READ", "WRITE", "COMMIT", "VERIFY", "NVERIFY",
     "GETXATTR", "SETXATTR", "LISTXATTRS", "REMOVEXATTR"}

AllowedFirstOps41 ==
    {"CREATE_SESSION", "DESTROY_SESSION", "SEQUENCE", "BIND_CONN_TO_SESSION",
     "EXCHANGE_ID"}

\* Faulty FatalStatuses: an optional operation we lack does not end the compound.
FatalStatusesNotSupp ==
    {"OP_ILLEGAL", "OP_NOT_IN_SESSION", "SERVERFAULT", "FHEXPIRED", "STALE"}

FatalStatuses ==
    {"OP_ILLEGAL", "OP_NOT_IN_SESSION", "SERVERFAULT", "NOTSUPP", "FHEXPIRED",
     "STALE"}

Err2Status ==
    [ErrNotExist |-> "NOENT", ErrExist |-> "EXIST", ErrPermission |-> "PERM",
     ErrInvalid |-> "INVAL", ErrInvalidHandle |-> "BADHANDLE", EISDIR |-> "ISDIR",
     ENOTDIR |-> "NOTDIR", EOPNOTSUPP |-> "NOTSUPP", EOF |-> "IO",
     other |-> "SERVERFAULT"]

NonFatalErrors ==
    {"ErrNotExist", "ErrExist", "ErrPermission", "ErrInvalid", "EISDIR", "ENOTDIR",
     "EOPNOTSUPP", "EOF"}

NoResult == [op |-> "none", status |-> "none", err |-> "nil", discarded |-> FALSE]
NoHeader == [status |-> "none", count |-> 0]

Init ==
    /\ phase = "call"
    /\ minorVer \in 0..3
    /\ opsCount \in 0..MaxOps
    /\ session = FALSE
    /\ current = None
    /\ saved = None
    /\ next = "none"
    /\ unread = "none"
    /\ count = 0
    /\ last = NoResult
    /\ header = NoHeader
-----------------------------------------------------------------------------
(* The call, up to the first operation.                                    *)

compoundVars == <<minorVer, opsCount, session, current, saved, unread>>

End(p) ==
    /\ phase' = p
    /\ UNCHANGED <<compoundVars, next, count, last, header>>

\* HandleProc: the VOID procedure is answered, an unknown one is an error.
Void == phase = "call" /\ \E p \in {"replied", "closed"} : End(p)

\* auth.Authenticate denies the call or cannot decode the credentials.
Rejected == phase = "call" /\ \E p \in {"denied", "closed"} : End(p)

WriteHeader(n, status) == header' = [status |-> status, count |-> n]

MinorVersMismatch ==
    /\ phase = "call" /\ minorVer > 2
    /\ WriteHeader(0, "MINOR_VERS_MISMATCH")
    /\ phase' = "replied"
    /\ UNCHANGED <<compoundVars, next, count, last>>

\* Compound, up to the start of Run.
Accepted ==
    /\ phase = "call" /\ minorVer <= 2
    /\ phase' = "first"
    /\ UNCHANGED <<compoundVars, next, count, last, header>>

OperationResponse(op, status, err, discarded) ==
    /\ count' = count + 1
    /\ last' = [op |-> op, status |-> status, err |-> err, discarded |-> discarded]

WriteHeaderAndSingleOperation(op, status) ==
    /\ WriteHeader(1, status)
    /\ OperationResponse(op, status, "nil", FALSE)
    /\ phase' = "replied"
    /\ UNCHANGED <<compoundVars, next>>

\* Faulty NotOnlyOp: off by one.
NotOnlyOpOffByOne(op) == op # "SEQUENCE" /\ opsCount > 2

\* The condition of NFS4ERR_NOT_ONLY_OP in Run.
NotOnlyOp(op) == op # "SEQUENCE" /\ opsCount > 1

\* Run reads the first operation code and executes that operation, unless the
\* minor version asks for a session.
Run(op) ==
    /\ phase = "first"
    /\ \/ /\ minorVer > 0 /\ op \notin AllowedFirstOps41
          /\ WriteHeaderAndSingleOperation(op, "OP_NOT_IN_SESSION")
       \/ /\ minorVer > 0 /\ op \in AllowedFirstOps41 /\ NotOnlyOp(op)
          /\ WriteHeaderAndSingleOperation(op, "NOT_ONLY_OP")
       \/ /\ minorVer > 0 => op \in AllowedFirstOps41 \ {"SEQUENCE"} /\ ~NotOnlyOp(op)
          /\ WriteHeader(opsCount, "OK")
          /\ phase' = "run"
          /\ next' = op
          /\ UNCHANGED <<compoundVars, count, last>>

\* RunSequence: the slot is looked up and checked (Slots), and then either the
\* call is refused, or the reply is copied from the slot, or the call runs.
RunSequence ==
    /\ phase = "first" /\ minorVer > 0
    /\ \/ \E status \in {"DEADSESSION", "RETRY_UNCACHED_REP", "SEQ_MISORDERED"} :
            WriteHeaderAndSingleOperation("SEQUENCE", status)
       \/ End("replayed")
       \/ /\ session' = TRUE
          /\ WriteHeader(opsCount, "OK")
          /\ OperationResponse("SEQUENCE", "OK", "nil", FALSE)
          /\ phase' = "run"
          /\ UNCHANGED <<minorVer, opsCount, current, saved, unread, next>>

\* Faulty Continues: off by one.
ContinuesOffByOne == count <= opsCount /\ last.status \notin FatalStatuses

\* The condition of the loops of Run and RunSequence.
Continues == count < opsCount /\ last.status \notin FatalStatuses

\* Operation: the code of the next operation is decoded.  When arguments were
\* left in the input, they are taken for it.
Operation(op) ==
    /\ phase = "run" /\ next = "none" /\ count > 0 /\ Continues
    /\ next' = op
    /\ UNCHANGED <<phase, compoundVars, count, last, header>>

\* Faulty RewriteHeaderIfNeeded: only the status is compared.
RewriteHeaderOnError ==
    /\ phase = "run" /\ next = "none" /\ count > 0 /\ ~Continues
    /\ IF last.status = "OK"
         THEN UNCHANGED header
         ELSE WriteHeader(count, last.status)
    /\ phase' = "replied"
    /\ UNCHANGED <<compoundVars, next, count, last>>

\* The end of the loops.
RewriteHeaderIfNeeded ==
    /\ phase = "run" /\ next = "none" /\ count > 0 /\ ~Continues
    /\ IF last.status = "OK" /\ count = opsCount
         THEN UNCHANGED header
         ELSE WriteHeader(count, last.status)
    /\ phase' = "replied"
    /\ UNCHANGED <<compoundVars, next, count, last>>
-----------------------------------------------------------------------------
(* What an operation may do.                                               *)

\* doOperation calls the handler of op.
Does(op) == phase = "run" /\ next = op

Keep == UNCHANGED <<phase, minorVer, opsCount, session, header>> /\ next' = "none"

\* An answer that leaves the handles alone, without an error of the file system.
Answer(op, status) ==
    /\ OperationResponse(op, status, "nil", FALSE)
    /\ Keep
    /\ UNCHANGED <<current, saved, unread>>

\* An answer that is given before the arguments are decoded.
AnswerUnread(op, status) ==
    /\ OperationResponse(op, status, "nil", FALSE)
    /\ Keep
    /\ unread' = IF unread = "none" THEN op ELSE unread
    /\ UNCHANGED <<current, saved>>

\* The file system returns err, and the worker is or is not discarded.
AnswerError(op, status, err, discarded) ==
    /\ OperationResponse(op, status, err, discarded)
    /\ Keep
    /\ UNCHANGED <<current, saved, unread>>

\* DiscardOnServerFault, and the status of the error.
Fails(op) ==
    \E err \in Errors : AnswerError(op, Err2Status[err], err, err \notin NonFatalErrors)

\* The status of the error, with no Discard.
FailsInUse(op) == \E err \in Errors : AnswerError(op, Err2Status[err], err, FALSE)

\* Success, with a new current handle.
Moves(op, h) ==
    /\ OperationResponse(op, "OK", "nil", FALSE)
    /\ Keep
    /\ current' = h
    /\ UNCHANGED <<saved, unread>>

NoFileHandle(op) == current = None /\ Answer(op, "NOFILEHANDLE")

\* A nil handle is dereferenced; no panic is recovered, so the process ends.
Panics == End("crashed")
-----------------------------------------------------------------------------
(* The operations on the file handles.                                     *)

\* Root should always exist: every error discards the worker.
PutRoot(op) ==
    /\ Does(op)
    /\ \/ Moves(op, Root)
       \/ \E err \in Errors : AnswerError(op, Err2Status[err], err, TRUE)

PutRootFH == PutRoot("PUTROOTFH")

PutPubFH == PutRoot("PUTPUBFH")

\* Faulty PutFH: a handle without a file is not stale.
PutFHNotStale ==
    /\ Does("PUTFH")
    /\ \/ \E h \in Handles : Moves("PUTFH", h)
       \/ Fails("PUTFH")

\* The handle is in the attribute cache or the file system knows its path.
PutFH ==
    /\ Does("PUTFH")
    /\ \/ \E h \in Handles : Moves("PUTFH", h)
       \/ \E err \in Errors :
            LET gone == err \in {"EOPNOTSUPP", "ErrNotExist"} IN
            AnswerError("PUTFH", IF gone THEN "STALE" ELSE Err2Status[err], err,
                        err \notin NonFatalErrors)

GetFH ==
    /\ Does("GETFH")
    /\ NoFileHandle("GETFH") \/ (current # None /\ Answer("GETFH", "OK"))

SaveFH ==
    /\ Does("SAVEFH")
    /\ \/ NoFileHandle("SAVEFH")
       \/ /\ current # None
          /\ OperationResponse("SAVEFH", "OK", "nil", FALSE)
          /\ Keep
          /\ saved' = current
          /\ UNCHANGED <<current, unread>>

RestoreFH ==
    /\ Does("RESTOREFH")
    /\ IF saved = None THEN Answer("RESTOREFH", "RESTOREFH") ELSE Moves("RESTOREFH", saved)

Lookup ==
    /\ Does("LOOKUP")
    /\ \/ Answer("LOOKUP", "INVAL")
       \/ NoFileHandle("LOOKUP")
       \/ current # None /\ (Fails("LOOKUP") \/ \E h \in Handles : Moves("LOOKUP", h))

LookupParent ==
    /\ Does("LOOKUPP")
    /\ \/ NoFileHandle("LOOKUPP")
       \/ current = Root /\ Answer("LOOKUPP", "INVAL")
       \/ /\ current \notin {None, Root}
          /\ Fails("LOOKUPP") \/ \E h \in Handles : Moves("LOOKUPP", h)
-----------------------------------------------------------------------------
(* The operations that read or change the file behind the current handle.  *)

\* GETATTR and ACCESS answer from the cache or from Lstat, READLINK from the
\* file system.
ReadFile(op) ==
    /\ Does(op)
    /\ \/ NoFileHandle(op)
       \/ current # None /\ (Fails(op) \/ Answer(op, "OK"))

GetAttr == ReadFile("GETATTR")

Access == ReadFile("ACCESS")

Readlink == ReadFile("READLINK")

\* Without a handle the answer carries the code of LOOKUP.
ReadDir ==
    /\ Does("READDIR")
    /\ \/ NoFileHandle("LOOKUP")
       \/ /\ current # None
          /\ \/ Fails("READDIR")                                     \* List
             \/ Answer("READDIR", "NOT_SAME")                        \* GetLister
             \/ \E err \in Errors \ {"EOF"} :                        \* ListAt
                  AnswerError("READDIR", Err2Status[err], err, TRUE)
             \/ FailsInUse("READDIR")                                \* CloseLister
             \/ Answer("READDIR", "OK")

\* The attributes of the request are compared with those of the file.
Compare(op, refusal) ==
    /\ Does(op)
    /\ \/ Answer(op, "ATTRNOTSUPP")
       \/ NoFileHandle(op)
       \/ current # None /\ (Fails(op) \/ Answer(op, "OK") \/ Answer(op, refusal))

Verify == Compare("VERIFY", "NOT_SAME")

NVerify == Compare("NVERIFY", "SAME")

\* The attributes of CREATE are decoded before the type is looked at.
Create ==
    /\ Does("CREATE")
    /\ \/ Answer("CREATE", "INVAL")
       \/ NoFileHandle("CREATE")
       \/ /\ current # None
          /\ \/ \E status \in {"SERVERFAULT", "IO", "OP_ILLEGAL", "NOTSUPP", "BADTYPE"} :
                  Answer("CREATE", status)
             \/ Fails("CREATE")                        \* Mkdir, Symlink or Handle
             \/ \E h \in Handles : Moves("CREATE", h)

Remove ==
    /\ Does("REMOVE")
    /\ \/ Answer("REMOVE", "INVAL")
       \/ NoFileHandle("REMOVE")
       \/ current # None /\ (Fails("REMOVE") \/ Answer("REMOVE", "OK"))

\* Rename and Link, which share the code of their answers.  An error they do not
\* support stands for another file system.
TwoHandles(op) ==
    \/ Answer(op, "INVAL")
    \/ NoFileHandle(op)
    \/ current # None /\ saved = None /\ Answer(op, "RESTOREFH")

CrossFS ==
    \/ \E err \in Errors :
         LET status == Err2Status[err] IN
         AnswerError("RENAME", IF status = "NOTSUPP" THEN "XDEV" ELSE status, err,
                     err \notin NonFatalErrors)
    \/ Answer("RENAME", "OK")

\* Faulty Rename: the saved handle is not checked.
RenameUnchecked ==
    /\ Does("RENAME")
    /\ \/ Answer("RENAME", "INVAL")
       \/ NoFileHandle("RENAME")
       \/ current # None /\ saved = None /\ Panics
       \/ current # None /\ saved # None /\ CrossFS

Rename ==
    /\ Does("RENAME")
    /\ TwoHandles("RENAME") \/ (current # None /\ saved # None /\ CrossFS)

Link ==
    /\ Does("LINK")
    /\ TwoHandles("LINK") \/ (current # None /\ saved # None /\ CrossFS)

\* The arguments are refused, or one of Chmod, Lstat, Chown, Truncate and Chtimes
\* fails after the ones before it took effect.  An owner that is no number is an
\* unknown error.
SetAttr ==
    /\ Does("SETATTR")
    /\ \/ NoFileHandle("SETATTR")
       \/ /\ current # None
          /\ \/ \E status \in {"SERVERFAULT", "IO"} : Answer("SETATTR", status)
             \/ Fails("SETATTR")
             \/ Answer("SETATTR", "OK")
-----------------------------------------------------------------------------
(* Open files.  OpenFiles models what happens to them.                     *)

\* The create mode may end the call, or panic when the attributes have no mode;
\* the path of the current handle is taken before the handle is checked.
Open ==
    /\ Does("OPEN")
    /\ \/ End("closed") \/ Panics
       \/ /\ current # None
          /\ \/ \E status \in {"NOTSUPP", "SHARE_DENIED", "STALE_CLIENTID", "ISDIR", "SYMLINK"} :
                  Answer("OPEN", status)
             \/ Answer("OPEN", "OK")                   \* already open
             \/ Fails("OPEN")                          \* FileWrite, OpenFile, FileRead
             \/ \E err \in Errors :                    \* Handle
                  AnswerError("OPEN",
                              IF err = "EOPNOTSUPP" THEN "FHEXPIRED" ELSE Err2Status[err],
                              err, err \notin NonFatalErrors)
             \/ \E h \in Handles : Moves("OPEN", h)

OpenDowngrade ==
    /\ Does("OPEN_DOWNGRADE")
    /\ Answer("OPEN_DOWNGRADE", "BAD_SEQID") \/ Answer("OPEN_DOWNGRADE", "OK")

\* CLOSE, READ and WRITE; an error of the open file does not discard the worker,
\* and the end of the file is no error to READ.
UseOpenFile(op) ==
    /\ Does(op)
    /\ \/ NoFileHandle(op)
       \/ op # "READ" /\ Answer(op, "BAD_SEQID")
       \/ /\ current # None
          /\ \/ Answer(op, "BAD_SEQID")
             \/ \E err \in Errors :
                  /\ ~(op = "READ" /\ err = "EOF")
                  /\ AnswerError(op, Err2Status[err], err, FALSE)
             \/ Answer(op, "OK")

Close == UseOpenFile("CLOSE")

Read == UseOpenFile("READ")

Write == UseOpenFile("WRITE")

Commit ==
    /\ Does("COMMIT")
    /\ IF current = None THEN Panics ELSE Answer("COMMIT", "OK")

\* GETXATTR, SETXATTR and REMOVEXATTR use the handle unchecked.
XAttr(op) ==
    /\ Does(op)
    /\ \/ current = None /\ Panics
       \/ /\ current # None
          /\ \/ Fails(op)                              \* Lstat
             \/ FailsInUse(op)                         \* the extended attributes
             \/ op = "GETXATTR" /\ Answer(op, "NOXATTR")
             \/ Answer(op, "OK")

GetXAttr == XAttr("GETXATTR")

SetXAttr == XAttr("SETXATTR")

RemoveXAttr == XAttr("REMOVEXATTR")

\* A cookie is answered before the handle is used.
ListXAttrs ==
    /\ Does("LISTXATTRS")
    /\ \/ Answer("LISTXATTRS", "OK")
       \/ current = None /\ Panics
       \/ current # None /\ (Fails("LISTXATTRS") \/ FailsInUse("LISTXATTRS"))
-----------------------------------------------------------------------------
(* Clients and sessions, and the rest.  Clients models the former.         *)

\* The statuses of the registry.
ClientStatus ==
    [SETCLIENTID |-> {"OK", "CLID_INUSE"},
     SETCLIENTID_CONFIRM |-> {"OK", "CLID_INUSE", "STALE_CLIENTID"},
     EXCHANGE_ID |-> {"OK", "CLID_INUSE", "STALE_CLIENTID"},
     CREATE_SESSION |-> {"OK", "CLID_INUSE", "STALE_CLIENTID", "SEQ_MISORDERED"},
     RECLAIM_COMPLETE |-> {"OK"},
     DESTROY_SESSION |-> {"OK"},
     DESTROY_CLIENTID |-> {"OK", "STALE_CLIENTID", "CLIENTID_BUSY"},
     RENEW |-> {"OK", "EXPIRED", "ACCESS"}]

\* SETCLIENTID, SETCLIENTID_CONFIRM and RENEW belong to version 4.0, the others to
\* 4.1.
WrongVersion(op) ==
    (minorVer > 0) = (op \in {"SETCLIENTID", "SETCLIENTID_CONFIRM", "RENEW"})

\* RENEW answers with the code of SETCLIENTID in the wrong version.
ClientOperation(op) ==
    /\ Does(op)
    /\ IF WrongVersion(op)
         THEN AnswerUnread(IF op = "RENEW" THEN "SETCLIENTID" ELSE op, "OP_ILLEGAL")
         ELSE \E status \in ClientStatus[op] : Answer(op, status)

\* The name in the arguments is not decoded.
Secinfo == Does("SECINFO") /\ AnswerUnread("SECINFO", "OK")

SecinfoNoName == Does("SECINFO_NO_NAME") /\ Answer("SECINFO_NO_NAME", "OK")

\* The default branch of doOperation.
NotImplemented ==
    \/ \E op \in NotImplementedOptionalOps : Does(op) /\ AnswerUnread(op, "NOTSUPP")
    \/ \E op \in NotImplementedRequiredOps : Does(op) /\ AnswerUnread(op, "SERVERFAULT")
    \/ \E op \in UndefinedOps : Does(op) /\ AnswerUnread(op, "OP_ILLEGAL")

doOperation ==
    \/ PutRootFH \/ PutPubFH \/ PutFH \/ GetFH \/ SaveFH \/ RestoreFH
    \/ GetAttr \/ Lookup \/ LookupParent \/ Access \/ ReadDir \/ Secinfo \/ SecinfoNoName
    \/ Create \/ Rename \/ Remove \/ Link \/ Readlink \/ SetAttr
    \/ Open \/ OpenDowngrade \/ Close \/ Read \/ Write \/ Commit \/ Verify \/ NVerify
    \/ GetXAttr \/ SetXAttr \/ ListXAttrs \/ RemoveXAttr
    \/ \E op \in DOMAIN ClientStatus : ClientOperation(op)
    \/ NotImplemented

-----------------------------------------------------------------------------
(* Input that cannot be decoded.                                           *)

\* The operations that have no arguments, or do not read them.
NothingRead ==
    NotImplementedOptionalOps \cup NotImplementedRequiredOps \cup UndefinedOps \cup
    {"PUTROOTFH", "PUTPUBFH", "GETFH", "SAVEFH", "RESTOREFH", "LOOKUPP", "READLINK",
     "SECINFO"}

\* The handler of op decodes its arguments, before it does anything else.
Decodes(op) ==
    /\ Does(op)
    /\ op \notin NothingRead
    /\ op \in DOMAIN ClientStatus => ~WrongVersion(op)

\* The input ends too early: in the tag, the version and the count, in a code or in
\* the arguments of an operation.  Buf.Read returns no bytes and no error then, so
\* that io.ReadFull calls it for ever: the call never ends and is never answered.
\* An empty call (a count of zero and no operation) ends up here as well.
Hangs ==
    /\ \/ phase \in {"call", "first"}
       \/ phase = "run" /\ next = "none" /\ count > 0 /\ Continues
       \/ \E op \in OpCodes : Decodes(op)
    /\ End("hung")

\* The one error a decoder of the input returns is the unknown mode of a union, and
\* these operations have unions in their arguments: the call ends without a reply.
DecodeFails ==
    /\ \E op \in {"EXCHANGE_ID", "CREATE", "OPEN"} : Decodes(op)
    /\ End("closed")

Next ==
    \/ Void \/ Rejected \/ MinorVersMismatch \/ Accepted
    \/ \E op \in OpCodes : Run(op) \/ Operation(op)
    \/ RunSequence \/ RewriteHeaderIfNeeded
    \/ doOperation
    \/ Hangs \/ DecodeFails

Spec == Init /\ [][Next]_vars
-----------------------------------------------------------------------------
\* Every variable has its type, and no more operations are executed than the call
\* has, except that Run always executes the first.
TypeOK ==
    /\ phase \in {"call", "first", "run"} \cup FinalPhases
    /\ minorVer \in 0..3
    /\ opsCount \in 0..MaxOps
    /\ session \in BOOLEAN
    /\ current \in Handles \cup {None}
    /\ saved \in Handles \cup {None}
    /\ next \in OpCodes \cup {"none"}
    /\ unread \in OpCodes \cup {"none"}
    /\ count \in Nat /\ (count > 1 => count <= opsCount)
    /\ last.op \in OpCodes \cup {"none"}
    /\ last.err \in Errors \cup {"nil"}
    /\ last.discarded \in BOOLEAN
    /\ header.count \in Nat

\* The client finds the end of a reply by its header.  Whichever way the compound
\* ended (all operations done, stopped by a fatal status, refused by Run or by
\* RunSequence, a count of zero), the header of the reply, which is written before
\* the operations run, has the number of results that follow and the status of the
\* last one.
HeaderMatchesBody ==
    phase = "replied" /\ count > 0 =>
        header = [status |-> last.status, count |-> count]

\* From version 4.1 on nothing but the first operation runs outside a session: an
\* operation that finds Compound.Slot and SessionID unset is the only one of its call
\* (Run: AllowedFirstOps41 and NOT_ONLY_OP).
OnlyFirstRunsWithoutSession ==
    minorVer > 0 /\ (count > 1 \/ (count = 1 /\ next # "none")) => session

\* "Note: only return statuses listed in FatalStatuses" (doOperation in mux_v4.go):
\* an operation that leaves its arguments in the input ends the compound, so that
\* they are never taken for the code of the next operation.  SECINFO is the one
\* operation that does not keep to it.
OnlySecinfoIsMisread ==
    next # "none" /\ unread # "none" => unread = "SECINFO"

\* PUTFH of a handle whose file is gone ends the compound, so that the operations
\* meant for that file are not executed on the handle that was current before.
GoneFileEndsCompound ==
    [][last.op = "PUTFH" /\ last.err \in {"ErrNotExist", "EOPNOTSUPP"} =>
         UNCHANGED <<count, current, saved>>]_vars

\* The handlers that use a file handle unchecked (OPEN, COMMIT and the extended
\* attributes) only use the current one: as soon as a compound has a current handle
\* no operation on handles can panic.  OPEN may, on create attributes with no mode.
CurrentHandlePreventsPanic ==
    phase = "crashed" => current = None \/ next = "OPEN"
=============================================================================
