---------------------------- MODULE DataManager ----------------------------
(***************************************************************************)
(* mystorage::DataManager (DataManager.hpp): the table of stored files in  *)
(* SQLite, shared by threads under a reader-writer lock.  A call is its    *)
(* lock, its statement prepared, the statement's steps (one, but for       *)
(* getAll, which fetches row after row) and its return, which unlocks.     *)
(* Preparing and each step may fail; the process may end anywhere.         *)
(***************************************************************************)
EXTENDS Integers

CONSTANTS
    Threads, Urls, Paths, Infos,
    NoThread, NoRequest, NoAnswer,
    MaxCalls,       \* bound: calls, over all threads and runs of the process
    MaxCrashes      \* bound: ends of the process

VARIABLES
    rows,       \* tem_table, as committed
    db_,        \* "open" or "closed"
    writer,     \* mtx_: who holds it alone
    readers,    \* mtx_: who shares it
    pc,         \* "idle", "lock", "prepare", "step", "return"
    request,    \* what a thread is in
    answer,     \* [ok, whole, found]: the result, and the rows it was given
    calls, crashes

vars == <<rows, db_, writer, readers, pc, request, answer, calls, crashes>>

Table == INSTANCE TableStore WITH
    asked    <- request,
    answered <- [t \in Threads |-> IF pc[t] = "return" THEN answer[t] ELSE NoAnswer]

Answers == [ok : BOOLEAN, whole : BOOLEAN, found : SUBSET Table!Row]

ASSUME DataManagerAssumption ==
    /\ NoThread \notin Threads
    /\ NoRequest \notin Table!Requests
    /\ NoAnswer \notin Answers
    /\ MaxCalls \in Nat /\ MaxCrashes \in Nat

Row == Table!Row
Selected(q) == Table!Selected(rows, q)
isWrite(t) == Table!isWrite(request[t])

Nothing == [ok |-> TRUE, whole |-> TRUE, found |-> {}]

\* What the file holds: rows of earlier runs.
Init ==
    /\ rows \in SUBSET Row /\ Table!Keyed(rows)
    /\ db_ = "open"
    /\ writer = NoThread /\ readers = {}
    /\ pc = [t \in Threads |-> "idle"]
    /\ request = [t \in Threads |-> NoRequest]
    /\ answer = [t \in Threads |-> Nothing]
    /\ calls = 0 /\ crashes = 0

Call(t, q) ==
    /\ db_ = "open" /\ pc[t] = "idle" /\ calls < MaxCalls
    /\ pc' = [pc EXCEPT ![t] = "lock"]
    /\ request' = [request EXCEPT ![t] = q]
    /\ calls' = calls + 1
    /\ UNCHANGED <<rows, db_, writer, readers, answer, crashes>>

\* std::lock_guard: insert, update, deleteByURL.
Lock(t) ==
    /\ pc[t] = "lock" /\ isWrite(t)
    /\ writer = NoThread /\ readers = {}
    /\ writer' = t
    /\ pc' = [pc EXCEPT ![t] = "prepare"]
    /\ UNCHANGED <<rows, db_, readers, request, answer, calls, crashes>>

\* Faulty variant of LockShared: SQLite's own locks are trusted.
LockSharedNever(t) ==
    /\ pc[t] = "lock" /\ ~isWrite(t)
    /\ pc' = [pc EXCEPT ![t] = "prepare"]
    /\ UNCHANGED <<rows, db_, writer, readers, request, answer, calls,
                   crashes>>

\* std::shared_lock: getOneByURL, getOneByStoragePath, getAll.
LockShared(t) ==
    /\ pc[t] = "lock" /\ ~isWrite(t)
    /\ writer = NoThread
    /\ readers' = readers \cup {t}
    /\ pc' = [pc EXCEPT ![t] = "prepare"]
    /\ UNCHANGED <<rows, db_, writer, request, answer, calls, crashes>>

Prepare(t) ==
    /\ pc[t] = "prepare"
    /\ pc' = [pc EXCEPT ![t] = "step"]
    /\ UNCHANGED <<rows, db_, writer, readers, request, answer, calls,
                   crashes>>

\* The statement cannot be prepared, or a writing step is not SQLITE_DONE, in
\* which case it has changed nothing.
Fail(t) ==
    /\ pc[t] = "prepare" \/ (pc[t] = "step" /\ isWrite(t))
    /\ answer' = [answer EXCEPT ![t].ok = FALSE]
    /\ pc' = [pc EXCEPT ![t] = "return"]
    /\ UNCHANGED <<rows, db_, writer, readers, request, calls, crashes>>

\* Faulty variant of replaced: storage paths are not unique.
replacedByURL(row) == {r \in rows : r.url # row.url} \cup {row}

\* "insert or replace", with url the primary key and storage_path unique.
replaced(row) == {r \in rows : r.url # row.url /\ r.path # row.path} \cup {row}

insert(t) ==
    /\ pc[t] = "step" /\ request[t].op = "insert"
    /\ rows' = replaced(request[t].row)
    /\ pc' = [pc EXCEPT ![t] = "return"]
    /\ UNCHANGED <<db_, writer, readers, request, answer, calls, crashes>>

deleteByURL(t) ==
    /\ pc[t] = "step" /\ request[t].op = "deleteByURL"
    /\ rows' = rows \ Selected(request[t])
    /\ pc' = [pc EXCEPT ![t] = "return"]
    /\ UNCHANGED <<db_, writer, readers, request, answer, calls, crashes>>

\* getOneByURL, getOneByStoragePath: true, with a row or without.
getOne(t) ==
    /\ pc[t] = "step" /\ ~isWrite(t) /\ request[t].op # "getAll"
    /\ answer' = [answer EXCEPT ![t].found = Selected(request[t])]
    /\ pc' = [pc EXCEPT ![t] = "return"]
    /\ UNCHANGED <<rows, db_, writer, readers, request, calls, crashes>>

\* getAll: one more row that the cursor has not passed.
getAllRow(t) ==
    /\ pc[t] = "step" /\ request[t].op = "getAll"
    /\ \E r \in rows \ answer[t].found :
           answer' = [answer EXCEPT ![t].found = @ \cup {r}]
    /\ UNCHANGED <<rows, db_, writer, readers, pc, request, calls, crashes>>

getAllEnds(t) ==
    /\ pc[t] = "step" /\ request[t].op = "getAll"
    /\ rows \subseteq answer[t].found
    /\ pc' = [pc EXCEPT ![t] = "return"]
    /\ UNCHANGED <<rows, db_, writer, readers, request, answer, calls,
                   crashes>>

\* A reading step fails: taken for the end of the rows.
BreakOff(t) ==
    /\ pc[t] = "step" /\ ~isWrite(t)
    /\ answer' = [answer EXCEPT ![t].whole = FALSE]
    /\ pc' = [pc EXCEPT ![t] = "return"]
    /\ UNCHANGED <<rows, db_, writer, readers, request, calls, crashes>>

Return(t) ==
    /\ pc[t] = "return"
    /\ writer' = IF writer = t THEN NoThread ELSE writer
    /\ readers' = readers \ {t}
    /\ pc' = [pc EXCEPT ![t] = "idle"]
    /\ request' = [request EXCEPT ![t] = NoRequest]
    /\ answer' = [answer EXCEPT ![t] = Nothing]
    /\ UNCHANGED <<rows, db_, calls, crashes>>

\* ~DataManager, which needs that nobody is in a call.
Close ==
    /\ db_ = "open" /\ \A t \in Threads : pc[t] = "idle"
    /\ db_' = "closed"
    /\ UNCHANGED <<rows, writer, readers, pc, request, answer, calls, crashes>>

Crash ==
    /\ db_ = "open" /\ crashes < MaxCrashes
    /\ db_' = "closed"
    /\ writer' = NoThread /\ readers' = {}
    /\ pc' = [t \in Threads |-> "idle"]
    /\ request' = [t \in Threads |-> NoRequest]
    /\ answer' = [t \in Threads |-> Nothing]
    /\ crashes' = crashes + 1
    /\ UNCHANGED <<rows, calls>>

\* The constructor: a table that exists is kept.
Open ==
    /\ db_ = "closed"
    /\ db_' = "open"
    /\ UNCHANGED <<rows, writer, readers, pc, request, answer, calls, crashes>>

Next ==
    \/ \E t \in Threads :
           \/ \E q \in Table!Requests : Call(t, q)
           \/ Lock(t) \/ LockShared(t)
           \/ Prepare(t) \/ Fail(t)
           \/ insert(t) \/ deleteByURL(t)
           \/ getOne(t) \/ getAllRow(t) \/ getAllEnds(t) \/ BreakOff(t)
           \/ Return(t)
    \/ Close \/ Crash \/ Open

Spec == Init /\ [][Next]_vars

-----------------------------------------------------------------------------

\* The table has one row per URL and one per storage path; writers exclude
\* everybody; a thread holds the lock from its lock to its return.
TypeOK ==
    /\ rows \subseteq Row /\ Table!Keyed(rows)
    /\ db_ \in {"open", "closed"}
    /\ pc \in [Threads -> {"idle", "lock", "prepare", "step", "return"}]
    /\ request \in [Threads -> Table!Requests \cup {NoRequest}]
    /\ answer \in [Threads -> Answers]
    /\ \A t \in Threads :
           /\ request[t] = NoRequest <=> pc[t] = "idle"
           /\ pc[t] # "idle" => db_ = "open"
           /\ t \in readers <=> pc[t] \in {"prepare", "step", "return"} /\ ~isWrite(t)
           /\ t = writer <=> pc[t] \in {"prepare", "step", "return"} /\ isWrite(t)
    /\ writer \in Threads \cup {NoThread} /\ readers \subseteq Threads
    /\ writer # NoThread => readers = {}
    /\ calls \in 0..MaxCalls /\ crashes \in 0..MaxCrashes

\* Each call takes effect at one moment between its beginning and its return,
\* or not at all: getAll's rows, fetched one by one, are those of one moment,
\* what a failed or interrupted call leaves is the old table or the new one, and
\* an end of the process loses no row.
ImplementsTable == Table!TableSpec

=============================================================================
