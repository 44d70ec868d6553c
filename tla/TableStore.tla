----------------------------- MODULE TableStore -----------------------------
(***************************************************************************)
(* What a table of stored files promises to the threads that share it: each *)
(* request is carried out at one moment between its call and its return, or *)
(* not at all; the table has one row per URL and one per storage path; rows *)
(* stay when the process ends.  What DataManager does not promise: to tell *)
(* a reader that its rows are not all there.                               *)
(***************************************************************************)
CONSTANTS
    Threads, Urls, Paths,
    Infos,          \* times and size of a file
    NoRequest, NoAnswer

VARIABLES rows, asked, answered

tableVars == <<rows, asked, answered>>

Row == [url : Urls, path : Paths, info : Infos]

Requests ==
    [op : {"insert"}, row : Row]
        \cup [op : {"getOneByURL", "deleteByURL"}, url : Urls]
        \cup [op : {"getOneByStoragePath"}, path : Paths]
        \cup [op : {"getAll"}]

Keyed(table) == \A r, s \in table : r.url = s.url \/ r.path = s.path => r = s

\* Rows that meet the condition of a request.
Selected(table, q) ==
    { r \in table :
        /\ q.op \in {"getOneByURL", "deleteByURL"} => r.url = q.url
        /\ q.op = "getOneByStoragePath" => r.path = q.path }

isWrite(q) == q.op \in {"insert", "deleteByURL"}

TableInit ==
    /\ rows \in SUBSET Row /\ Keyed(rows)
    /\ asked = [t \in Threads |-> NoRequest]
    /\ answered = [t \in Threads |-> NoAnswer]

Ask(t, q) ==
    /\ asked[t] = NoRequest
    /\ asked' = [asked EXCEPT ![t] = q]
    /\ UNCHANGED <<rows, answered>>

\* A row takes the place of those that share its URL or its path.
Insert(t) ==
    /\ asked[t].op = "insert"
    /\ LET new == asked[t].row
       IN  rows' = {r \in rows : r.url # new.url /\ r.path # new.path} \cup {new}
    /\ answered' = [answered EXCEPT ![t] = [ok |-> TRUE, whole |-> TRUE, found |-> {}]]

Delete(t) ==
    /\ asked[t].op = "deleteByURL"
    /\ rows' = rows \ Selected(rows, asked[t])
    /\ answered' = [answered EXCEPT ![t] = [ok |-> TRUE, whole |-> TRUE, found |-> {}]]

\* Rows of one moment.
Select(t) ==
    /\ ~isWrite(asked[t])
    /\ answered' = [answered EXCEPT ![t] =
                       [ok |-> TRUE, whole |-> TRUE, found |-> Selected(rows, asked[t])]]
    /\ UNCHANGED rows

\* An error cut the rows short.
SelectPart(t) ==
    /\ ~isWrite(asked[t])
    /\ \E part \in SUBSET Selected(rows, asked[t]) :
           answered' = [answered EXCEPT ![t] =
                           [ok |-> TRUE, whole |-> FALSE, found |-> part]]
    /\ UNCHANGED rows

Refuse(t) ==
    /\ answered' = [answered EXCEPT ![t] = [ok |-> FALSE, whole |-> TRUE, found |-> {}]]
    /\ UNCHANGED rows

Answer(t) ==
    /\ asked[t] # NoRequest /\ answered[t] = NoAnswer
    /\ Insert(t) \/ Delete(t) \/ Select(t) \/ SelectPart(t) \/ Refuse(t)
    /\ UNCHANGED asked

Return(t) ==
    /\ answered[t] # NoAnswer
    /\ asked' = [asked EXCEPT ![t] = NoRequest]
    /\ answered' = [answered EXCEPT ![t] = NoAnswer]
    /\ UNCHANGED rows

\* Calls are gone, rows are not.
Crash ==
    /\ asked' = [t \in Threads |-> NoRequest]
    /\ answered' = [t \in Threads |-> NoAnswer]
    /\ UNCHANGED rows

TableNext ==
    \/ \E t \in Threads :
           (\E q \in Requests : Ask(t, q)) \/ Answer(t) \/ Return(t)
    \/ Crash

TableSpec == TableInit /\ [][TableNext]_tableVars
=============================================================================
