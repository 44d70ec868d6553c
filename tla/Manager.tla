------------------------------ MODULE Manager ------------------------------
(***************************************************************************)
(* asynclog::Manager (Manager.hpp), the singleton that keeps loggers by    *)
(* name, with AsyncLoggerBuilder, the log system's configuration and the   *)
(* shared_ptrs that callers hold.  A logger that nobody can reach is       *)
(* destroyed by the thread that let it go, under mtx_ when addLogger puts  *)
(* another in its place.  A logger is what AsyncLogger.tla makes of it:    *)
(* its destructor returns when all it accepted is written.                 *)
(***************************************************************************)
EXTENDS LogFolder

CONSTANTS
    Names, Loggers,
    DefaultLogger,  \* Manager's own
    NoLogger, NoThread,
    Configs,        \* what the configuration file may hold, see below
    MaxCalls,       \* bound: calls to Manager
    MaxMessages     \* bound: messages to each logger

ASSUME ManagerAssumption ==
    /\ DefaultLogger \notin Loggers
    /\ NoLogger \notin Loggers \cup {DefaultLogger}
    /\ NoThread \notin Threads
    /\ MaxCalls \in Nat /\ MaxMessages \in Nat

VARIABLES
    config,     \* of the file: "complete", which an absent file and one that is
                \* no JSON amount to; "noBufferSize", "noLinearGrowth": the key is
                \* missing; "mistyped": a value is not what it should be
    instance,   \* getInstance: "none", "building", "built"
    loggers_,   \* name -> logger
    mtx_,
    pc,
    arg,        \* thread -> [op, name] of its call
    new,        \* thread -> what it has built and not yet given away
    handle,     \* thread -> what it got from getLogger or getDefaultLogger
    dying,      \* thread -> what it is destroying
    loggers,    \* logger -> [state, name, accepted, written]
    calls

vars == <<folderVars, config, instance, loggers_, mtx_, pc, arg, new, handle,
          dying, loggers, calls>>

NoArg == [op |-> "none", name |-> "none"]

NewLogger(name) ==
    [state |-> "running", name |-> name, accepted |-> 0, written |-> 0]

NoLoggerYet == [state |-> "none", name |-> "none", accepted |-> 0, written |-> 0]

Init ==
    /\ FolderInit
    /\ config \in Configs
    /\ instance = "none"
    /\ loggers_ = [n \in Names |-> NoLogger]
    /\ mtx_ = NoThread
    /\ pc = [t \in Threads |-> "idle"]
    /\ arg = [t \in Threads |-> NoArg]
    /\ new = [t \in Threads |-> NoLogger]
    /\ handle = [t \in Threads |-> NoLogger]
    /\ dying = [t \in Threads |-> NoLogger]
    /\ loggers = [l \in Loggers \cup {DefaultLogger} |-> NoLoggerYet]
    /\ calls = 0

Goto(t, where) == pc' = [pc EXCEPT ![t] = where]

\* An exception that nobody catches, or a division by zero: all that is in
\* memory is gone.
ProcessEnds ==
    /\ pc' = [t \in Threads |-> "ended"]
    /\ walk' = [t \in Threads |-> NoWalk]
    /\ instance' = "none" /\ mtx_' = NoThread
    /\ loggers_' = [n \in Names |-> NoLogger]
    /\ arg' = [t \in Threads |-> NoArg]
    /\ new' = [t \in Threads |-> NoLogger]
    /\ handle' = [t \in Threads |-> NoLogger]
    /\ dying' = [t \in Threads |-> NoLogger]
    /\ loggers' = [l \in Loggers \cup {DefaultLogger} |-> NoLoggerYet]
    /\ UNCHANGED <<folders, denied, config, calls>>

-----------------------------------------------------------------------------
(* A logger is built: the configuration, a sink or none, the logger         *)

\* loadConfig, and then addLogFlush, or build at once, which takes StdOutFlush.
BuildBegins(t) ==
    /\ pc[t] = "idle" /\ new[t] = NoLogger /\ config # "mistyped"
    /\ Cardinality({l \in Loggers : loggers[l].state = "none"})
           > Cardinality({u \in Threads : pc[u] \in {"sink", "build"}})
    /\ \/ Goto(t, "sink") /\ \E path \in Paths : CreateDirectory(t, path)
       \/ Goto(t, "build") /\ UNCHANGED folderVars
    /\ UNCHANGED <<config, instance, loggers_, mtx_, arg, new, handle, dying,
                   loggers, calls>>

\* asUInt64 throws.
LoadConfigThrows(t) ==
    /\ pc[t] \in {"idle", "construct"} /\ config = "mistyped"
    /\ ProcessEnds

MakeFolders(t) ==
    /\ pc[t] = "sink"
    /\ FolderNext(t)
    /\ UNCHANGED <<config, instance, loggers_, mtx_, pc, arg, new, handle,
                   dying, loggers, calls>>

build(t) ==
    /\ pc[t] = "build" \/ walk[t].at = "opened"
    /\ \E l \in Loggers, n \in Names :
           /\ loggers[l].state = "none"
           /\ \A k \in Loggers : loggers[k].state = "none" => l <= k
           /\ loggers' = [loggers EXCEPT ![l] = NewLogger(n)]
           /\ new' = [new EXCEPT ![t] = l]
    /\ walk' = [walk EXCEPT ![t] = NoWalk]
    /\ Goto(t, "idle")
    /\ UNCHANGED <<folders, denied, config, instance, loggers_, mtx_, arg,
                   handle, dying, calls>>

-----------------------------------------------------------------------------
(* A call to Manager                                                        *)

Asks(t, op, name) == arg' = [arg EXCEPT ![t] = [op |-> op, name |-> name]]

Call(t) ==
    /\ pc[t] = "idle" /\ calls < MaxCalls
    /\ \/ /\ new[t] # NoLogger
          /\ Asks(t, "addLogger", loggers[new[t]].name)
       \/ \E n \in Names : Asks(t, "exist", n)
       \/ /\ handle[t] = NoLogger
          /\ \/ \E n \in Names : Asks(t, "getLogger", n)
             \/ Asks(t, "getDefaultLogger", "none")
    /\ calls' = calls + 1
    /\ Goto(t, "instance")
    /\ UNCHANGED <<folderVars, config, instance, loggers_, mtx_, new, handle,
                   dying, loggers>>

\* The first caller constructs, the others wait.
getInstance(t) ==
    /\ pc[t] = "instance" /\ instance # "building"
    /\ IF instance = "none"
         THEN instance' = "building" /\ Goto(t, "construct")
         ELSE UNCHANGED instance /\ Goto(t, "call")
    /\ UNCHANGED <<folderVars, config, loggers_, mtx_, arg, new, handle, dying,
                   loggers, calls>>

Construct(t) ==
    /\ pc[t] = "construct" /\ config # "mistyped"
    /\ loggers' = [loggers EXCEPT ![DefaultLogger] = NewLogger("default")]
    /\ instance' = "built"
    /\ Goto(t, "call")
    /\ UNCHANGED <<folderVars, config, loggers_, mtx_, arg, new, handle, dying,
                   calls>>

getDefaultLogger(t) ==
    /\ pc[t] = "call" /\ arg[t].op = "getDefaultLogger"
    /\ handle' = [handle EXCEPT ![t] = DefaultLogger]
    /\ arg' = [arg EXCEPT ![t] = NoArg]
    /\ Goto(t, "idle")
    /\ UNCHANGED <<folderVars, config, instance, loggers_, mtx_, new, dying,
                   loggers, calls>>

Lock(t) ==
    /\ pc[t] = "call" /\ arg[t].op # "getDefaultLogger"
    /\ mtx_ = NoThread
    /\ mtx_' = t
    /\ Goto(t, "locked")
    /\ UNCHANGED <<folderVars, config, instance, loggers_, arg, new, handle,
                   dying, loggers, calls>>

\* Faulty variant of isReferenced: what callers hold is not counted.
isReferencedByManager(l) ==
    (instance = "built" /\ l = DefaultLogger) \/ \E n \in Names : loggers_[n] = l

isReferenced(l) ==
    \/ instance = "built" /\ l = DefaultLogger
    \/ \E n \in Names : loggers_[n] = l
    \/ \E t \in Threads : l \in {new[t], handle[t]}

\* A reference is gone: to destroy what it led to when it was the last, or on.
LetGo(t, logger, next) ==
    \E l \in {logger} :
        IF l # NoLogger /\ ~isReferenced(l)'
          THEN dying' = [dying EXCEPT ![t] = l] /\ Goto(t, "destroy")
          ELSE UNCHANGED dying /\ Goto(t, next)

addLogger(t) ==
    /\ pc[t] = "locked" /\ arg[t].op = "addLogger"
    /\ loggers_' = [loggers_ EXCEPT ![arg[t].name] = new[t]]
    /\ UNCHANGED <<new, handle, instance>>
    /\ LetGo(t, loggers_[arg[t].name], "unlock")
    /\ UNCHANGED <<folderVars, config, mtx_, arg, loggers, calls>>

exist(t) ==
    /\ pc[t] = "locked" /\ arg[t].op = "exist"
    /\ Goto(t, "unlock")
    /\ UNCHANGED <<folderVars, config, instance, loggers_, mtx_, arg, new,
                   handle, dying, loggers, calls>>

getLogger(t) ==
    /\ pc[t] = "locked" /\ arg[t].op = "getLogger"
    /\ handle' = [handle EXCEPT ![t] = loggers_[arg[t].name]]
    /\ Goto(t, "unlock")
    /\ UNCHANGED <<folderVars, config, instance, loggers_, mtx_, arg, new,
                   dying, loggers, calls>>

\* Faulty variant of Unlock: on the way that finds nothing it is forgotten.
UnlockForgotten(t) ==
    /\ pc[t] = "unlock"
    /\ mtx_' = IF arg[t].op = "getLogger" /\ handle[t] = NoLogger THEN mtx_ ELSE NoThread
    /\ Goto(t, IF arg[t].op = "addLogger" THEN "leave" ELSE "idle")
    /\ arg' = [arg EXCEPT ![t] = NoArg]
    /\ UNCHANGED <<folderVars, config, instance, loggers_, new, handle, dying,
                   loggers, calls>>

Unlock(t) ==
    /\ pc[t] = "unlock"
    /\ mtx_' = NoThread
    /\ Goto(t, IF arg[t].op = "addLogger" THEN "leave" ELSE "idle")
    /\ arg' = [arg EXCEPT ![t] = NoArg]
    /\ UNCHANGED <<folderVars, config, instance, loggers_, new, handle, dying,
                   loggers, calls>>

\* The argument of addLogger, a shared_ptr of its own, ends after mtx_ is free.
Leave(t) ==
    /\ pc[t] = "leave"
    /\ new' = [new EXCEPT ![t] = NoLogger]
    /\ UNCHANGED <<loggers_, handle, instance>>
    /\ LetGo(t, new[t], "idle")
    /\ UNCHANGED <<folderVars, config, mtx_, arg, loggers, calls>>

-----------------------------------------------------------------------------
(* A logger in use                                                          *)

\* A buffer of size 0 is doubled for ever; a growth of 0 is divided by, when the
\* message does not fit.
Log(t) ==
    LET l == handle[t]
    IN  /\ pc[t] = "idle" /\ l # NoLogger /\ loggers[l].accepted < MaxMessages
        /\ IF config = "noBufferSize"
             THEN Goto(t, "hung") /\ UNCHANGED loggers
             ELSE UNCHANGED pc /\ loggers' = [loggers EXCEPT ![l].accepted = @ + 1]
        /\ UNCHANGED <<folderVars, config, instance, loggers_, mtx_, arg, new,
                       handle, dying, calls>>

LogDivides(t) ==
    /\ pc[t] = "idle" /\ handle[t] # NoLogger /\ config = "noLinearGrowth"
    /\ ProcessEnds

Drop(t) ==
    /\ pc[t] = "idle" /\ handle[t] # NoLogger
    /\ handle' = [handle EXCEPT ![t] = NoLogger]
    /\ UNCHANGED <<loggers_, new, instance>>
    /\ LetGo(t, handle[t], "idle")
    /\ UNCHANGED <<folderVars, config, mtx_, arg, loggers, calls>>

WriteBatch(l) ==
    /\ loggers[l].state = "running" /\ loggers[l].written < loggers[l].accepted
    /\ loggers' = [loggers EXCEPT ![l].written = loggers[l].accepted]
    /\ UNCHANGED <<folderVars, config, instance, loggers_, mtx_, pc, arg, new,
                   handle, dying, calls>>

\* ~AsyncLogger returns.
Destroyed(t) ==
    LET l == dying[t]
    IN  /\ pc[t] = "destroy"
        /\ loggers' = [loggers EXCEPT ![l].state = "gone",
                                      ![l].written = loggers[l].accepted]
        /\ dying' = [dying EXCEPT ![t] = NoLogger]
        /\ Goto(t, IF mtx_ = t THEN "unlock" ELSE "idle")
        /\ UNCHANGED <<folderVars, config, instance, loggers_, mtx_, arg, new,
                       handle, calls>>

-----------------------------------------------------------------------------

\* What a thread does on its own, once in a call.
CallNext(t) ==
    \/ MakeFolders(t) \/ build(t)
    \/ getInstance(t) \/ Construct(t) \/ getDefaultLogger(t)
    \/ addLogger(t) \/ exist(t) \/ getLogger(t) \/ Unlock(t) \/ Leave(t)
    \/ Destroyed(t)
    \/ pc[t] = "construct" /\ LoadConfigThrows(t)

ThreadNext(t) ==
    \/ CallNext(t) \/ Lock(t)
    \/ BuildBegins(t) \/ LoadConfigThrows(t) \/ Call(t)
    \/ Log(t) \/ LogDivides(t) \/ Drop(t)

Next ==
    \/ \E t \in Threads : ThreadNext(t)
    \/ \E l \in Loggers \cup {DefaultLogger} : WriteBatch(l)

Spec == Init /\ [][Next]_vars

FairSpec ==
    /\ Spec
    /\ \A t \in Threads :
           WF_vars(CallNext(t)) /\ SF_vars(Lock(t))

-----------------------------------------------------------------------------

\* Types; who is where with which lock, folder and logger.
TypeOK ==
    /\ walk \in [Threads -> [at : {"none", "walk", "mkdir", "open", "opened"},
                             path : Paths \cup {<<>>}, index : Nat, file : BOOLEAN]]
    /\ instance \in {"none", "building", "built"}
    /\ loggers_ \in [Names -> Loggers \cup {NoLogger}]
    /\ mtx_ \in Threads \cup {NoThread}
    /\ pc \in [Threads -> {"idle", "sink", "build", "instance", "construct", "call",
                           "locked", "unlock", "leave", "destroy", "hung", "ended"}]
    /\ arg \in [Threads -> [op : {"none", "addLogger", "exist", "getLogger",
                                  "getDefaultLogger"},
                            name : Names \cup {"none"}]]
    /\ new \in [Threads -> Loggers \cup {NoLogger}]
    /\ handle \in [Threads -> Loggers \cup {DefaultLogger, NoLogger}]
    /\ dying \in [Threads -> Loggers \cup {DefaultLogger, NoLogger}]
    /\ \A t \in Threads :
           /\ pc[t] \in {"locked", "unlock"} => mtx_ = t
           /\ pc[t] = "destroy" <=> dying[t] # NoLogger
           /\ pc[t] = "sink" <=> walk[t].at # "none"
    /\ mtx_ # NoThread => pc[mtx_] \in {"locked", "unlock", "destroy"}
    /\ loggers \in [Loggers \cup {DefaultLogger} ->
                       [state : {"none", "running", "gone"}, name : Names \cup {"default", "none"},
                        accepted : 0..MaxMessages, written : 0..MaxMessages]]
    /\ \A l \in Loggers \cup {DefaultLogger} : loggers[l].written <= loggers[l].accepted
    /\ calls \in 0..MaxCalls

\* A logger runs exactly as long as a name, a caller or a call leads to it, or
\* somebody waits for its end, which is one thread: nobody is left with a logger
\* that is gone, no logger is left that nobody can reach, and one that is gone
\* has written all it accepted.  Under its name Manager has a logger of that name.
LoggersLiveWhileHeld ==
    /\ \A l \in Loggers \cup {DefaultLogger} :
           /\ loggers[l].state = "running" <=>
                  isReferenced(l) \/ \E t \in Threads : dying[t] = l
           /\ loggers[l].state = "gone" => loggers[l].written = loggers[l].accepted
           /\ \A t, u \in Threads : dying[t] = l /\ dying[u] = l => t = u
    /\ \A n \in Names : loggers_[n] # NoLogger => loggers[loggers_[n]].name = n

\* Every call returns, addLogger's, which may have a logger to destroy under the
\* mutex, and those that wait for it; unless the process ends, or the buffers are
\* configured to have no size.
CallsReturn ==
    config # "noBufferSize" =>
        \A t \in Threads : pc[t] # "idle" ~> pc[t] \in {"idle", "ended"}

=============================================================================
