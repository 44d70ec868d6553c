--------------------------- MODULE ManagerProofs ---------------------------
(***************************************************************************)
(* Manager: types and the discipline of its mutex, that a logger lives     *)
(* exactly as long as something leads to it, and that a sink finds the     *)
(* folder it has made, for any threads, names, loggers, paths and number   *)
(* of calls.                                                               *)
(***************************************************************************)
EXTENDS Manager, SequenceTheorems, WellFoundedInduction, TLAPS

AllLoggers == Loggers \cup {DefaultLogger}

Walks == [at : {"none", "walk", "mkdir", "open", "opened"},
          path : Paths \cup {<<>>}, index : Nat, file : BOOLEAN]

Entries ==
    [state : {"none", "running", "gone"}, name : Names \cup {"default", "none"},
     accepted : 0..MaxMessages, written : 0..MaxMessages]

\* Why a thread may do what it does next: its call is well-formed and what it
\* would overwrite is empty; one thread constructs, and only once.
CallsAreSound ==
    /\ \A t \in Threads :
           /\ pc[t] \in {"sink", "build"} => new[t] = NoLogger
           /\ pc[t] \in {"instance", "construct", "call", "locked"} =>
                  /\ arg[t].op = "addLogger" =>
                         new[t] # NoLogger /\ arg[t].name = loggers[new[t]].name
                  /\ arg[t].op \in {"exist", "getLogger"} => arg[t].name \in Names
                  /\ arg[t].op \in {"getLogger", "getDefaultLogger"} =>
                         handle[t] = NoLogger
           /\ pc[t] = "construct" => instance = "building"
           /\ pc[t] = "call" => instance = "built"
    /\ \A t, u \in Threads : pc[t] = "construct" /\ pc[u] = "construct" => t = u
    /\ instance # "built" => loggers[DefaultLogger].state = "none"
    /\ \A l \in Loggers : loggers[l].state = "running" => loggers[l].name \in Names

\* What is being destroyed cannot be reached any more.
DyingIsUnreachable ==
    \A t \in Threads : dying[t] # NoLogger => ~isReferenced(dying[t])

IInv == TypeOK /\ CallsAreSound /\ LoggersLiveWhileHeld /\ DyingIsUnreachable

-----------------------------------------------------------------------------
(* The steps of the walk through the folders                                *)

LEMMA FolderStep ==
    ASSUME walk \in [Threads -> Walks], NEW t \in Threads, FolderNext(t)
    PROVE  /\ walk' \in [Threads -> Walks]
           /\ \A u \in Threads : walk'[u].at # "none" <=> walk[u].at # "none"
<1>1. CASE Pass(t)
  BY <1>1 DEF Pass, Walks
<1>2. CASE FindMissing(t)
  BY <1>2 DEF FindMissing, Walks
<1>3. CASE Mkdir(t)
  BY <1>3 DEF Mkdir, Walks
<1>4. CASE MkdirDenied(t)
  BY <1>4 DEF MkdirDenied, Walks
<1>5. CASE WalkEnds(t)
  BY <1>5 DEF WalkEnds, Walks
<1>6. CASE Open(t)
  <2> DEFINE found == resolved(walk[t].path) # Nowhere
             w == [walk[t] EXCEPT !.at = "opened", !.file = found]
  <2>1. found \in BOOLEAN
    OBVIOUS
  <2>2. walk' = [walk EXCEPT ![t] = w]
    BY <1>6 DEF Open
  <2> HIDE DEF found
  <2>3. w \in Walks /\ w.at = "opened"
    BY <2>1 DEF Walks
  <2>4. walk[t].at = "open"
    BY <1>6 DEF Open
  <2> HIDE DEF w
  <2> QED
    BY <2>2, <2>3, <2>4
<1> QED
  BY <1>1, <1>2, <1>3, <1>4, <1>5, <1>6 DEF FolderNext

LEMMA WalkBegins ==
    ASSUME walk \in [Threads -> Walks], NEW t \in Threads, NEW path \in Paths,
           CreateDirectory(t, path)
    PROVE  /\ walk' \in [Threads -> Walks]
           /\ walk'[t].at # "none"
           /\ \A u \in Threads \ {t} : walk'[u] = walk[u]
BY DEF CreateDirectory, Walks

LEMMA WalkIsOver ==
    ASSUME walk \in [Threads -> Walks], NEW t \in Threads,
           walk' = [walk EXCEPT ![t] = NoWalk]
    PROVE  /\ walk' \in [Threads -> Walks]
           /\ walk'[t].at = "none"
           /\ \A u \in Threads \ {t} : walk'[u] = walk[u]
BY DEF NoWalk, Walks

-----------------------------------------------------------------------------
(* Letting go of a reference                                                *)

LEMMA LetsGo ==
    ASSUME ManagerAssumption, TypeOK, NEW t \in Threads,
           NEW x \in Loggers \cup {DefaultLogger, NoLogger}, NEW next,
           LetGo(t, x, next)
    PROVE  \/ /\ x # NoLogger /\ ~isReferenced(x)'
              /\ dying' = [dying EXCEPT ![t] = x] /\ pc' = [pc EXCEPT ![t] = "destroy"]
           \/ /\ x = NoLogger \/ isReferenced(x)'
              /\ dying' = dying /\ pc' = [pc EXCEPT ![t] = next]
BY DEF LetGo, Goto

\* When the references that are left are those there were, but perhaps for x.
LEMMA LiveAfterLetGo ==
    ASSUME ManagerAssumption, TypeOK, LoggersLiveWhileHeld, DyingIsUnreachable,
           NEW t \in Threads, dying[t] = NoLogger,
           NEW x \in Loggers \cup {DefaultLogger, NoLogger}, NEW next,
           LetGo(t, x, next), loggers' = loggers,
           x # NoLogger => isReferenced(x),
           \A l \in AllLoggers : isReferenced(l)' => isReferenced(l),
           \A l \in AllLoggers \ {x} : isReferenced(l) => isReferenced(l)',
           \A n \in Names : loggers_'[n] # NoLogger => loggers[loggers_'[n]].name = n
    PROVE  (LoggersLiveWhileHeld /\ DyingIsUnreachable)'
<1>1. /\ dying \in [Threads -> AllLoggers \cup {NoLogger}]
      /\ \A l \in AllLoggers : l # NoLogger
  BY DEF TypeOK, AllLoggers, ManagerAssumption
<1>2. \A l \in AllLoggers :
         /\ loggers[l].state = "running" <=>
                isReferenced(l) \/ \E u \in Threads : dying[u] = l
         /\ loggers[l].state = "gone" => loggers[l].written = loggers[l].accepted
         /\ \A u, v \in Threads : dying[u] = l /\ dying[v] = l => u = v
  BY DEF LoggersLiveWhileHeld, AllLoggers
<1>3. CASE /\ x # NoLogger /\ ~isReferenced(x)'
           /\ dying' = [dying EXCEPT ![t] = x]
  <2>1. x \in AllLoggers /\ \A u \in Threads : dying[u] # x
    BY <1>3 DEF AllLoggers, DyingIsUnreachable
  <2>2. \A u \in Threads : dying'[u] = IF u = t THEN x ELSE dying[u]
    BY <1>1, <1>3
  <2>3. DyingIsUnreachable'
    BY <1>1, <1>3, <2>2 DEF DyingIsUnreachable
  <2>4. ASSUME NEW l \in AllLoggers
        PROVE  /\ loggers[l].state = "running" <=>
                      isReferenced(l)' \/ \E u \in Threads : dying'[u] = l
               /\ loggers[l].state = "gone" => loggers[l].written = loggers[l].accepted
               /\ \A u, v \in Threads : dying'[u] = l /\ dying'[v] = l => u = v
    <3>1. CASE l = x
      BY <1>2, <2>1, <2>2, <2>4, <3>1
    <3>2. CASE l # x
      <4>1. \A u \in Threads : dying'[u] = l <=> dying[u] = l
        BY <1>1, <2>2, <2>4, <3>2
      <4> QED
        BY <1>2, <2>4, <3>2, <4>1
    <3> QED
      BY <3>1, <3>2
  <2> QED
    BY <2>3, <2>4 DEF LoggersLiveWhileHeld, AllLoggers
<1>4. CASE (x = NoLogger \/ isReferenced(x)') /\ dying' = dying
  <2>1. \A l \in AllLoggers : isReferenced(l)' <=> isReferenced(l)
    BY <1>1, <1>4
  <2>2. DyingIsUnreachable'
    BY <1>1, <1>4, <2>1 DEF DyingIsUnreachable
  <2>3. \A l \in AllLoggers :
         /\ loggers[l].state = "running" <=>
                isReferenced(l)' \/ \E u \in Threads : dying'[u] = l
         /\ loggers[l].state = "gone" => loggers[l].written = loggers[l].accepted
         /\ \A u, v \in Threads : dying'[u] = l /\ dying'[v] = l => u = v
    BY <1>2, <1>4, <2>1
  <2> QED
    BY <2>2, <2>3 DEF LoggersLiveWhileHeld, AllLoggers
<1> QED
  BY <1>3, <1>4, LetsGo

-----------------------------------------------------------------------------
(* Types                                                                    *)

LEMMA TypeInit ==
    ASSUME ManagerAssumption, Init
    PROVE  TypeOK
BY DEF Init, TypeOK, FolderInit, NoWalk, NoArg, NoLoggerYet, ManagerAssumption

\* All but what is said of each thread.
Typed ==
    /\ walk \in [Threads -> Walks]
    /\ instance \in {"none", "building", "built"}
    /\ loggers_ \in [Names -> Loggers \cup {NoLogger}]
    /\ mtx_ \in Threads \cup {NoThread}
    /\ pc \in [Threads -> {"idle", "sink", "build", "instance", "construct", "call",
                           "locked", "unlock", "leave", "destroy", "hung", "ended"}]
    /\ arg \in [Threads -> [op : {"none", "addLogger", "exist", "getLogger",
                                  "getDefaultLogger"},
                            name : Names \cup {"none"}]]
    /\ new \in [Threads -> Loggers \cup {NoLogger}]
    /\ handle \in [Threads -> AllLoggers \cup {NoLogger}]
    /\ dying \in [Threads -> AllLoggers \cup {NoLogger}]
    /\ loggers \in [AllLoggers -> Entries]
    /\ \A l \in AllLoggers : loggers[l].written <= loggers[l].accepted
    /\ calls \in 0..MaxCalls

Placed ==
    /\ \A t \in Threads :
           /\ pc[t] \in {"locked", "unlock"} => mtx_ = t
           /\ pc[t] = "destroy" <=> dying[t] # NoLogger
           /\ pc[t] = "sink" <=> walk[t].at # "none"
    /\ mtx_ # NoThread => pc[mtx_] \in {"locked", "unlock", "destroy"}

LEMMA TypeIs == TypeOK <=> Typed /\ Placed
BY DEF TypeOK, Typed, Placed, Walks, Entries, AllLoggers

LEMMA ProcessEndsTyped ==
    ASSUME ManagerAssumption, TypeOK, ProcessEnds
    PROVE  TypeOK'
<1> DEFINE Gone == [l \in AllLoggers |-> NoLoggerYet]
<1>1. Typed /\ Placed
  BY TypeIs
<1>2. NoWalk \in Walks /\ NoWalk.at = "none"
  BY DEF NoWalk, Walks
<1>3. NoLoggerYet \in Entries /\ NoLoggerYet.written <= NoLoggerYet.accepted
  BY ManagerAssumption DEF NoLoggerYet, Entries
<1>4. loggers' = Gone
  BY DEF ProcessEnds, AllLoggers
<1>5. loggers' \in [AllLoggers -> Entries]
      /\ \A l \in AllLoggers : loggers'[l].written <= loggers'[l].accepted
  BY <1>3, <1>4
<1>6. Typed'
  BY <1>1, <1>2, <1>5 DEF ProcessEnds, Typed, NoArg
<1>7. Placed'
  BY <1>2, ManagerAssumption DEF ProcessEnds, Placed
<1> QED
  BY <1>6, <1>7, TypeIs, SMTT(40) DEF TypeOK, Typed, Placed, Walks, Entries, AllLoggers

\* One logger's entry changes.
LEMMA EntryStep ==
    ASSUME Typed, NEW l \in AllLoggers, NEW entry \in Entries,
           entry.written <= entry.accepted, loggers' = [loggers EXCEPT ![l] = entry]
    PROVE  /\ loggers' \in [AllLoggers -> Entries]
           /\ \A k \in AllLoggers : loggers'[k].written <= loggers'[k].accepted
BY DEF Typed

LEMMA EntryEnds ==
    ASSUME ManagerAssumption, NEW e \in Entries
    PROVE  /\ [e EXCEPT !.state = "gone", !.written = e.accepted] \in Entries
           /\ [e EXCEPT !.state = "gone", !.written = e.accepted].state = "gone"
           /\ [e EXCEPT !.state = "gone", !.written = e.accepted].written = e.accepted
           /\ [e EXCEPT !.state = "gone", !.written = e.accepted].accepted = e.accepted
           /\ e.accepted \in Nat
<1>1. [e EXCEPT !.state = "gone", !.written = e.accepted] \in Entries
  BY ManagerAssumption DEF Entries
<1>2. [e EXCEPT !.state = "gone", !.written = e.accepted].written = e.accepted
  BY DEF Entries
<1>3. [e EXCEPT !.state = "gone", !.written = e.accepted].accepted = e.accepted
  BY DEF Entries
<1>4. [e EXCEPT !.state = "gone", !.written = e.accepted].state = "gone"
  BY DEF Entries
<1>5. e.accepted \in Nat
  BY ManagerAssumption DEF Entries
<1> QED
  BY <1>1, <1>2, <1>3, <1>4, <1>5

\* What a thread has built has a name, and addLogger puts it under its name.
LEMMA NewHasName ==
    ASSUME ManagerAssumption, IInv, NEW t \in Threads, new[t] # NoLogger
    PROVE  /\ new[t] \in Loggers /\ loggers[new[t]].name \in Names
           /\ loggers[new[t]].state = "running"
           /\ pc[t] = "locked" /\ arg[t].op = "addLogger" =>
                  arg[t].name = loggers[new[t]].name
<1>1. new[t] \in Loggers
  BY DEF IInv, TypeOK
<1>2. loggers[new[t]].state = "running"
  BY <1>1 DEF IInv, LoggersLiveWhileHeld, isReferenced
<1> QED
  BY <1>1, <1>2 DEF IInv, CallsAreSound

LEMMA TypeStep ==
    ASSUME ManagerAssumption, IInv, [Next]_vars
    PROVE  TypeOK'
<1>1. /\ Typed /\ Placed
      /\ \A l \in AllLoggers : l # NoLogger
  BY TypeIs, ManagerAssumption DEF IInv, AllLoggers
<1>2. ASSUME NEW t \in Threads, BuildBegins(t)
      PROVE  Typed' /\ Placed'
  <2>0. \/ /\ pc' = [pc EXCEPT ![t] = "sink"]
           /\ walk' \in [Threads -> Walks] /\ walk'[t].at # "none"
           /\ \A u \in Threads \ {t} : walk'[u] = walk[u]
        \/ pc' = [pc EXCEPT ![t] = "build"] /\ walk' = walk
    BY <1>1, <1>2, WalkBegins DEF BuildBegins, Goto, Typed, folderVars
  <2>1. Typed'
    BY <1>1, <1>2, <2>0 DEF BuildBegins, Goto, Typed
  <2>2. Placed'
    BY <1>1, <1>2, <2>0 DEF BuildBegins, Goto, Typed, Placed
  <2> QED
    BY <2>1, <2>2
<1>3. ASSUME NEW t \in Threads, MakeFolders(t)
      PROVE  Typed' /\ Placed'
  <2>0. /\ walk' \in [Threads -> Walks]
        /\ \A u \in Threads : walk'[u].at # "none" <=> walk[u].at # "none"
    BY <1>1, <1>3, FolderStep DEF MakeFolders, Typed
  <2>1. Typed'
    BY <1>1, <1>3, <2>0 DEF MakeFolders, Typed
  <2>2. Placed'
    BY <1>1, <1>3, <2>0 DEF MakeFolders, Placed
  <2> QED
    BY <2>1, <2>2
<1>4. ASSUME NEW t \in Threads, build(t)
      PROVE  Typed' /\ Placed'
  <2>0. /\ walk' \in [Threads -> Walks] /\ walk'[t].at = "none"
        /\ \A u \in Threads \ {t} : walk'[u] = walk[u]
    BY <1>1, <1>4, WalkIsOver DEF build, Typed
  <2>00. \A name \in Names : /\ NewLogger(name) \in Entries
                             /\ NewLogger(name).written <= NewLogger(name).accepted
    BY ManagerAssumption DEF NewLogger, Entries
  <2>1. Typed'
    <3>1. PICK l \in Loggers, name \in Names :
             /\ loggers' = [loggers EXCEPT ![l] = NewLogger(name)]
             /\ new' = [new EXCEPT ![t] = l]
      BY <1>4 DEF build
    <3>2. /\ loggers' \in [AllLoggers -> Entries]
          /\ \A k \in AllLoggers : loggers'[k].written <= loggers'[k].accepted
      BY <1>1, <2>00, <3>1, EntryStep DEF AllLoggers
    <3> QED
      BY <1>1, <1>4, <2>0, <3>1, <3>2 DEF build, Goto, Typed
  <2>2. Placed'
    BY <1>1, <1>4, <2>0 DEF build, Goto, Typed, Placed
  <2> QED
    BY <2>1, <2>2
<1>5. ASSUME NEW t \in Threads, getInstance(t)
      PROVE  Typed' /\ Placed'
  <2>1. Typed'
    BY <1>1, <1>5, ManagerAssumption DEF getInstance, Goto, folderVars, Typed
  <2>2. Placed'
    BY <1>1, <1>5 DEF getInstance, Goto, folderVars, Typed, Placed
  <2> QED
    BY <2>1, <2>2
<1>6. ASSUME NEW t \in Threads, Construct(t)
      PROVE  Typed' /\ Placed'
  <2>1. Typed'
    BY <1>1, <1>6, ManagerAssumption
       DEF Construct, Goto, folderVars, Typed, NewLogger, Entries, AllLoggers
  <2>2. Placed'
    BY <1>1, <1>6 DEF Construct, Goto, folderVars, Typed, Placed
  <2> QED
    BY <2>1, <2>2
<1>7. ASSUME NEW t \in Threads, getDefaultLogger(t)
      PROVE  Typed' /\ Placed'
  <2>1. Typed'
    BY <1>1, <1>7, ManagerAssumption
       DEF getDefaultLogger, Goto, folderVars, Typed, NoArg, AllLoggers
  <2>2. Placed'
    BY <1>1, <1>7 DEF getDefaultLogger, Goto, folderVars, Typed, Placed
  <2> QED
    BY <2>1, <2>2
<1>8. ASSUME NEW t \in Threads, exist(t)
      PROVE  Typed' /\ Placed'
  <2>1. Typed'
    BY <1>1, <1>8, ManagerAssumption DEF exist, Goto, folderVars, Typed
  <2>2. Placed'
    BY <1>1, <1>8 DEF exist, Goto, folderVars, Typed, Placed
  <2> QED
    BY <2>1, <2>2
<1>9. ASSUME NEW t \in Threads, getLogger(t)
      PROVE  Typed' /\ Placed'
  <2>0. arg[t].name \in Names
    BY <1>9 DEF getLogger, IInv, CallsAreSound
  <2>1. Typed'
    BY <1>1, <1>9, <2>0 DEF getLogger, Goto, folderVars, Typed, AllLoggers
  <2>2. Placed'
    BY <1>1, <1>9 DEF getLogger, Goto, folderVars, Typed, Placed
  <2> QED
    BY <2>1, <2>2
<1>10. ASSUME NEW t \in Threads, Unlock(t)
      PROVE  Typed' /\ Placed'
  <2>1. Typed'
    BY <1>1, <1>10, ManagerAssumption DEF Unlock, Goto, folderVars, Typed, NoArg
  <2>2. Placed'
    BY <1>1, <1>10 DEF Unlock, Goto, folderVars, Typed, Placed
  <2> QED
    BY <2>1, <2>2
<1>11. ASSUME NEW t \in Threads, Lock(t)
      PROVE  Typed' /\ Placed'
  <2>1. Typed'
    BY <1>1, <1>11, ManagerAssumption DEF Lock, Goto, folderVars, Typed
  <2>2. Placed'
    BY <1>1, <1>11 DEF Lock, Goto, folderVars, Typed, Placed
  <2> QED
    BY <2>1, <2>2
<1>12. ASSUME NEW t \in Threads, Call(t)
      PROVE  Typed' /\ Placed'
  <2>0. new[t] # NoLogger => loggers[new[t]].name \in Names
    BY NewHasName
  <2>00. \E request \in [op : {"none", "addLogger", "exist", "getLogger", "getDefaultLogger"},
                         name : Names \cup {"none"}] : arg' = [arg EXCEPT ![t] = request]
    BY <1>1, <1>12, <2>0 DEF Call, Asks
  <2>1. Typed'
    BY <1>1, <1>12, <2>00, ManagerAssumption DEF Call, Goto, folderVars, Typed
  <2>2. Placed'
    BY <1>1, <1>12 DEF Call, Goto, folderVars, Typed, Placed
  <2> QED
    BY <2>1, <2>2
<1>13. ASSUME NEW t \in Threads, Log(t)
      PROVE  Typed' /\ Placed'
  <2>1. Typed'
    <3>1. CASE loggers' = loggers
      BY <1>1, <1>13, <3>1 DEF Log, Goto, folderVars, Typed
    <3>2. CASE loggers' # loggers
      <4> DEFINE l == handle[t]
                 entry == [loggers[l] EXCEPT !.accepted = @ + 1]
      <4>1. /\ l \in AllLoggers /\ loggers[l].accepted < MaxMessages
            /\ loggers' = [loggers EXCEPT ![l] = entry]
        BY <1>1, <1>13, <3>2 DEF Log, Typed
      <4>2. entry \in Entries /\ entry.written <= entry.accepted
        BY <1>1, <4>1, ManagerAssumption, SMTT(40) DEF Typed, Entries
      <4>3. /\ loggers' \in [AllLoggers -> Entries]
            /\ \A k \in AllLoggers : loggers'[k].written <= loggers'[k].accepted
        BY <1>1, <4>1, <4>2, EntryStep
      <4> QED
        BY <1>1, <1>13, <4>3 DEF Log, Goto, folderVars, Typed
    <3> QED
      BY <3>1, <3>2
  <2>2. Placed'
    BY <1>1, <1>13 DEF Log, Goto, folderVars, Typed, Placed
  <2> QED
    BY <2>1, <2>2
<1>14. ASSUME NEW t \in Threads, Destroyed(t)
      PROVE  Typed' /\ Placed'
  <2>1. Typed'
    <3> DEFINE l == dying[t]
               entry == [loggers[l] EXCEPT !.state = "gone", !.written = loggers[l].accepted]
    <3>1. l \in AllLoggers /\ loggers' = [loggers EXCEPT ![l] = entry]
      BY <1>1, <1>14 DEF Destroyed, Typed, Placed
    <3>2. entry \in Entries /\ entry.written <= entry.accepted
      <4>1. loggers[l] \in Entries
        BY <1>1, <3>1 DEF Typed
      <4>2. entry \in Entries /\ entry.written = entry.accepted /\ loggers[l].accepted \in Nat
            /\ entry.accepted = loggers[l].accepted
        BY <4>1, EntryEnds, ManagerAssumption, Zenon
      <4> HIDE DEF entry
      <4> QED
        BY <4>2
    <3>3. /\ loggers' \in [AllLoggers -> Entries]
          /\ \A k \in AllLoggers : loggers'[k].written <= loggers'[k].accepted
      BY <1>1, <3>1, <3>2, EntryStep
    <3> QED
      BY <1>1, <1>14, <3>3 DEF Destroyed, Goto, folderVars, Typed
  <2>2. Placed'
    BY <1>1, <1>14 DEF Destroyed, Goto, folderVars, Typed, Placed
  <2> QED
    BY <2>1, <2>2
<1>15. ASSUME NEW t \in Threads, addLogger(t)
      PROVE  Typed' /\ Placed'
  <2>0. loggers_[arg[t].name] \in Loggers \cup {DefaultLogger, NoLogger}
    <3>1. new[t] # NoLogger
      BY <1>15 DEF addLogger, IInv, CallsAreSound
    <3> QED
      BY <1>1, <1>15, <3>1, NewHasName DEF addLogger, Typed
  <2>00. \/ /\ loggers_[arg[t].name] # NoLogger
            /\ dying' = [dying EXCEPT ![t] = loggers_[arg[t].name]]
            /\ pc' = [pc EXCEPT ![t] = "destroy"]
         \/ dying' = dying /\ pc' = [pc EXCEPT ![t] = "unlock"]
    BY <2>0, <1>15, LetsGo DEF addLogger, IInv
  <2>1. Typed'
    <3>1. loggers_' \in [Names -> Loggers \cup {NoLogger}]
      BY <1>1, <1>15 DEF addLogger, Typed
    <3>2. dying' \in [Threads -> AllLoggers \cup {NoLogger}]
      BY <1>1, <2>0, <2>00 DEF Typed, AllLoggers
    <3>3. pc' \in [Threads -> {"idle", "sink", "build", "instance", "construct", "call",
                            "locked", "unlock", "leave", "destroy", "hung", "ended"}]
      BY <1>1, <2>00 DEF Typed
    <3> QED
      BY <1>1, <1>15, <3>1, <3>2, <3>3 DEF addLogger, folderVars, Typed
  <2>2. Placed'
    BY <1>1, <1>15, <2>00 DEF addLogger, folderVars, Typed, Placed
  <2> QED
    BY <2>1, <2>2
<1>16. ASSUME NEW t \in Threads, Leave(t)
      PROVE  Typed' /\ Placed'
  <2>0. new[t] \in Loggers \cup {DefaultLogger, NoLogger}
    BY <1>1, <1>16 DEF Leave, Typed, AllLoggers
  <2>00. \/ /\ new[t] # NoLogger
            /\ dying' = [dying EXCEPT ![t] = new[t]] /\ pc' = [pc EXCEPT ![t] = "destroy"]
         \/ dying' = dying /\ pc' = [pc EXCEPT ![t] = "idle"]
    BY <2>0, <1>16, LetsGo DEF Leave, IInv
  <2>1. Typed'
    BY <1>1, <1>16, <2>0, <2>00 DEF Leave, folderVars, Typed, AllLoggers
  <2>2. Placed'
    BY <1>1, <1>16, <2>00 DEF Leave, folderVars, Typed, Placed
  <2> QED
    BY <2>1, <2>2
<1>17. ASSUME NEW t \in Threads, Drop(t)
      PROVE  Typed' /\ Placed'
  <2>0. handle[t] \in Loggers \cup {DefaultLogger, NoLogger}
    BY <1>1, <1>17 DEF Drop, Typed, AllLoggers
  <2>00. \/ /\ handle[t] # NoLogger
            /\ dying' = [dying EXCEPT ![t] = handle[t]] /\ pc' = [pc EXCEPT ![t] = "destroy"]
         \/ dying' = dying /\ pc' = [pc EXCEPT ![t] = "idle"]
    BY <2>0, <1>17, LetsGo DEF Drop, IInv
  <2>1. Typed'
    BY <1>1, <1>17, <2>0, <2>00 DEF Drop, folderVars, Typed, AllLoggers
  <2>2. Placed'
    BY <1>1, <1>17, <2>00 DEF Drop, folderVars, Typed, Placed
  <2> QED
    BY <2>1, <2>2
<1>18. ASSUME NEW l \in AllLoggers, WriteBatch(l)
       PROVE  Typed' /\ Placed'
  <2>1. Placed'
    BY <1>1, <1>18 DEF WriteBatch, folderVars, Placed
  <2> DEFINE entry == [loggers[l] EXCEPT !.written = loggers[l].accepted]
  <2>2. entry \in Entries /\ entry.written <= entry.accepted
    BY <1>1, ManagerAssumption, SMTT(40) DEF Typed, Entries
  <2>3. /\ loggers' \in [AllLoggers -> Entries]
        /\ \A k \in AllLoggers : loggers'[k].written <= loggers'[k].accepted
    BY <1>1, <1>18, <2>2, EntryStep DEF WriteBatch
  <2>4. Typed'
    BY <1>1, <1>18, <2>3 DEF WriteBatch, folderVars, Typed
  <2> QED
    BY <2>1, <2>4
<1>19. CASE ProcessEnds
  BY <1>19, ProcessEndsTyped DEF IInv
<1>20. CASE UNCHANGED vars
  BY <1>20 DEF vars, folderVars, IInv, TypeOK
<1>21. Typed' /\ Placed' => TypeOK'
  BY TypeIs, PTL
<1> QED
  BY <1>2, <1>3, <1>4, <1>5, <1>6, <1>7, <1>8, <1>9, <1>10, <1>11, <1>12, <1>13, <1>14,
     <1>15, <1>16, <1>17, <1>18, <1>19, <1>20, <1>21
     DEF Next, ThreadNext, CallNext, LoadConfigThrows, LogDivides, AllLoggers

-----------------------------------------------------------------------------
(* Calls                                                                    *)

LEMMA CallsInit ==
    ASSUME ManagerAssumption, Init
    PROVE  CallsAreSound
BY DEF Init, CallsAreSound, NoArg, NoLoggerYet, ManagerAssumption

LEMMA CallsStep ==
    ASSUME ManagerAssumption, IInv, [Next]_vars
    PROVE  CallsAreSound'
<1>1. /\ Typed /\ Placed /\ CallsAreSound
      /\ \A l \in AllLoggers : l # NoLogger
  BY TypeIs, ManagerAssumption DEF IInv, AllLoggers
<1>2. ASSUME NEW t \in Threads, BuildBegins(t)
      PROVE  CallsAreSound'
  BY <1>1, <1>2 DEF BuildBegins, Goto, Typed, CallsAreSound
<1>3. ASSUME NEW t \in Threads, MakeFolders(t)
      PROVE  CallsAreSound'
  BY <1>1, <1>3 DEF MakeFolders, Goto, Typed, CallsAreSound
<1>4. ASSUME NEW t \in Threads, getInstance(t)
      PROVE  CallsAreSound'
  BY <1>1, <1>4 DEF getInstance, Goto, Typed, CallsAreSound
<1>5. ASSUME NEW t \in Threads, getDefaultLogger(t)
      PROVE  CallsAreSound'
  BY <1>1, <1>5 DEF getDefaultLogger, Goto, Typed, CallsAreSound, NoArg
<1>6. ASSUME NEW t \in Threads, exist(t)
      PROVE  CallsAreSound'
  BY <1>1, <1>6 DEF exist, Goto, Typed, CallsAreSound
<1>7. ASSUME NEW t \in Threads, getLogger(t)
      PROVE  CallsAreSound'
  BY <1>1, <1>7 DEF getLogger, Goto, Typed, CallsAreSound
<1>8. ASSUME NEW t \in Threads, Unlock(t)
      PROVE  CallsAreSound'
  BY <1>1, <1>8 DEF Unlock, Goto, Typed, CallsAreSound, NoArg
<1>9. ASSUME NEW t \in Threads, Lock(t)
      PROVE  CallsAreSound'
  BY <1>1, <1>9 DEF Lock, Goto, Typed, CallsAreSound
<1>10. ASSUME NEW t \in Threads, build(t)
       PROVE  CallsAreSound'
  <2>1. PICK l \in Loggers, name \in Names :
           /\ loggers[l].state = "none"
           /\ loggers' = [loggers EXCEPT ![l] = NewLogger(name)]
           /\ new' = [new EXCEPT ![t] = l]
    BY <1>10 DEF build
  <2>2. \A u \in Threads : new[u] # NoLogger => new[u] # l
    BY <2>1, NewHasName
  <2>3. /\ loggers'[l].state = "running" /\ loggers'[l].name = name
        /\ \A k \in AllLoggers \ {l} : loggers'[k] = loggers[k]
    BY <1>1, <2>1 DEF NewLogger, Typed, AllLoggers
  <2>4. l # DefaultLogger /\ DefaultLogger \in AllLoggers
    BY ManagerAssumption DEF AllLoggers
  <2> QED
    BY <1>1, <1>10, <2>1, <2>2, <2>3, <2>4 DEF build, Goto, Typed, CallsAreSound, AllLoggers
<1>11. ASSUME NEW t \in Threads, Construct(t)
       PROVE  CallsAreSound'
  <2>1. \A l \in Loggers : loggers'[l] = loggers[l]
    BY <1>1, <1>11, ManagerAssumption DEF Construct, Typed, AllLoggers
  <2> QED
    BY <1>1, <1>11, <2>1 DEF Construct, Goto, Typed, CallsAreSound
<1>12. ASSUME NEW t \in Threads, Call(t)
       PROVE  CallsAreSound'
  <2>1. \E op, name :
           /\ arg' = [arg EXCEPT ![t] = [op |-> op, name |-> name]]
           /\ op = "addLogger" => new[t] # NoLogger /\ name = loggers[new[t]].name
           /\ op \in {"exist", "getLogger"} => name \in Names
           /\ op \in {"getLogger", "getDefaultLogger"} => handle[t] = NoLogger
    BY <1>12 DEF Call, Asks
  <2> QED
    BY <1>1, <1>12, <2>1 DEF Call, Goto, Typed, CallsAreSound
<1>13. ASSUME NEW t \in Threads, addLogger(t)
       PROVE  CallsAreSound'
  <2>1. pc' = [pc EXCEPT ![t] = "destroy"] \/ pc' = [pc EXCEPT ![t] = "unlock"]
    BY <1>13 DEF addLogger, LetGo, Goto
  <2> QED
    BY <1>1, <1>13, <2>1 DEF addLogger, Typed, CallsAreSound
<1>14. ASSUME NEW t \in Threads, Leave(t)
       PROVE  CallsAreSound'
  <2>1. pc' = [pc EXCEPT ![t] = "destroy"] \/ pc' = [pc EXCEPT ![t] = "idle"]
    BY <1>14 DEF Leave, LetGo, Goto
  <2> QED
    BY <1>1, <1>14, <2>1 DEF Leave, Typed, CallsAreSound
<1>15. ASSUME NEW t \in Threads, Drop(t)
       PROVE  CallsAreSound'
  <2>1. pc' = [pc EXCEPT ![t] = "destroy"] \/ pc' = [pc EXCEPT ![t] = "idle"]
    BY <1>15 DEF Drop, LetGo, Goto
  <2> QED
    BY <1>1, <1>15, <2>1 DEF Drop, Typed, CallsAreSound
<1>16. ASSUME NEW t \in Threads, Log(t)
       PROVE  CallsAreSound'
  <2>1. \A k \in AllLoggers : /\ loggers'[k].name = loggers[k].name
                              /\ loggers'[k].state = loggers[k].state
    BY <1>1, <1>16 DEF Log, Typed, Entries
  <2> QED
    BY <1>1, <1>16, <2>1, SMTT(40) DEF Log, Goto, Typed, CallsAreSound, AllLoggers
<1>17. ASSUME NEW l \in AllLoggers, WriteBatch(l)
       PROVE  CallsAreSound'
  <2>1. \A k \in AllLoggers : /\ loggers'[k].name = loggers[k].name
                              /\ loggers'[k].state = loggers[k].state
    BY <1>1, <1>17 DEF WriteBatch, Typed, Entries
  <2> QED
    BY <1>1, <1>17, <2>1 DEF WriteBatch, Goto, Typed, CallsAreSound, AllLoggers
<1>18. ASSUME NEW t \in Threads, Destroyed(t)
       PROVE  CallsAreSound'
  <2>1. \A k \in AllLoggers : /\ loggers'[k].name = loggers[k].name
                              /\ loggers'[k].state \in {loggers[k].state, "gone"}
    BY <1>1, <1>18 DEF Destroyed, Typed, Entries
  <2>2. dying[t] \in AllLoggers /\ loggers[dying[t]].state = "running"
    BY <1>1, <1>18 DEF Destroyed, Typed, Placed, IInv, LoggersLiveWhileHeld, AllLoggers
  <2>3. \A k \in AllLoggers \ {dying[t]} : loggers'[k] = loggers[k]
    BY <1>1, <1>18 DEF Destroyed, Typed
  <2> QED
    BY <1>1, <1>18, <2>1, <2>2, <2>3 DEF Destroyed, Goto, Typed, CallsAreSound, AllLoggers
<1>19. CASE ProcessEnds
  BY <1>1, <1>19 DEF ProcessEnds, CallsAreSound, NoArg, NoLoggerYet
<1>20. CASE UNCHANGED vars
  BY <1>1, <1>20 DEF vars, CallsAreSound
<1> QED
  BY <1>2, <1>3, <1>4, <1>5, <1>6, <1>7, <1>8, <1>9, <1>10, <1>11,
     <1>12, <1>13, <1>14, <1>15, <1>16, <1>17, <1>18, <1>19, <1>20
     DEF Next, ThreadNext, CallNext, LoadConfigThrows, LogDivides, AllLoggers

-----------------------------------------------------------------------------
(* Loggers and what leads to them                                           *)

Live == LoggersLiveWhileHeld /\ DyingIsUnreachable

LEMMA LiveInit ==
    ASSUME ManagerAssumption, Init
    PROVE  Live
<1>1. \A l \in AllLoggers : l # NoLogger /\ ~isReferenced(l)
  BY ManagerAssumption DEF Init, isReferenced, AllLoggers
<1> QED
  BY <1>1 DEF Init, Live, LoggersLiveWhileHeld, DyingIsUnreachable, NoLoggerYet, AllLoggers

\* A step that moves no reference, and neither starts nor ends a logger.
LEMMA LiveStays ==
    ASSUME Typed, Live,
           instance' = "built" <=> instance = "built",
           UNCHANGED <<loggers_, new, handle, dying>>,
           \A l \in AllLoggers :
               /\ loggers'[l].state = loggers[l].state
               /\ loggers'[l].name = loggers[l].name
               /\ loggers[l].state = "gone" => loggers'[l] = loggers[l]
    PROVE  Live'
<1>1. \A l : isReferenced(l)' <=> isReferenced(l)
  BY DEF isReferenced
<1>2. DyingIsUnreachable'
  BY <1>1 DEF Live, DyingIsUnreachable
<1>3. \A n \in Names : loggers_[n] # NoLogger => loggers_[n] \in AllLoggers
  BY DEF Typed, AllLoggers
<1>4. LoggersLiveWhileHeld'
  BY <1>1, <1>3 DEF Live, LoggersLiveWhileHeld, AllLoggers
<1> QED
  BY <1>2, <1>4 DEF Live

\* A logger starts, and something leads to it from the start.
LEMMA LiveStarts ==
    ASSUME ManagerAssumption, Typed, Live, NEW l \in AllLoggers, NEW name,
           loggers[l].state = "none",
           loggers' = [loggers EXCEPT ![l] = NewLogger(name)],
           UNCHANGED <<loggers_, dying>>,
           isReferenced(l)',
           \A k \in AllLoggers \ {l} : isReferenced(k)' <=> isReferenced(k)
    PROVE  Live'
<1>1. /\ loggers'[l].state = "running"
      /\ \A k \in AllLoggers \ {l} : loggers'[k] = loggers[k]
  BY DEF Typed, NewLogger
<1>2. \A t \in Threads : dying[t] # l
  BY DEF Live, LoggersLiveWhileHeld, AllLoggers
<1>3. \A n \in Names : loggers_[n] # l
  BY DEF Live, LoggersLiveWhileHeld, isReferenced, AllLoggers
<1>4. \A n \in Names : loggers_[n] # NoLogger => loggers_[n] \in AllLoggers \ {l}
  BY <1>3 DEF Typed, AllLoggers
<1>5. \A t \in Threads : dying[t] # NoLogger => dying[t] \in AllLoggers \ {l}
  BY <1>2 DEF Typed
<1>6. DyingIsUnreachable'
  BY <1>5 DEF Live, DyingIsUnreachable
<1>7. LoggersLiveWhileHeld'
  BY <1>1, <1>2, <1>4 DEF Live, LoggersLiveWhileHeld, AllLoggers
<1> QED
  BY <1>6, <1>7 DEF Live

LEMMA LiveStep ==
    ASSUME ManagerAssumption, IInv, [Next]_vars
    PROVE  Live'
<1>1. /\ Typed /\ Placed /\ CallsAreSound /\ Live
      /\ \A l \in AllLoggers : l # NoLogger
  BY TypeIs, ManagerAssumption DEF IInv, Live, AllLoggers
<1>2. ASSUME NEW t \in Threads, BuildBegins(t)
      PROVE  Live'
  BY <1>1, <1>2, LiveStays DEF BuildBegins
<1>3. ASSUME NEW t \in Threads, MakeFolders(t)
      PROVE  Live'
  BY <1>1, <1>3, LiveStays DEF MakeFolders
<1>4. ASSUME NEW t \in Threads, getInstance(t)
      PROVE  Live'
  BY <1>1, <1>4, LiveStays DEF getInstance
<1>5. ASSUME NEW t \in Threads, exist(t)
      PROVE  Live'
  BY <1>1, <1>5, LiveStays DEF exist
<1>6. ASSUME NEW t \in Threads, Unlock(t)
      PROVE  Live'
  BY <1>1, <1>6, LiveStays DEF Unlock
<1>7. ASSUME NEW t \in Threads, Lock(t)
      PROVE  Live'
  BY <1>1, <1>7, LiveStays DEF Lock
<1>8. ASSUME NEW t \in Threads, Call(t)
      PROVE  Live'
  BY <1>1, <1>8, LiveStays DEF Call
<1>9. ASSUME NEW t \in Threads, build(t)
      PROVE  Live'
  <2>1. PICK l \in Loggers, name \in Names :
           /\ loggers[l].state = "none"
           /\ loggers' = [loggers EXCEPT ![l] = NewLogger(name)]
           /\ new' = [new EXCEPT ![t] = l]
    BY <1>9 DEF build
  <2>2. new[t] = NoLogger
    BY <1>1, <1>9 DEF build, CallsAreSound, Placed
  <2>3. /\ new'[t] = l
        /\ \A u \in Threads \ {t} : new'[u] = new[u]
    BY <1>1, <2>1 DEF Typed
  <2>4. isReferenced(l)'
    BY <2>3 DEF isReferenced
  <2>5. \A k \in AllLoggers \ {l} : isReferenced(k)' <=> isReferenced(k)
    BY <1>1, <1>9, <2>2, <2>3 DEF build, isReferenced
  <2> QED
    BY <1>1, <1>9, <2>1, <2>4, <2>5, LiveStarts DEF build, AllLoggers
<1>10. ASSUME NEW t \in Threads, Construct(t)
       PROVE  Live'
  <2>1. instance = "building" /\ instance' = "built"
    BY <1>1, <1>10 DEF Construct, CallsAreSound
  <2>2. loggers[DefaultLogger].state = "none"
    BY <1>1, <2>1 DEF CallsAreSound
  <2>3. isReferenced(DefaultLogger)'
    BY <2>1 DEF isReferenced
  <2>4. \A k \in AllLoggers \ {DefaultLogger} : isReferenced(k)' <=> isReferenced(k)
    BY <1>10 DEF Construct, isReferenced
  <2> QED
    BY <1>1, <1>10, <2>2, <2>3, <2>4, LiveStarts DEF Construct, AllLoggers
<1>11. ASSUME NEW t \in Threads, getDefaultLogger(t)
       PROVE  Live'
  <2>1. /\ handle[t] = NoLogger
        /\ handle' = [handle EXCEPT ![t] = DefaultLogger]
    BY <1>1, <1>11 DEF getDefaultLogger, CallsAreSound
  <2>2. /\ handle'[t] = DefaultLogger
        /\ \A u \in Threads \ {t} : handle'[u] = handle[u]
    BY <1>1, <2>1 DEF Typed
  <2>3. instance = "built"
    BY <1>1, <1>11 DEF getDefaultLogger, CallsAreSound
  <2>4. \A l \in AllLoggers : isReferenced(l)' <=> isReferenced(l)
    BY <1>1, <1>11, <2>1, <2>2, <2>3 DEF getDefaultLogger, isReferenced
  <2>5. DyingIsUnreachable'
    BY <1>1, <1>11, <2>4 DEF getDefaultLogger, Live, DyingIsUnreachable, Typed
  <2>6. LoggersLiveWhileHeld'
    BY <1>1, <1>11, <2>4 DEF getDefaultLogger, Live, LoggersLiveWhileHeld, AllLoggers
  <2> QED
    BY <2>5, <2>6 DEF Live
<1>12. ASSUME NEW t \in Threads, getLogger(t)
       PROVE  Live'
  <2>1. /\ handle[t] = NoLogger
        /\ handle' = [handle EXCEPT ![t] = loggers_[arg[t].name]]
    BY <1>1, <1>12 DEF getLogger, CallsAreSound
  <2>2. /\ handle'[t] = loggers_[arg[t].name]
        /\ \A u \in Threads \ {t} : handle'[u] = handle[u]
    BY <1>1, <2>1 DEF Typed
  <2>3. arg[t].name \in Names
    BY <1>1, <1>12 DEF getLogger, CallsAreSound
  <2>4. \A l \in AllLoggers : isReferenced(l)' <=> isReferenced(l)
    BY <1>1, <1>12, <2>1, <2>2, <2>3 DEF getLogger, isReferenced
  <2>5. DyingIsUnreachable'
    BY <1>1, <1>12, <2>4 DEF getLogger, Live, DyingIsUnreachable, Typed
  <2>6. LoggersLiveWhileHeld'
    BY <1>1, <1>12, <2>4 DEF getLogger, Live, LoggersLiveWhileHeld, AllLoggers
  <2> QED
    BY <2>5, <2>6 DEF Live
<1>13. ASSUME NEW t \in Threads, Destroyed(t)
       PROVE  Live'
  <2> DEFINE l == dying[t]
  <2>1. l \in AllLoggers /\ ~isReferenced(l)
    BY <1>1, <1>13 DEF Destroyed, Typed, Placed, Live, DyingIsUnreachable
  <2>2. \A u \in Threads \ {t} : dying[u] # l
    BY <1>1, <2>1 DEF Live, LoggersLiveWhileHeld, AllLoggers
  <2>3. /\ dying'[t] = NoLogger
        /\ \A u \in Threads \ {t} : dying'[u] = dying[u]
    BY <1>1, <1>13 DEF Destroyed, Typed
  <2>4. /\ loggers'[l].state = "gone" /\ loggers'[l].written = loggers'[l].accepted
        /\ \A k \in AllLoggers \ {l} : loggers'[k] = loggers[k]
    <3> DEFINE entry == [loggers[l] EXCEPT !.state = "gone",
                                           !.written = loggers[l].accepted]
    <3>1. loggers' = [loggers EXCEPT ![l] = entry]
      BY <1>13 DEF Destroyed
    <3>2. loggers[l] \in Entries
      BY <1>1, <2>1 DEF Typed
    <3>3. entry.state = "gone" /\ entry.written = entry.accepted
      BY <3>2, EntryEnds, ManagerAssumption, Zenon
    <3> HIDE DEF entry
    <3> QED
      BY <1>1, <2>1, <3>1, <3>3 DEF Typed
  <2>5. \A k : isReferenced(k)' <=> isReferenced(k)
    BY <1>13 DEF Destroyed, isReferenced
  <2>6. DyingIsUnreachable'
    BY <1>1, <2>3, <2>5 DEF Live, DyingIsUnreachable
  <2>7. \A n \in Names : loggers_[n] # NoLogger => loggers_[n] \in AllLoggers \ {l}
    BY <1>1, <2>1 DEF Typed, isReferenced, AllLoggers
  <2> HIDE DEF l
  <2>8. loggers_' = loggers_
    BY <1>13 DEF Destroyed
  <2>9. ASSUME NEW k \in AllLoggers
        PROVE  /\ loggers'[k].state = "running" <=>
                      isReferenced(k)' \/ \E u \in Threads : dying'[u] = k
               /\ loggers'[k].state = "gone" => loggers'[k].written = loggers'[k].accepted
               /\ \A u, v \in Threads : dying'[u] = k /\ dying'[v] = k => u = v
    <3>1. CASE k = l
      BY <1>1, <2>1, <2>2, <2>3, <2>4, <2>5, <3>1
    <3>2. CASE k # l
      <4>1. \A u \in Threads : dying'[u] = k <=> dying[u] = k
        BY <1>1, <2>3, <3>2 DEF l
      <4> QED
        BY <1>1, <2>4, <2>5, <3>2, <4>1 DEF Live, LoggersLiveWhileHeld, AllLoggers
    <3> QED
      BY <3>1, <3>2
  <2>10. \A n \in Names : loggers_'[n] # NoLogger => loggers'[loggers_'[n]].name = n
    BY <1>1, <2>4, <2>7, <2>8 DEF Live, LoggersLiveWhileHeld
  <2>11. LoggersLiveWhileHeld'
    BY <2>9, <2>10 DEF LoggersLiveWhileHeld, AllLoggers
  <2> QED
    BY <2>6, <2>11 DEF Live
<1>14. ASSUME NEW t \in Threads, addLogger(t)
       PROVE  Live'
  <2>1. new[t] # NoLogger
    BY <1>1, <1>14 DEF addLogger, CallsAreSound
  <2>2. /\ arg[t].name \in Names /\ loggers[new[t]].name = arg[t].name
    BY <1>14, <2>1, NewHasName DEF addLogger
  <2>3. /\ loggers_[arg[t].name] \in AllLoggers \cup {NoLogger}
        /\ dying[t] = NoLogger
    BY <1>1, <1>14, <2>2 DEF addLogger, Typed, Placed, AllLoggers
  <2>4. loggers_[arg[t].name] # NoLogger => isReferenced(loggers_[arg[t].name])
    BY <1>1, <1>14, <2>2 DEF isReferenced
  <2>5. \A l \in AllLoggers :
           /\ isReferenced(l)' => isReferenced(l)
           /\ l # loggers_[arg[t].name] => (isReferenced(l) => isReferenced(l)')
    BY <1>1, <1>14, <2>1, <2>2 DEF addLogger, isReferenced, Typed
  <2>6. \A n \in Names : loggers_'[n] # NoLogger => loggers[loggers_'[n]].name = n
    BY <1>1, <1>14, <2>1, <2>2 DEF addLogger, Typed, Live, LoggersLiveWhileHeld
  <2> QED
    BY <1>1, <1>14, <2>3, <2>4, <2>5, <2>6, LiveAfterLetGo
       DEF addLogger, IInv, Live, AllLoggers
<1>15. ASSUME NEW t \in Threads, Leave(t)
       PROVE  Live'
  <2>3. /\ new[t] \in AllLoggers \cup {NoLogger}
        /\ dying[t] = NoLogger
    BY <1>1, <1>15 DEF Leave, Typed, Placed, AllLoggers
  <2>4. new[t] # NoLogger => isReferenced(new[t])
    BY <1>1, <1>15 DEF isReferenced
  <2>5. \A l \in AllLoggers :
           /\ isReferenced(l)' => isReferenced(l)
           /\ l # new[t] => (isReferenced(l) => isReferenced(l)')
    BY <1>1, <1>15 DEF Leave, isReferenced, Typed
  <2>6. \A n \in Names : loggers_'[n] # NoLogger => loggers[loggers_'[n]].name = n
    BY <1>1, <1>15 DEF Leave, Typed, Live, LoggersLiveWhileHeld
  <2> QED
    BY <1>1, <1>15, <2>3, <2>4, <2>5, <2>6, LiveAfterLetGo
       DEF Leave, IInv, Live, AllLoggers
<1>16. ASSUME NEW t \in Threads, Drop(t)
       PROVE  Live'
  <2>3. /\ handle[t] \in AllLoggers \cup {NoLogger}
        /\ dying[t] = NoLogger
    BY <1>1, <1>16 DEF Drop, Typed, Placed, AllLoggers
  <2>4. handle[t] # NoLogger => isReferenced(handle[t])
    BY <1>1, <1>16 DEF isReferenced
  <2>5. \A l \in AllLoggers :
           /\ isReferenced(l)' => isReferenced(l)
           /\ l # handle[t] => (isReferenced(l) => isReferenced(l)')
    BY <1>1, <1>16 DEF Drop, isReferenced, Typed
  <2>6. \A n \in Names : loggers_'[n] # NoLogger => loggers[loggers_'[n]].name = n
    BY <1>1, <1>16 DEF Drop, Typed, Live, LoggersLiveWhileHeld
  <2> QED
    BY <1>1, <1>16, <2>3, <2>4, <2>5, <2>6, LiveAfterLetGo
       DEF Drop, IInv, Live, AllLoggers
<1>17. ASSUME NEW t \in Threads, Log(t)
       PROVE  Live'
  <2>1. handle[t] \in AllLoggers /\ loggers[handle[t]].state = "running"
    BY <1>1, <1>17 DEF Log, Typed, Live, LoggersLiveWhileHeld, isReferenced, AllLoggers
  <2>2. \A k \in AllLoggers : /\ loggers'[k].name = loggers[k].name
                              /\ loggers'[k].state = loggers[k].state
                              /\ k # handle[t] => loggers'[k] = loggers[k]
    BY <1>1, <1>17 DEF Log, Typed, Entries
  <2> QED
    BY <1>1, <1>17, <2>1, <2>2, LiveStays DEF Log
<1>18. ASSUME NEW l \in AllLoggers, WriteBatch(l)
       PROVE  Live'
  <2>1. loggers[l].state = "running"
    BY <1>18 DEF WriteBatch
  <2>2. \A k \in AllLoggers : /\ loggers'[k].name = loggers[k].name
                              /\ loggers'[k].state = loggers[k].state
                              /\ k # l => loggers'[k] = loggers[k]
    BY <1>1, <1>18 DEF WriteBatch, Typed, Entries
  <2> QED
    BY <1>1, <1>18, <2>1, <2>2, LiveStays DEF WriteBatch
<1>19. CASE ProcessEnds
  <2>1. \A l \in AllLoggers : ~isReferenced(l)'
    BY <1>1, <1>19 DEF ProcessEnds, isReferenced
  <2> QED
    BY <1>1, <1>19, <2>1
       DEF ProcessEnds, Live, LoggersLiveWhileHeld, DyingIsUnreachable, NoLoggerYet, AllLoggers
<1>20. CASE UNCHANGED vars
  BY <1>1, <1>20, LiveStays DEF vars
<1> QED
  BY <1>2, <1>3, <1>4, <1>5, <1>6, <1>7, <1>8, <1>9, <1>10, <1>11,
     <1>12, <1>13, <1>14, <1>15, <1>16, <1>17, <1>18, <1>19, <1>20
     DEF Next, ThreadNext, CallNext, LoadConfigThrows, LogDivides, AllLoggers

-----------------------------------------------------------------------------

\* All of it together holds at first and is kept by every step.
THEOREM ManagerInductive == Spec => []IInv
<1> USE ManagerAssumption
<1>1. Init => IInv
  BY TypeInit, CallsInit, LiveInit DEF IInv, Live
<1>2. IInv /\ [Next]_vars => IInv'
  BY TypeStep, CallsStep, LiveStep DEF IInv, Live
<1> QED
  BY <1>1, <1>2, PTL DEF Spec

\* Types, and who is where with which mutex, folder and logger.
THEOREM ManagerTypeOK == Spec => []TypeOK
<1>1. IInv => TypeOK
  BY DEF IInv
<1> QED
  BY <1>1, ManagerInductive, PTL

\* addLogger, getLogger and the shared_ptrs around them: a logger runs exactly as
\* long as something leads to it, and one thread ends it, with all it accepted
\* written.
THEOREM ManagerLoggersLiveWhileHeld == Spec => []LoggersLiveWhileHeld
<1>1. IInv => LoggersLiveWhileHeld
  BY DEF IInv
<1> QED
  BY <1>1, ManagerInductive, PTL

-----------------------------------------------------------------------------
(* Where a path leads: the way is walked segment by segment                 *)

\* A set of numbers with 0 and, with each, the next has them all: no number is the
\* least that it lacks.
LEMMA Induction ==
    ASSUME NEW S, 0 \in S, \A n \in Nat : n \in S => n + 1 \in S
    PROVE  Nat \subseteq S
<1> DEFINE T == Nat \ S
           R == OpToRel(<, Nat)
<1> SUFFICES ASSUME T # {} PROVE FALSE
  OBVIOUS
<1>1. \A x, y \in Nat : <<x, y>> \in R <=> x < y
  BY DEF OpToRel
<1>2. IsWellFoundedOn(R, Nat)
  BY NatLessThanWellFounded
<1>3. PICK x \in T : \A y \in T : <<y, x>> \notin R
  <2>1. T \subseteq Nat
    OBVIOUS
  <2> HIDE DEF T, R
  <2> QED
    BY <1>2, <2>1, WFMin
<1>4. x - 1 \in T /\ x - 1 < x
  OBVIOUS
<1> HIDE DEF R
<1> QED
  BY <1>1, <1>3, <1>4

\* route is well-defined: there is one place after each segment.
LEMMA RouteDefined ==
    \A path \in Seq(STRING) :
        /\ route(path)[0] = Home
        /\ \A n \in 1..Len(path) : route(path)[n] = entered(route(path)[n - 1], path[n])
<1> SUFFICES ASSUME NEW path \in Seq(STRING)
             PROVE  /\ route(path)[0] = Home
                    /\ \A n \in 1..Len(path) :
                           route(path)[n] = entered(route(path)[n - 1], path[n])
  OBVIOUS
<1> DEFINE Reached(r, k) == [n \in 0..k |-> IF n = 0 THEN Home
                                            ELSE entered(r[n - 1], path[n])]
           S == {k \in Nat : \E r : r = Reached(r, k)}
<1>1. 0 \in S
  <2>1. [n \in 0..0 |-> Home] = Reached([n \in 0..0 |-> Home], 0)
    OBVIOUS
  <2> QED
    BY <2>1
<1>2. ASSUME NEW k \in Nat, k \in S PROVE k + 1 \in S
  <2>1. PICK r : r = Reached(r, k)
    BY <1>2
  <2> DEFINE q == [n \in 0..(k + 1) |-> IF n <= k THEN r[n] ELSE entered(r[k], path[k + 1])]
  <2>2. q = Reached(q, k + 1)
    <3>1. \A n \in 0..(k + 1) :
              q[n] = IF n = 0 THEN Home ELSE entered(q[n - 1], path[n])
      <4> TAKE n \in 0..(k + 1)
      <4>1. CASE n = 0
        BY <2>1, <4>1
      <4>2. CASE n \in 1..k
        <5>1. r[n] = entered(r[n - 1], path[n])
          BY <2>1, <4>2
        <5>2. q[n] = r[n] /\ q[n - 1] = r[n - 1]
          BY <4>2
        <5> QED
          BY <5>1, <5>2, <4>2
      <4>3. CASE n = k + 1
        BY <4>3
      <4> QED
        BY <4>1, <4>2, <4>3
    <3> QED
      BY <3>1
  <2>3. \E p : p = Reached(p, k + 1)
    <3> HIDE DEF q
    <3> QED
      BY <2>2
  <2> HIDE DEF Reached
  <2> QED
    BY <2>3
<1>3. Nat \subseteq S
  <2> HIDE DEF S
  <2> QED
    BY <1>1, <1>2, Induction
<1>4. \E r : r = Reached(r, Len(path))
  <2>1. Len(path) \in S
    BY <1>3
  <2> QED
    BY <2>1
<1>5. route(path) = Reached(route(path), Len(path))
  <2>1. route(path) = CHOOSE r : r = Reached(r, Len(path))
    BY DEF route
  <2> QED
    BY <1>4, <2>1
<1>6. \A n \in 0..Len(path) :
          route(path)[n] = IF n = 0 THEN Home ELSE entered(route(path)[n - 1], path[n])
  BY <1>5
<1> QED
  BY <1>6

LEMMA RouteDefinedNext ==
    (\A path \in Seq(STRING) :
        /\ route(path)[0] = Home
        /\ \A n \in 1..Len(path) : route(path)[n] = entered(route(path)[n - 1], path[n]))'
BY RouteDefined, PTL

\* One is in a folder or nowhere.
LEMMA RouteTyped ==
    ASSUME FolderAssumption, NEW path \in Seq(STRING), NEW n \in 0..Len(path)
    PROVE  route(path)[n] \in Seq(STRING) \cup {Nowhere}
<1> DEFINE S == {k \in Nat : k <= Len(path) => route(path)[k] \in Seq(STRING) \cup {Nowhere}}
<1>1. 0 \in S
  BY RouteDefined, FolderAssumption
<1>2. ASSUME NEW k \in Nat, k \in S PROVE k + 1 \in S
  <2> SUFFICES ASSUME k + 1 <= Len(path)
               PROVE  route(path)[k + 1] \in Seq(STRING) \cup {Nowhere}
    OBVIOUS
  <2> DEFINE f == route(path)[k]
             s == path[k + 1]
  <2>1. f \in Seq(STRING) \cup {Nowhere} /\ s \in STRING
    BY <1>2
  <2>2. route(path)[k + 1] = entered(f, s)
    <3>1. k + 1 \in 1..Len(path) /\ (k + 1) - 1 = k
      OBVIOUS
    <3> QED
      BY <3>1, RouteDefined
  <2> HIDE DEF f, s
  <2>3. f \in Seq(STRING) => SubSeq(f, 1, Len(f) - 1) \in Seq(STRING)
    OBVIOUS
  <2>4. f \in Seq(STRING) => Append(f, s) \in Seq(STRING)
    BY <2>1, AppendProperties
  <2> QED
    BY <2>1, <2>2, <2>3, <2>4 DEF entered
<1> HIDE DEF S
<1>3. Nat \subseteq S
  BY <1>1, <1>2, Induction
<1> QED
  BY <1>3 DEF S

\* The beginning of a path leads where the path has led by then.
LEMMA RouteOfPrefix ==
    ASSUME NEW path \in Seq(STRING), NEW m \in 0..Len(path), NEW n \in 0..m
    PROVE  route(SubSeq(path, 1, m))[n] = route(path)[n]
<1> DEFINE p == SubSeq(path, 1, m)
           S == {k \in Nat : k <= m => route(p)[k] = route(path)[k]}
<1>0. p \in Seq(STRING) /\ Len(p) = m /\ \A i \in 1..m : p[i] = path[i]
  OBVIOUS
<1> HIDE DEF p
<1>1. 0 \in S
  BY <1>0, RouteDefined
<1>2. ASSUME NEW k \in Nat, k \in S PROVE k + 1 \in S
  <2> SUFFICES ASSUME k + 1 <= m PROVE route(p)[k + 1] = route(path)[k + 1]
    OBVIOUS
  <2>1. k + 1 \in 1..m /\ k + 1 \in 1..Len(path) /\ (k + 1) - 1 = k
    OBVIOUS
  <2>2. route(p)[k + 1] = entered(route(p)[k], p[k + 1])
    BY <1>0, <2>1, RouteDefined
  <2>3. route(path)[k + 1] = entered(route(path)[k], path[k + 1])
    BY <2>1, RouteDefined
  <2>4. route(p)[k] = route(path)[k]
    BY <1>2
  <2> QED
    BY <1>0, <2>1, <2>2, <2>3, <2>4
<1> HIDE DEF S
<1>3. Nat \subseteq S
  BY <1>1, <1>2, Induction
<1> QED
  BY <1>3 DEF S, p

\* Where there are more folders, a path that led somewhere leads there still.
LEMMA RouteStays ==
    ASSUME FolderAssumption, folders \subseteq folders',
           NEW path \in Seq(STRING), NEW n \in 0..Len(path), route(path)[n] # Nowhere
    PROVE  route(path)'[n] = route(path)[n]
<1> DEFINE S == {k \in Nat : k <= Len(path) /\ route(path)[k] # Nowhere =>
                                 route(path)'[k] = route(path)[k]}
<1>1. 0 \in S
  BY RouteDefined, RouteDefinedNext
<1>2. ASSUME NEW k \in Nat, k \in S PROVE k + 1 \in S
  <2> SUFFICES ASSUME k + 1 <= Len(path), route(path)[k + 1] # Nowhere
               PROVE  route(path)'[k + 1] = route(path)[k + 1]
    OBVIOUS
  <2>1. k + 1 \in 1..Len(path) /\ (k + 1) - 1 = k
    OBVIOUS
  <2>2. route(path)[k + 1] = entered(route(path)[k], path[k + 1])
    BY <2>1, RouteDefined
  <2>3. route(path)'[k + 1] = entered(route(path)[k], path[k + 1])'
    BY <2>1, RouteDefinedNext
  <2>4. route(path)[k] # Nowhere
    BY <2>2 DEF entered
  <2>5. route(path)'[k] = route(path)[k]
    BY <1>2, <2>4
  <2> QED
    BY <2>2, <2>3, <2>4, <2>5 DEF entered
<1> HIDE DEF S
<1>3. Nat \subseteq S
  BY <1>1, <1>2, Induction
<1> QED
  BY <1>3 DEF S

-----------------------------------------------------------------------------
(* A walk arrives                                                           *)

\* What makes a walk arrive: behind it there is a way, the segment it makes is a
\* name, and when it has ended there is the whole way.
WalkSound(w) ==
    /\ w.at \in {"walk", "mkdir"} =>
           /\ w.index \in 1..(Len(w.path) + 1)
           /\ ~denied => route(w.path)[w.index - 1] # Nowhere
    /\ w.at = "mkdir" => /\ w.index <= Len(w.path)
                         /\ w.path[w.index] \notin {"", ".", ".."}
    /\ w.at = "open" /\ ~denied /\ ~isDotted(w.path) => resolved(w.path) # Nowhere

FileFound(w) == w.at = "opened" /\ ~denied /\ ~isDotted(w.path) => w.file

FoldersTyped == folders \subseteq Seq(STRING) /\ denied \in BOOLEAN

FolderInv ==
    /\ FoldersTyped
    /\ \A t \in Threads, w \in Walks : walk[t] = w => WalkSound(w) /\ FileFound(w)

\* A path is a sequence of segments.
LEMMA PathTyped ==
    ASSUME FolderAssumption, NEW w \in Walks
    PROVE  w.path \in Seq(STRING) /\ w.index \in Nat
<1>1. Paths \cup {<<>>} \subseteq Seq(STRING)
  <2>1. <<>> \in Seq(STRING)
    OBVIOUS
  <2>2. Paths \subseteq Seq(STRING)
    BY FolderAssumption
  <2> QED
    BY <2>1, <2>2
<1>2. w.path \in Paths \cup {<<>>} /\ w.index \in Nat
  BY DEF Walks
<1> QED
  BY <1>1, <1>2

\* What others make, or are refused, leaves a walk sound.
LEMMA WalkStays ==
    ASSUME FolderAssumption, folders \subseteq folders', denied => denied',
           NEW w \in Walks, WalkSound(w), FileFound(w)
    PROVE  WalkSound(w)' /\ FileFound(w)'
<1>1. w.path \in Seq(STRING) /\ w.index \in Nat
  BY PathTyped
<1>2. ASSUME w.index \in 1..(Len(w.path) + 1), route(w.path)[w.index - 1] # Nowhere
      PROVE  route(w.path)'[w.index - 1] # Nowhere
  <2>1. w.index - 1 \in 0..Len(w.path)
    BY <1>1, <1>2
  <2> QED
    BY <1>1, <1>2, <2>1, RouteStays
<1>3. ASSUME resolved(w.path) # Nowhere PROVE resolved(w.path)' # Nowhere
  <2>1. Len(w.path) \in 0..Len(w.path)
    BY <1>1
  <2> QED
    BY <1>1, <1>3, <2>1, RouteStays DEF resolved
<1>4. isDotted(w.path)' = isDotted(w.path)
  BY DEF isDotted
<1>5. FileFound(w)'
  BY <1>4 DEF FileFound
<1>6. WalkSound(w)'
  BY <1>2, <1>3, <1>4 DEF WalkSound
<1> QED
  BY <1>5, <1>6

LEMMA FolderInitInv == ASSUME FolderAssumption, FolderInit PROVE FolderInv
<1>1. FoldersTyped
  <2>1. \A n \in 0..Len(Home) : SubSeq(Home, 1, n) \in Seq(STRING)
    BY FolderAssumption
  <2> QED
    BY <2>1 DEF FolderInit, FoldersTyped
<1>2. ASSUME NEW t \in Threads, NEW w \in Walks, walk[t] = w
      PROVE  WalkSound(w) /\ FileFound(w)
  <2>1. w.at = "none"
    BY <1>2 DEF FolderInit, NoWalk
  <2> QED
    BY <2>1 DEF WalkSound, FileFound
<1> QED
  BY <1>1, <1>2 DEF FolderInv

LEMMA CreateDirectorySound ==
    ASSUME FolderAssumption, walk \in [Threads -> Walks], FolderInv,
           NEW t \in Threads, NEW path \in Paths, CreateDirectory(t, path)
    PROVE  FolderInv'
<1>1. path \in Seq(STRING) /\ UNCHANGED <<folders, denied>>
  BY FolderAssumption DEF CreateDirectory
<1> DEFINE w == [at    |-> IF exists(path) THEN "open" ELSE "walk",
                 path  |-> path, index |-> 1, file |-> FALSE]
<1>2. walk' = [walk EXCEPT ![t] = w] /\ w \in Walks
  BY DEF CreateDirectory, Walks
<1>3. WalkSound(w) /\ FileFound(w)
  <2>1. route(path)[0] # Nowhere
    BY <1>1, RouteDefined, FolderAssumption
  <2>2. w.path = path /\ w.index = 1 /\ w.at \in {"open", "walk"}
    OBVIOUS
  <2>3. w.at = "open" => resolved(path) # Nowhere
    BY DEF exists
  <2>4. 1 \in 1..(Len(path) + 1)
    BY <1>1
  <2> HIDE DEF w
  <2>5. w.at = "walk" => w.index \in 1..(Len(w.path) + 1) /\ route(w.path)[w.index - 1] # Nowhere
    BY <2>1, <2>2, <2>4
  <2> QED
    BY <2>2, <2>3, <2>5 DEF WalkSound, FileFound
<1> HIDE DEF w
<1>4. ASSUME NEW u \in Threads, NEW v \in Walks, walk'[u] = v
      PROVE  WalkSound(v)' /\ FileFound(v)'
  <2>1. WalkSound(v) /\ FileFound(v)
    BY <1>2, <1>3, <1>4 DEF FolderInv
  <2> QED
    BY <1>1, <2>1, WalkStays
<1> QED
  BY <1>1, <1>4 DEF FolderInv, FoldersTyped

LEMMA WalkOverSound ==
    ASSUME FolderAssumption, walk \in [Threads -> Walks], FolderInv,
           NEW t \in Threads, walk' = [walk EXCEPT ![t] = NoWalk],
           UNCHANGED <<folders, denied>>
    PROVE  FolderInv'
<1>1. WalkSound(NoWalk) /\ FileFound(NoWalk)
  BY DEF NoWalk, WalkSound, FileFound
<1>2. ASSUME NEW u \in Threads, NEW v \in Walks, walk'[u] = v
      PROVE  WalkSound(v)' /\ FileFound(v)'
  <2>1. WalkSound(v) /\ FileFound(v)
    BY <1>1, <1>2 DEF FolderInv
  <2> QED
    BY <2>1, WalkStays
<1> QED
  BY <1>2 DEF FolderInv, FoldersTyped

\* A step of the walk of one thread, seen by all: there are no fewer folders, and
\* the walk itself stays sound.
LEMMA OneWalks ==
    ASSUME FolderAssumption, walk \in [Threads -> Walks], FolderInv,
           NEW t \in Threads, NEW w \in Walks, walk' = [walk EXCEPT ![t] = w],
           folders \subseteq folders', denied => denied',
           WalkSound(w)', FileFound(w)', FoldersTyped'
    PROVE  FolderInv'
<1>1. ASSUME NEW u \in Threads, NEW v \in Walks, walk'[u] = v
      PROVE  WalkSound(v)' /\ FileFound(v)'
  <2>1. CASE u = t
    <3>1. v = w
      BY <1>1, <2>1
    <3> QED
      BY <3>1
  <2>2. CASE u # t
    <3>1. WalkSound(v) /\ FileFound(v)
      BY <1>1, <2>2 DEF FolderInv
    <3> QED
      BY <3>1, WalkStays
  <2> QED
    BY <2>1, <2>2
<1> QED
  BY <1>1 DEF FolderInv

\* A segment that is passed leads somewhere.
LEMMA PassSound ==
    ASSUME FolderAssumption, walk \in [Threads -> Walks], FolderInv,
           NEW t \in Threads, Pass(t)
    PROVE  FolderInv'
<1>1. PICK v \in Walks : v = walk[t]
  OBVIOUS
<1> DEFINE w == [v EXCEPT !.index = @ + 1]
           path == v.path
           i == v.index
<1>2. path \in Seq(STRING) /\ i \in Nat
  BY PathTyped
<1>3. WalkSound(v) /\ FileFound(v) /\ v.at = "walk" /\ i <= Len(path)
  BY <1>1 DEF Pass, FolderInv
<1>4. walk' = [walk EXCEPT ![t] = w] /\ UNCHANGED <<folders, denied>>
  BY <1>1 DEF Pass
<1>5. w \in Walks /\ w.at = "walk" /\ w.path = path /\ w.index = i + 1
  BY <1>3 DEF Walks
<1>6. i \in 1..Len(path) /\ (~denied => route(path)[i - 1] # Nowhere)
  BY <1>2, <1>3 DEF WalkSound
<1>7. ASSUME ~denied PROVE route(path)[i] # Nowhere
  <2> DEFINE f == route(path)[i - 1]
             segment == path[i]
  <2>1. route(path)[i] = entered(f, segment)
    BY <1>2, <1>6, RouteDefined
  <2>2. f \in Seq(STRING)
    <3>1. i - 1 \in 0..Len(path)
      BY <1>6
    <3>2. f \in Seq(STRING) \cup {Nowhere}
      BY <1>2, <3>1, RouteTyped
    <3> QED
      BY <3>2, <1>6, <1>7
  <2>3. CASE segment \in {"", ".", ".."}
    <3>1. SubSeq(f, 1, Len(f) - 1) \in Seq(STRING)
      <4> HIDE DEF f
      <4> QED
        BY <2>2
    <3> HIDE DEF f, segment
    <3> QED
      BY <2>1, <2>2, <2>3, <3>1, FolderAssumption DEF entered
  <2>4. CASE exists(sub_path(t))
    <3>1. sub_path(t) = SubSeq(path, 1, i)
      BY <1>1 DEF sub_path
    <3>2. Len(SubSeq(path, 1, i)) = i
      BY <1>2, <1>6
    <3>3. route(SubSeq(path, 1, i))[i] = route(path)[i]
      BY <1>2, <1>6, RouteOfPrefix
    <3> QED
      BY <2>4, <3>1, <3>2, <3>3 DEF exists, resolved
  <2>5. segment \in {"", ".", ".."} \/ exists(sub_path(t))
    BY <1>1 DEF Pass, passes
  <2> QED
    BY <2>3, <2>4, <2>5
<1>8. WalkSound(w) /\ FileFound(w)
  <2> HIDE DEF w, path, i
  <2>1. w.index \in 1..(Len(w.path) + 1) /\ w.index - 1 = i
    BY <1>2, <1>5, <1>6
  <2> QED
    BY <1>5, <1>7, <2>1 DEF WalkSound, FileFound
<1>9. WalkSound(w)' /\ FileFound(w)'
  <2> HIDE DEF w
  <2> QED
    BY <1>4, <1>5, <1>8, WalkStays
<1> HIDE DEF w
<1> QED
  BY <1>4, <1>5, <1>9, OneWalks DEF FolderInv, FoldersTyped

LEMMA FindMissingSound ==
    ASSUME FolderAssumption, walk \in [Threads -> Walks], FolderInv,
           NEW t \in Threads, FindMissing(t)
    PROVE  FolderInv'
<1>1. PICK v \in Walks : v = walk[t]
  OBVIOUS
<1> DEFINE w == [v EXCEPT !.at = "mkdir"]
           path == v.path
           i == v.index
<1>2. path \in Seq(STRING) /\ i \in Nat
  BY PathTyped
<1>3. WalkSound(v) /\ FileFound(v) /\ v.at = "walk" /\ i <= Len(path)
  BY <1>1 DEF FindMissing, FolderInv
<1>4. walk' = [walk EXCEPT ![t] = w] /\ UNCHANGED <<folders, denied>>
  BY <1>1 DEF FindMissing
<1>5. w \in Walks /\ w.at = "mkdir" /\ w.path = path /\ w.index = i
  BY <1>3 DEF Walks
<1>6. i \in 1..(Len(path) + 1) /\ (~denied => route(path)[i - 1] # Nowhere)
  BY <1>2, <1>3 DEF WalkSound
<1>7. path[i] \notin {"", ".", ".."}
  <2>1. path[i] # "" /\ (i = Len(path) \/ path[i] \notin {".", ".."})
    BY <1>1 DEF FindMissing, passes, isLast
  <2>2. ASSUME i = Len(path) PROVE path[i] \notin {".", ".."}
    <3>1. ~isDotted(path) /\ path # <<>>
      BY <1>1, <1>2, <1>6, <2>2 DEF FindMissing, isLast
    <3>2. path[i] = Last(path)
      BY <2>2 DEF Last
    <3> QED
      BY <3>1, <3>2 DEF isDotted
  <2> QED
    BY <2>1, <2>2
<1>8. WalkSound(w) /\ FileFound(w)
  <2> HIDE DEF w, path, i
  <2> QED
    BY <1>3, <1>5, <1>6, <1>7 DEF WalkSound, FileFound
<1>9. WalkSound(w)' /\ FileFound(w)'
  <2> HIDE DEF w
  <2> QED
    BY <1>4, <1>5, <1>8, WalkStays
<1> HIDE DEF w
<1> QED
  BY <1>4, <1>5, <1>9, OneWalks DEF FolderInv, FoldersTyped

\* The walk after a mkdir.
WalkAhead(v) == [at |-> "walk", path |-> v.path, index |-> v.index + 1, file |-> v.file]

LEMMA WalksAhead ==
    ASSUME FolderAssumption, walk \in [Threads -> Walks], NEW t \in Threads,
           NEW v \in Walks, v = walk[t],
           walk' = [walk EXCEPT ![t].at = "walk", ![t].index = @ + 1]
    PROVE  /\ walk' = [walk EXCEPT ![t] = WalkAhead(v)]
           /\ WalkAhead(v) \in Walks
<1>1. v.index \in Nat
  BY PathTyped
<1>2. WalkAhead(v) \in Walks
  BY <1>1 DEF WalkAhead, Walks
<1>3. [[v EXCEPT !.at = "walk"] EXCEPT !.index = @ + 1] = WalkAhead(v)
  BY <1>1 DEF WalkAhead, Walks
<1>4. walk' = [walk EXCEPT ![t] = [[v EXCEPT !.at = "walk"] EXCEPT !.index = @ + 1]]
  OBVIOUS
<1> QED
  BY <1>2, <1>3, <1>4

\* The folder that mkdir makes, if its parent is there.
LEMMA MkdirMakes ==
    ASSUME FolderAssumption, NEW t \in Threads, walk[t] \in Walks, Mkdir(t),
           NEW path, path = walk[t].path, NEW i \in 1..Len(path), i = walk[t].index,
           NEW parent, parent = route(path)[i - 1]
    PROVE  folders' = folders \cup IF parent = Nowhere THEN {} ELSE {Append(parent, path[i])}
<1> DEFINE p == SubSeq(path, 1, i)
           q == SubSeq(path, 1, i - 1)
<1>1. path \in Seq(STRING)
  BY PathTyped
<1>2. sub_path(t) = p
  BY DEF sub_path
<1>3. Len(p) = i /\ p[i] = path[i] /\ p \in Seq(STRING)
  BY <1>1
<1>4. Last(p) = path[i]
  BY <1>3 DEF Last
<1>5. Front(p) = q
  <2>1. Front(p) = SubSeq(p, 1, i - 1)
    BY <1>3 DEF Front
  <2>2. SubSeq(p, 1, i - 1) = q
    BY <1>1
  <2> QED
    BY <2>1, <2>2
<1>6. resolved(q) = parent
  <2>1. Len(q) = i - 1 /\ i - 1 \in 0..Len(path) /\ i - 1 \in 0..(i - 1)
    BY <1>1
  <2>2. route(q)[i - 1] = route(path)[i - 1]
    BY <1>1, <2>1, RouteOfPrefix
  <2> QED
    BY <2>1, <2>2 DEF resolved
<1> HIDE DEF p, q
<1> QED
  BY <1>2, <1>4, <1>5, <1>6 DEF Mkdir

\* The folder that is made, or was there, is the next on the way.
LEMMA MkdirSound ==
    ASSUME FolderAssumption, walk \in [Threads -> Walks], FolderInv,
           NEW t \in Threads, Mkdir(t)
    PROVE  FolderInv'
<1>1. PICK v \in Walks : v = walk[t]
  OBVIOUS
<1>2. PICK w : w = WalkAhead(v)
  OBVIOUS
<1>3. walk' = [walk EXCEPT ![t] = w] /\ w \in Walks /\ denied' = denied
  BY <1>1, <1>2, WalksAhead DEF Mkdir
<1>4. PICK path, i, f : path = v.path /\ i = v.index /\ f = path[i]
  OBVIOUS
<1>5. w.at = "walk" /\ w.path = path /\ w.index = i + 1
  BY <1>2, <1>4 DEF WalkAhead
<1>6. PICK parent : parent = route(path)[i - 1]
  OBVIOUS
<1>7. path \in Seq(STRING) /\ i \in Nat
  BY <1>4, PathTyped
<1>8. WalkSound(v) /\ v.at = "mkdir"
  BY <1>1 DEF Mkdir, FolderInv
<1>9. f \notin {"", ".", ".."} /\ (~denied => parent # Nowhere)
  BY <1>4, <1>6, <1>8 DEF WalkSound
<1>10. i \in 1..Len(path) /\ i - 1 \in 0..Len(path)
  <2>1. i \in 1..(Len(path) + 1) /\ i <= Len(path)
    BY <1>4, <1>8 DEF WalkSound
  <2>2. Len(path) \in Nat
    BY <1>7
  <2> QED
    BY <2>1, <2>2
<1>11. f \in STRING /\ parent \in Seq(STRING) \cup {Nowhere}
  <2>1. path[i] \in STRING
    BY <1>7, <1>10
  <2> QED
    BY <1>4, <1>6, <1>7, <1>10, <2>1, RouteTyped
<1>12. parent # Nowhere => Append(parent, f) \in Seq(STRING)
  BY <1>11, AppendProperties
<1>13. folders' = folders \cup IF parent = Nowhere THEN {} ELSE {Append(parent, f)}
  <2>1. walk[t] \in Walks /\ path = walk[t].path /\ i = walk[t].index
    BY <1>1, <1>4
  <2>2. folders' = folders \cup IF parent = Nowhere THEN {} ELSE {Append(parent, path[i])}
    BY <1>6, <1>10, <2>1, MkdirMakes
  <2> QED
    BY <1>4, <2>2
<1>14. folders \subseteq folders'
  BY <1>13
<1>15. FoldersTyped'
  BY <1>3, <1>12, <1>13 DEF FolderInv, FoldersTyped
<1>16. ASSUME ~denied PROVE route(path)'[i] # Nowhere
  <2>1. route(path)'[i - 1] = parent
    BY <1>6, <1>7, <1>9, <1>10, <1>14, <1>16, RouteStays
  <2>2. route(path)'[i] = entered(parent, f)'
    BY <1>4, <1>7, <1>10, <2>1, RouteDefinedNext
  <2>3. Append(parent, f) \in folders' /\ parent # Nowhere
    BY <1>9, <1>13, <1>16
  <2>4. Append(parent, f) # Nowhere
    BY <1>12, <2>3, FolderAssumption
  <2> QED
    BY <1>9, <2>2, <2>3, <2>4 DEF entered
<1>17. w.index \in 1..(Len(w.path) + 1) /\ w.index - 1 = i
  <2>1. i + 1 \in 1..(Len(path) + 1) /\ (i + 1) - 1 = i
    BY <1>7, <1>10
  <2> QED
    BY <1>5, <2>1
<1>18. WalkSound(w)' /\ FileFound(w)'
  BY <1>3, <1>5, <1>16, <1>17 DEF WalkSound, FileFound
<1> QED
  BY <1>3, <1>14, <1>15, <1>18, OneWalks

LEMMA MkdirDeniedSound ==
    ASSUME FolderAssumption, walk \in [Threads -> Walks], FolderInv,
           NEW t \in Threads, MkdirDenied(t)
    PROVE  FolderInv'
<1>1. PICK v \in Walks : v = walk[t]
  OBVIOUS
<1>2. PICK w : w = WalkAhead(v)
  OBVIOUS
<1>3. walk' = [walk EXCEPT ![t] = w] /\ w \in Walks /\ denied' = TRUE /\ folders' = folders
  BY <1>1, <1>2, WalksAhead DEF MkdirDenied
<1>4. PICK path, i : path = v.path /\ i = v.index
  OBVIOUS
<1>5. w.at = "walk" /\ w.path = path /\ w.index = i + 1
  BY <1>2, <1>4 DEF WalkAhead
<1>6. path \in Seq(STRING) /\ i \in Nat
  BY <1>4, PathTyped
<1>7. WalkSound(v) /\ v.at = "mkdir"
  BY <1>1 DEF MkdirDenied, FolderInv
<1>8. i \in 1..(Len(path) + 1) /\ i <= Len(path)
  BY <1>4, <1>7 DEF WalkSound
<1>9. w.index \in 1..(Len(w.path) + 1)
  <2>1. i + 1 \in 1..(Len(path) + 1)
    BY <1>6, <1>8
  <2> QED
    BY <1>5, <2>1
<1>10. WalkSound(w)' /\ FileFound(w)'
  BY <1>3, <1>5, <1>9 DEF WalkSound, FileFound
<1>11. FoldersTyped'
  BY <1>3 DEF FolderInv, FoldersTyped
<1> QED
  BY <1>3, <1>10, <1>11, OneWalks

LEMMA WalkEndsSound ==
    ASSUME FolderAssumption, walk \in [Threads -> Walks], FolderInv,
           NEW t \in Threads, WalkEnds(t)
    PROVE  FolderInv'
<1>1. PICK v \in Walks : v = walk[t]
  OBVIOUS
<1> DEFINE w == [v EXCEPT !.at = "open"]
<1>2. v.path \in Seq(STRING) /\ v.index \in Nat
  BY PathTyped
<1>3. /\ WalkSound(v) /\ v.at = "walk"
      /\ v.index > Len(v.path) \/ isDotted(v.path)
  BY <1>1 DEF WalkEnds, FolderInv
<1>4. walk' = [walk EXCEPT ![t] = w] /\ UNCHANGED <<folders, denied>>
  BY <1>1 DEF WalkEnds
<1>5. w \in Walks /\ w.at = "open" /\ w.path = v.path
  BY DEF Walks
<1> HIDE DEF w
<1>6. WalkSound(w) /\ FileFound(w)
  <2>1. v.index > Len(v.path) => v.index - 1 = Len(v.path)
    BY <1>2, <1>3 DEF WalkSound
  <2> QED
    BY <1>3, <1>5, <2>1 DEF WalkSound, FileFound, resolved
<1>7. WalkSound(w)' /\ FileFound(w)'
  BY <1>4, <1>5, <1>6, WalkStays
<1> QED
  BY <1>4, <1>5, <1>7, OneWalks DEF FolderInv, FoldersTyped

LEMMA OpenSound ==
    ASSUME FolderAssumption, walk \in [Threads -> Walks], FolderInv,
           NEW t \in Threads, Open(t)
    PROVE  FolderInv'
<1>1. PICK v \in Walks : v = walk[t]
  OBVIOUS
<1>2. PICK found \in BOOLEAN : found = (resolved(v.path) # Nowhere)
  OBVIOUS
<1> DEFINE w == [at |-> "opened", path |-> v.path, index |-> v.index, file |-> found]
<1>3. WalkSound(v) /\ v.at = "open"
  BY <1>1 DEF Open, FolderInv
<1>4. walk' = [walk EXCEPT ![t] = w] /\ UNCHANGED <<folders, denied>>
  <2>1. walk' = [walk EXCEPT ![t] = [[v EXCEPT !.at = "opened"] EXCEPT !.file = found]]
    BY <1>1, <1>2 DEF Open
  <2>2. [[v EXCEPT !.at = "opened"] EXCEPT !.file = found] = w
    <3>1. v \in [at : {"none", "walk", "mkdir", "open", "opened"},
                 path : Paths \cup {<<>>}, index : Nat, file : BOOLEAN]
      BY DEF Walks
    <3>2. [v EXCEPT !.at = "opened"] =
              [at |-> "opened", path |-> v.path, index |-> v.index, file |-> v.file]
      BY <3>1
    <3>3. [[at |-> "opened", path |-> v.path, index |-> v.index, file |-> v.file]
              EXCEPT !.file = found] = w
      OBVIOUS
    <3> QED
      BY ONLY <3>2, <3>3
  <2> QED
    BY <2>1, <2>2 DEF Open
<1>5. ~denied /\ ~isDotted(v.path) => found
  BY <1>2, <1>3 DEF WalkSound
<1>6. w \in Walks /\ w.at = "opened" /\ w.path = v.path /\ w.file = found
  BY DEF Walks
<1> HIDE DEF w
<1>7. WalkSound(w) /\ FileFound(w)
  BY <1>5, <1>6 DEF WalkSound, FileFound
<1>8. WalkSound(w)' /\ FileFound(w)'
  BY <1>4, <1>6, <1>7, WalkStays
<1>9. FoldersTyped' /\ folders \subseteq folders' /\ (denied => denied')
  BY <1>4 DEF FolderInv, FoldersTyped
<1> QED
  BY <1>4, <1>6, <1>8, <1>9, OneWalks

LEMMA FolderStepInv ==
    ASSUME FolderAssumption, IInv, FolderInv, [Next]_vars
    PROVE  FolderInv'
<1>1. walk \in [Threads -> Walks]
  BY TypeIs DEF IInv, Typed
<1>2. ASSUME UNCHANGED folderVars PROVE FolderInv'
  <2>1. UNCHANGED <<folders, denied, walk>>
    BY <1>2 DEF folderVars
  <2>2. ASSUME NEW t \in Threads, NEW w \in Walks, walk'[t] = w
        PROVE  WalkSound(w)' /\ FileFound(w)'
    BY <2>1, <2>2, WalkStays DEF FolderInv
  <2> QED
    BY <2>1, <2>2 DEF FolderInv, FoldersTyped
<1>3. ASSUME ProcessEnds PROVE FolderInv'
  <2>1. WalkSound(NoWalk) /\ FileFound(NoWalk)
    BY DEF NoWalk, WalkSound, FileFound
  <2>2. walk' = [t \in Threads |-> NoWalk] /\ UNCHANGED <<folders, denied>>
    BY <1>3 DEF ProcessEnds
  <2>3. ASSUME NEW t \in Threads, NEW w \in Walks, walk'[t] = w
        PROVE  WalkSound(w)' /\ FileFound(w)'
    <3>1. w = NoWalk
      BY <2>2, <2>3
    <3> QED
      BY <2>1, <2>2, <3>1, WalkStays
  <2> QED
    BY <2>2, <2>3 DEF FolderInv, FoldersTyped
<1>4. ASSUME NEW t \in Threads, ThreadNext(t) PROVE FolderInv'
  <2>1. CASE BuildBegins(t)
    BY <1>1, <1>2, <2>1, CreateDirectorySound DEF BuildBegins
  <2>2. CASE MakeFolders(t)
    BY <1>1, <2>2, PassSound, FindMissingSound, MkdirSound, MkdirDeniedSound,
       WalkEndsSound, OpenSound DEF MakeFolders, FolderNext
  <2>3. CASE build(t)
    BY <1>1, <2>3, WalkOverSound DEF build
  <2>4. CASE LoadConfigThrows(t) \/ LogDivides(t)
    BY <1>3, <2>4 DEF LoadConfigThrows, LogDivides
  <2>5. CASE \/ getInstance(t) \/ Construct(t) \/ getDefaultLogger(t)
             \/ addLogger(t) \/ exist(t) \/ getLogger(t) \/ Unlock(t) \/ Leave(t)
             \/ Destroyed(t) \/ Lock(t) \/ Call(t) \/ Log(t) \/ Drop(t)
    BY <1>2, <2>5 DEF getInstance, Construct, getDefaultLogger, addLogger, exist, getLogger,
       Unlock, Leave, Destroyed, Lock, Call, Log, Drop
  <2> QED
    BY <1>4, <2>1, <2>2, <2>3, <2>4, <2>5 DEF ThreadNext, CallNext
<1>5. ASSUME NEW l \in Loggers \cup {DefaultLogger}, WriteBatch(l) PROVE FolderInv'
  BY <1>2, <1>5 DEF WriteBatch
<1>6. CASE UNCHANGED vars
  BY <1>2, <1>6 DEF vars
<1> QED
  BY <1>4, <1>5, <1>6 DEF Next

\* A sink finds its folder, though every exists and every mkdir is a step and others
\* make and find the same folders at the same time (createDirectory, Util.hpp of the
\* log system), unless a mkdir was refused or the folder's name ends in a dot.
THEOREM ManagerFolderIsThere == Spec => []FolderIsThere
<1> USE FolderAssumption
<1>1. Init => FolderInv
  BY FolderInitInv DEF Init
<1>2. IInv /\ FolderInv /\ [Next]_vars => FolderInv'
  BY FolderStepInv
<1>3. IInv /\ FolderInv => FolderIsThere
  <2> SUFFICES ASSUME IInv, FolderInv, NEW t \in Threads PROVE FileFound(walk[t])
    BY DEF FolderIsThere, FileFound
  <2>1. walk[t] \in Walks
    BY TypeIs DEF IInv, Typed
  <2> QED
    BY <2>1 DEF FolderInv
<1> QED
  BY <1>1, <1>2, <1>3, ManagerInductive, PTL DEF Spec

=============================================================================
