----------------------------- MODULE LogFolder -----------------------------
(***************************************************************************)
(* Util::File::createDirectory and folderPath of the log system (Util.hpp): *)
(* a sink's constructor makes the folders on the way to its log file, one  *)
(* after the other, and then opens the file.  Each exists and each mkdir   *)
(* is a step, since other threads make folders at the same time.           *)
(*                                                                         *)
(* A path is the sequence of what lies between its separators: names, ".", *)
(* "..", and "" where two of them meet.  A folder is the sequence of names *)
(* that leads to it from the root.                                         *)
(***************************************************************************)
EXTENDS Integers, SequencesExt

CONSTANTS
    Threads,
    Paths,          \* folders of log files, as given to the sinks
    DottedNames,    \* names that end in a dot
    Home,           \* the folder the process runs in
    Nowhere         \* where a path leads that leads nowhere

ASSUME FolderAssumption ==
    /\ Paths \subseteq Seq(STRING) /\ Home \in Seq(STRING)
    /\ Nowhere \notin Seq(STRING)

VARIABLES
    folders,    \* those there are
    denied,     \* (history) a mkdir was refused
    walk        \* thread -> [at, path, index, file]: where createDirectory is

folderVars == <<folders, denied, walk>>

NoWalk == [at |-> "none", path |-> <<>>, index |-> 0, file |-> FALSE]

FolderInit ==
    /\ folders = {SubSeq(Home, 1, n) : n \in 0..Len(Home)}
    /\ denied = FALSE
    /\ walk = [t \in Threads |-> NoWalk]

\* The folder that one more segment leads to.
entered(folder, segment) ==
    IF folder = Nowhere \/ segment \in {"", "."} THEN folder
    ELSE IF segment = ".." THEN SubSeq(folder, 1, Len(folder) - 1)
    ELSE IF Append(folder, segment) \in folders THEN Append(folder, segment)
    ELSE Nowhere

\* Where one is after each segment.
route(path) ==
    LET reached[n \in 0..Len(path)] ==
            IF n = 0 THEN Home ELSE entered(reached[n - 1], path[n])
    IN  reached

resolved(path) == route(path)[Len(path)]

exists(path) == path # <<>> /\ resolved(path) # Nowhere

-----------------------------------------------------------------------------

CreateDirectory(t, path) ==
    /\ walk' = [walk EXCEPT ![t] =
                   [at    |-> IF exists(path) THEN "open" ELSE "walk",
                    path  |-> path,
                    index |-> 1,
                    file  |-> FALSE]]
    /\ UNCHANGED <<folders, denied>>

sub_path(t) == SubSeq(walk[t].path, 1, walk[t].index)

isLast(t) == walk[t].index = Len(walk[t].path)

\* What the loop leaves alone: an empty segment, and on the way "." and ".." and
\* what exists.
passes(t) ==
    LET segment == walk[t].path[walk[t].index]
    IN  \/ segment = ""
        \/ ~isLast(t) /\ (segment \in {".", ".."} \/ exists(sub_path(t)))

\* The last segment is not looked at, but when it ends in a dot it is not made.
isDotted(path) == path # <<>> /\ Last(path) \in {".", ".."} \cup DottedNames

Pass(t) ==
    /\ walk[t].at = "walk" /\ walk[t].index <= Len(walk[t].path)
    /\ passes(t)
    /\ walk' = [walk EXCEPT ![t].index = @ + 1]
    /\ UNCHANGED <<folders, denied>>

FindMissing(t) ==
    /\ walk[t].at = "walk" /\ walk[t].index <= Len(walk[t].path)
    /\ ~passes(t) /\ ~(isLast(t) /\ isDotted(walk[t].path))
    /\ walk' = [walk EXCEPT ![t].at = "mkdir"]
    /\ UNCHANGED <<folders, denied>>

\* Faulty variant of Mkdir: when somebody else was faster, give up.
MkdirOrGiveUp(t) ==
    LET parent == resolved(Front(sub_path(t)))
    IN  /\ walk[t].at = "mkdir"
        /\ folders' = folders \cup
               IF parent = Nowhere THEN {} ELSE {Append(parent, Last(sub_path(t)))}
        /\ walk' = [walk EXCEPT
                       ![t].at = IF exists(sub_path(t)) THEN "open" ELSE "walk",
                       ![t].index = @ + 1]
        /\ UNCHANGED denied

\* mkdir, whose result nobody looks at: that it exists is as good.
Mkdir(t) ==
    LET parent == resolved(Front(sub_path(t)))
    IN  /\ walk[t].at = "mkdir"
        /\ folders' = folders \cup
               IF parent = Nowhere THEN {} ELSE {Append(parent, Last(sub_path(t)))}
        /\ walk' = [walk EXCEPT ![t].at = "walk", ![t].index = @ + 1]
        /\ UNCHANGED denied

\* No permission, no space: the walk goes on.
MkdirDenied(t) ==
    /\ walk[t].at = "mkdir" /\ ~exists(sub_path(t))
    /\ denied' = TRUE
    /\ walk' = [walk EXCEPT ![t].at = "walk", ![t].index = @ + 1]
    /\ UNCHANGED folders

WalkEnds(t) ==
    /\ walk[t].at = "walk"
    /\ \/ walk[t].index > Len(walk[t].path)
       \/ isLast(t) /\ isDotted(walk[t].path)
    /\ walk' = [walk EXCEPT ![t].at = "open"]
    /\ UNCHANGED <<folders, denied>>

\* fopen makes the file if its folder is there.
Open(t) ==
    /\ walk[t].at = "open"
    /\ walk' = [walk EXCEPT ![t].at = "opened",
                            ![t].file = resolved(walk[t].path) # Nowhere]
    /\ UNCHANGED <<folders, denied>>

FolderNext(t) ==
    Pass(t) \/ FindMissing(t) \/ Mkdir(t) \/ MkdirDenied(t) \/ WalkEnds(t) \/ Open(t)

-----------------------------------------------------------------------------

\* Whoever else makes the same folders, a sink finds its folder when it opens its
\* file, unless a mkdir was refused or the folder's own name ends in a dot.
FolderIsThere ==
    \A t \in Threads :
        walk[t].at = "opened" /\ ~denied /\ ~isDotted(walk[t].path) => walk[t].file

=============================================================================
