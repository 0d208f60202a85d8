------------------------------ MODULE ProcessWin ------------------------------
(***************************************************************************)
(* The class Process on Windows: objects that threads of one program       *)
(* execute programs with, at the same time.  CreateProcess() gives a child *)
(* every inheritable handle the parent has at that moment, whoever made it.*)
(* A handle is <<object, attempt, pipe, end>>, with end 0 to read and 1 to *)
(* write; CreatePipe() makes both ends inheritable.                        *)
(***************************************************************************)
EXTENDS Integers, FiniteSets

CONSTANTS Objects, Codes,
          MaxStarts    \* bound: calls of internalExec() for one object

VARIABLES
    object,         \* the fields of each object, and its child
    handles,        \* what the parent has open
    inheritable,    \* of that, what a child is given
    lost,           \* history: starts that ended in launchProcess()
    crowded         \* history: objects whose start another one's launch met

objectVars == <<object, handles, inheritable, lost, crowded>>

NewObject ==
    [at |-> "idle", merge |-> FALSE, starts |-> 0,
     m_hasStarted |-> FALSE, m_hasStopped |-> FALSE, m_return |-> 0,
     child |-> "none", code |-> 0, given |-> {}]

Init ==
    /\ object = [o \in Objects |-> NewObject]
    /\ handles = {} /\ inheritable = {}
    /\ lost = {} /\ crowded = {}

-----------------------------------------------------------------------------

Pipe(o, name) == {<<o, object[o].starts, name, end>> : end \in {0, 1}}
Pipes(o, names) == UNION {Pipe(o, name) : name \in names}
End(o, name, end) == {<<o, object[o].starts, name, end>>}
Before(o, place) == object[o].at = place
At(o, place) == object' = [object EXCEPT ![o].at = place]
Starting(o) == object[o].at \notin {"idle", "destroyed"}

\* A step that fails closes the pipes it names and throws.
Fails(o, names) ==
    /\ At(o, "idle")
    /\ handles' = handles \ Pipes(o, names)
    /\ inheritable' = inheritable \ Pipes(o, names)
    /\ UNCHANGED <<lost, crowded>>

Opens(o, opened, next) ==
    /\ At(o, next)
    /\ handles' = handles \cup opened
    /\ inheritable' = inheritable \cup opened
    /\ UNCHANGED <<lost, crowded>>

\* SetHandleInformation() for the end the parent keeps.
Hides(o, kept, next) ==
    /\ At(o, next)
    /\ inheritable' = inheritable \ kept
    /\ UNCHANGED <<handles, lost, crowded>>

\* One object starts one process; another start of it throws.
internalExec(o, merge) ==
    /\ Before(o, "idle") /\ ~object[o].m_hasStarted /\ object[o].starts < MaxStarts
    /\ object' = [object EXCEPT ![o].at = "openIn", ![o].merge = merge, ![o].starts = @ + 1]
    /\ UNCHANGED <<handles, inheritable, lost, crowded>>

openIn(o) == Before(o, "openIn") /\ (Opens(o, Pipe(o, "in"), "hideIn") \/ Fails(o, {}))
hideIn(o) == Before(o, "hideIn") /\ (Hides(o, End(o, "in", 1), "openOut") \/ Fails(o, {"in"}))
openOut(o) == Before(o, "openOut") /\ (Opens(o, Pipe(o, "out"), "hideOut") \/ Fails(o, {"in"}))
hideOut(o) ==
    /\ Before(o, "hideOut")
    /\ \/ Hides(o, End(o, "out", 0), IF object[o].merge THEN "duplicate" ELSE "openErr")
       \/ Fails(o, {"in", "out"})
openErr(o) == Before(o, "openErr") /\ (Opens(o, Pipe(o, "err"), "hideErr") \/ Fails(o, {"in", "out"}))
hideErr(o) == Before(o, "hideErr") /\ (Hides(o, End(o, "err", 0), "launch") \/ Fails(o, {"in", "out", "err"}))

\* The output's write end once more.
duplicate(o) ==
    /\ Before(o, "duplicate")
    /\ Opens(o, End(o, "err", 1), "launch") \/ Fails(o, {"in", "out"})

\* CreateProcess().  An exception from here closes nothing.
launchProcess(o) ==
    /\ Before(o, "launch")
    /\ \/ /\ object' = [object EXCEPT ![o].at = "launched", ![o].child = "runs",
                                      ![o].given = inheritable]
          /\ crowded' = crowded \cup
                 (LET others == {p \in Objects \ {o} : Starting(p)} IN
                  IF others = {} THEN {} ELSE others \cup {o})
          /\ UNCHANGED lost
       \/ /\ At(o, "idle")
          /\ lost' = lost \cup {<<o, object[o].starts, object[o].merge>>}
          /\ UNCHANGED crowded
    /\ UNCHANGED <<handles, inheritable>>

\* The rest of internalExec(): the child's ends are closed, the others become
\* the streams.
finishExec(o) ==
    /\ Before(o, "launched")
    /\ object' = [object EXCEPT ![o].at = "idle", ![o].m_hasStarted = TRUE]
    /\ LET childs == End(o, "in", 0) \cup End(o, "out", 1) \cup End(o, "err", 1) IN
       handles' = handles \ childs /\ inheritable' = inheritable \ childs
    /\ UNCHANGED <<lost, crowded>>

\* The program ends, and the system closes its handles.
exit(o) ==
    /\ object[o].child = "runs"
    /\ \E code \in Codes :
           object' = [object EXCEPT ![o].child = "exited", ![o].code = code, ![o].given = {}]
    /\ UNCHANGED <<handles, inheritable, lost, crowded>>

\* getStdIn()->close(), by which a program tells its child that that was all.
closeInput(o) ==
    /\ Before(o, "idle") /\ object[o].m_hasStarted
    /\ handles' = handles \ End(o, "in", 1)
    /\ UNCHANGED <<object, inheritable, lost, crowded>>

waitFor(o) ==
    /\ Before(o, "idle") /\ object[o].m_hasStarted
    /\ ~object[o].m_hasStopped /\ object[o].child = "exited"
    /\ object' = [object EXCEPT ![o].m_hasStopped = TRUE, ![o].m_return = object[o].code]
    /\ UNCHANGED <<handles, inheritable, lost, crowded>>

Streams(o) == End(o, "in", 1) \cup End(o, "out", 0)
                \cup (IF object[o].merge THEN {} ELSE End(o, "err", 0))

\* The destructor closes the streams, which exist if the object has started.
destroy(o) ==
    /\ Before(o, "idle")
    /\ At(o, "destroyed")
    /\ handles' = IF object[o].m_hasStarted THEN handles \ Streams(o) ELSE handles
    /\ UNCHANGED <<inheritable, lost, crowded>>

Next ==
    \E o \in Objects :
        \/ \E merge \in BOOLEAN : internalExec(o, merge)
        \/ openIn(o) \/ hideIn(o) \/ openOut(o) \/ hideOut(o) \/ openErr(o) \/ hideErr(o)
        \/ duplicate(o) \/ launchProcess(o) \/ finishExec(o)
        \/ exit(o) \/ closeInput(o) \/ waitFor(o) \/ destroy(o)

-----------------------------------------------------------------------------

\* The fields have their types, and no child inherits what is not open.
TypeOK ==
    /\ inheritable \subseteq handles
    /\ lost \subseteq Objects \X (1..MaxStarts) \X BOOLEAN /\ crowded \subseteq Objects
    /\ \A o \in Objects : object[o].m_return \in Codes \cup {0}

\* Who can keep a pipe of o's open from reading or writing to its end: the
\* children that were given it.
Given(o, name, end) == {p \in Objects : End(o, name, end) \subseteq object[p].given}

\* When the start is over, a pipe ends with its one user: a child hears the
\* end of its input when the parent closes it, and the parent the end of the
\* output when the child ends.  Starts that overlap give a child the pipes of
\* another: they are exempt.  An exit code is the child's own.
Guarded ==
    \A o \in Objects :
        /\ object[o].m_hasStarted /\ o \notin crowded =>
               /\ Given(o, "in", 1) = {} /\ Given(o, "out", 0) = {} /\ Given(o, "err", 0) = {}
               /\ Given(o, "out", 1) \cup Given(o, "err", 1) \subseteq {o}
        /\ object[o].m_hasStopped => object[o].m_return = object[o].code

\* A start that fails leaves nothing open, and the parent keeps its own ends
\* of a process that it started, and nothing else.  A CreateProcess() that
\* fails leaves every pipe open for ever: what it lost is exempt.
Accounted ==
    LET LostEnds(l) ==
            {<<l[1], l[2], name, end>> : name \in {"in", "out"}, end \in {0, 1}}
              \cup (IF l[3] THEN {<<l[1], l[2], "err", 1>>}
                    ELSE {<<l[1], l[2], "err", end>> : end \in {0, 1}})
        idle == {o \in Objects : ~Starting(o)}
        open == {o \in idle : object[o].m_hasStarted /\ object[o].at = "idle"}
        lostEnds == UNION {LostEnds(l) : l \in lost}
        mine == {h \in handles : h[1] \in idle}
    IN
    /\ mine \ lostEnds \subseteq UNION {Streams(o) : o \in open}
    /\ \A o \in open : Streams(o) \ End(o, "in", 1) \subseteq handles
=============================================================================
