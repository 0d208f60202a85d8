------------------------------ MODULE Sockets ------------------------------
(***************************************************************************)
(* Blocking sockets (src/src/unix/ge/inet/Socket.cpp,                      *)
(* src/src/win/ge/inet/Socket.cpp): objects that own a descriptor of the   *)
(* system and two streams.  The system gives out the least free number, as *)
(* unix does, so that a number closed by mistake is soon somebody else's.  *)
(***************************************************************************)
EXTENDS Integers, FiniteSetsExt

CONSTANTS
    Objects,    \* Socket objects, constructed
    Fds,        \* the descriptors the process may have, a set of numbers
    Families    \* INET_PROT_IPV4, INET_PROT_IPV6

VARIABLES
    unix,
    kernel,     \* per descriptor: "free", "fresh", "bound", "listening" or "connected"
    m_fd,       \* per object: its descriptor, or None
    m_family,
    streams,    \* per object: "none", "own", or "garbage" pointers
    threw,      \* the last call threw
    spoilt

vars == <<unix, kernel, m_fd, m_family, streams, threw, spoilt>>

None == -1
Open == {f \in Fds : kernel[f] # "free"}
Trusted == spoilt = {}
Fresh == Min(Fds \ Open)

Init ==
    /\ unix \in BOOLEAN
    /\ kernel = [f \in Fds |-> "free"]
    /\ m_fd = [s \in Objects |-> None]
    /\ m_family \in [Objects -> Families]
    /\ streams = [s \in Objects |-> "none"]
    /\ threw = FALSE /\ spoilt = {}

Throws == threw' = TRUE /\ UNCHANGED <<kernel, m_fd, m_family, streams, spoilt>>

\* An object gets one descriptor; socket() fails when there is none left.
init(s, family) ==
    /\ Trusted
    /\ IF m_fd[s] # None \/ Fds = Open THEN Throws
       ELSE /\ kernel' = [kernel EXCEPT ![Fresh] = "fresh"]
            /\ m_fd' = [m_fd EXCEPT ![s] = Fresh]
            /\ m_family' = [m_family EXCEPT ![s] = family]
            /\ threw' = FALSE
            /\ UNCHANGED <<streams, spoilt>>
    /\ UNCHANGED unix

\* close() of an object without a descriptor closes nothing, and deletes the
\* streams whatever their pointers are.
close(s) ==
    /\ Trusted
    /\ kernel' = [f \in Fds |-> IF f = m_fd[s] THEN "free" ELSE kernel[f]]
    /\ m_fd' = [m_fd EXCEPT ![s] = None]
    /\ streams' = [streams EXCEPT ![s] = "none"]
    /\ threw' = FALSE
    /\ spoilt' = IF streams[s] = "garbage" THEN {"deleted"} ELSE {}
    /\ UNCHANGED <<unix, m_family>>

bind(s, family) ==
    /\ Trusted
    /\ IF family # m_family[s] \/ m_fd[s] = None \/ kernel[m_fd[s]] # "fresh" THEN Throws
       ELSE /\ kernel' = [kernel EXCEPT ![m_fd[s]] = "bound"]
            /\ threw' = FALSE
            /\ UNCHANGED <<m_fd, m_family, streams, spoilt>>
    /\ UNCHANGED unix

listen(s) ==
    /\ Trusted
    /\ IF m_fd[s] = None \/ kernel[m_fd[s]] # "bound" THEN Throws
       ELSE /\ kernel' = [kernel EXCEPT ![m_fd[s]] = "listening"]
            /\ threw' = FALSE
            /\ UNCHANGED <<m_fd, m_family, streams, spoilt>>
    /\ UNCHANGED unix

\* The client is given a socket of its own first.  unix then drops the one that
\* was accepted; Windows drops the client's, and clears the memory behind the
\* address of an IPv4 client.  If accept() fails the client stays initialised.
Taken(own, accepted) == IF unix THEN own ELSE accepted
accept(s, c) ==
    LET own == Min(Fds \ Open)
        rest == (Fds \ Open) \ {own}
        opened == [kernel EXCEPT ![own] = "fresh"]
        accepted == Min(rest)
        ready == m_fd[s] # None /\ kernel[m_fd[s]] = "listening"
    IN /\ Trusted /\ s # c
       /\ IF m_fd[c] # None \/ Fds = Open THEN Throws
          ELSE /\ m_family' = [m_family EXCEPT ![c] = m_family[s]]
               /\ streams' = streams
               /\ IF rest = {} \/ ~ ready
                  THEN /\ kernel' = opened
                       /\ m_fd' = [m_fd EXCEPT ![c] = own]
                       /\ threw' = TRUE
                       /\ UNCHANGED spoilt
                  ELSE /\ kernel' = [opened EXCEPT ![accepted] = "connected"]
                       /\ m_fd' = [m_fd EXCEPT ![c] = Taken(own, accepted)]
                       /\ threw' = FALSE
                       /\ spoilt' = {IF unix THEN "dropped" ELSE "leak"}
       /\ UNCHANGED unix

\* A connect() that was interrupted goes on: poll() waits for it and SO_ERROR
\* tells how it ended.
Outcomes == {"at once", "refused"} \cup (IF unix THEN {"later", "later refused"} ELSE {})
connect(s, family) ==
    /\ Trusted
    /\ IF family # m_family[s] \/ m_fd[s] = None \/ kernel[m_fd[s]] \notin {"fresh", "bound"}
       THEN Throws
       ELSE \E outcome \in Outcomes :
                IF outcome \in {"refused", "later refused"} THEN Throws
                ELSE /\ kernel' = [kernel EXCEPT ![m_fd[s]] = "connected"]
                     /\ threw' = FALSE
                     /\ UNCHANGED <<m_fd, m_family, streams, spoilt>>
    /\ UNCHANGED unix

\* The streams are made on demand; on Windows only if they are there already.
getStreams(s) ==
    /\ Trusted
    /\ streams' = [streams EXCEPT ![s] = IF @ = "none" /\ unix THEN "own" ELSE @]
    /\ threw' = FALSE
    /\ UNCHANGED <<unix, kernel, m_fd, m_family, spoilt>>

\* Sending and receiving leave the object as it is.
transfer(s) ==
    /\ Trusted
    /\ IF m_fd[s] = None \/ kernel[m_fd[s]] # "connected" THEN Throws
       ELSE threw' = FALSE /\ UNCHANGED <<kernel, m_fd, m_family, streams, spoilt>>
    /\ UNCHANGED unix

\* A move takes the descriptor and nothing else: a new object has pointers
\* nobody set, and one that had a descriptor loses it.
move(from, to, constructs) ==
    /\ Trusted /\ from # to
    /\ constructs => m_fd[to] = None /\ streams[to] = "none"
    /\ m_fd' = [m_fd EXCEPT ![to] = m_fd[from], ![from] = None]
    /\ streams' = IF constructs THEN [streams EXCEPT ![to] = "garbage"] ELSE streams
    /\ threw' = FALSE
    /\ spoilt' = IF m_fd[to] # None THEN {"leak"} ELSE {}
    /\ UNCHANGED <<unix, kernel, m_family>>

Next ==
    \/ \E s \in Objects, family \in Families : init(s, family) \/ bind(s, family) \/ connect(s, family)
    \/ \E s \in Objects : close(s) \/ listen(s) \/ getStreams(s) \/ transfer(s)
    \/ \E s, c \in Objects : accept(s, c)
    \/ \E s, c \in Objects, constructs \in BOOLEAN : move(s, c, constructs)

-----------------------------------------------------------------------------

TypeOK ==
    /\ unix \in BOOLEAN /\ threw \in BOOLEAN
    /\ kernel \in [Fds -> {"free", "fresh", "bound", "listening", "connected"}]
    /\ m_fd \in [Objects -> Fds \cup {None}]
    /\ m_family \in [Objects -> Families]
    /\ streams \in [Objects -> {"none", "own", "garbage"}]

(* Every open descriptor has one owner and every object owns an open one   *)
(* or none, through every failure and move: nothing is closed that another *)
(* object uses and nothing is left open -- until a descriptor is dropped   *)
(* by accept() or by a move onto an object that had one.                   *)
Held ==
    spoilt = {} =>
        /\ Open = {m_fd[s] : s \in Objects} \ {None}
        /\ \A s, c \in Objects : m_fd[s] = m_fd[c] /\ m_fd[s] # None => s = c
=============================================================================
