---------------------------- MODULE SerialQueue ----------------------------
(***************************************************************************)
(* What a serial queue promises its callers: calls are worked on one at a  *)
(* time in the order they were made, and each is answered once.            *)
(***************************************************************************)
EXTENDS Sequences, FiniteSets

CONSTANT Call

VARIABLES
    waiting,    \* calls made and not answered, in order
    served      \* calls answered, in order

queueVars == <<waiting, served>>

Members(s) == {s[i] : i \in DOMAIN s}

QueueInit == waiting = <<>> /\ served = <<>>

\* A caller makes its call.
Enter(c) ==
    /\ c \notin Members(waiting) \cup Members(served)
    /\ waiting' = Append(waiting, c)
    /\ UNCHANGED served

\* The call that waited longest is answered.
Serve ==
    /\ waiting # <<>>
    /\ served' = Append(served, Head(waiting))
    /\ waiting' = Tail(waiting)

QueueNext == Serve \/ \E c \in Call : Enter(c)

QueueSpec == QueueInit /\ [][QueueNext]_queueVars

=============================================================================
