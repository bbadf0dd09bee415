------------------------------ MODULE KissServer ------------------------------
(***************************************************************************)
(* The desktop's KISS TCP server: desktop/src/kiss_server.rs,              *)
(* run_bidirectional.  One loop accepts connections and counts them; each  *)
(* client has a task that selects between the frames broadcast to all      *)
(* clients and the bytes its client sends, and writes each frame out       *)
(* before it selects again.                                                *)
(*                                                                         *)
(* Received frames are numbered in the order in which they are broadcast.  *)
(* What becomes of the clients' bytes is the subject of KissUplink.        *)
(***************************************************************************)
EXTENDS Integers, Sequences, FiniteSets

CONSTANTS
    Conns,            \* the connections clients try to open, each once
    Readers,          \* those whose clients go on reading
    Talkers,          \* bound: those whose clients send anything
    MAX_CLIENTS,      \* clients served at a time (8)
    BROADCAST_SIZE,   \* frames the broadcast channel keeps (64)
    SOCKET_SIZE,      \* encoded frames a socket takes before a write waits
    MaxFrames         \* bound: frames received

ASSUME ServerAssumption ==
    /\ IsFiniteSet(Conns) /\ Readers \subseteq Conns /\ Talkers \subseteq Conns
    /\ MAX_CLIENTS \in Nat
    /\ BROADCAST_SIZE \in Nat \ {0} /\ SOCKET_SIZE \in Nat \ {0}
    /\ MaxFrames \in Nat

VARIABLES
    link,          \* a client's end of its connection
    backlog,       \* connections that wait for accept
    accepting,     \* << >>, or the connection being admitted and the count loaded
    client_count,
    task,          \* where the client's task is
    published,     \* frames broadcast so far
    next,          \* the client's receiver: the frame it takes next
    hand,          \* the frame its task is writing, 0 for none
    down,          \* frames in its socket, on the way to the client
    up,            \* bytes wait in its socket, on the way to the task
    last           \* the last frame the client has read, 0 for none

clientVars == <<link, backlog>>
serverVars == <<accepting, client_count>>
vars == <<clientVars, serverVars, task, published, next, hand, down, up, last>>

Served == {"select", "writing", "ending"}     \* a task that is counted
Tasks == Served \cup {"none", "refused", "ended"}

Init ==
    /\ link = [c \in Conns |-> "none"] /\ backlog = << >>
    /\ accepting = << >> /\ client_count = 0
    /\ task = [c \in Conns |-> "none"]
    /\ published = 0
    /\ next = [c \in Conns |-> 1] /\ hand = [c \in Conns |-> 0]
    /\ down = [c \in Conns |-> << >>] /\ up = [c \in Conns |-> FALSE]
    /\ last = [c \in Conns |-> 0]

-----------------------------------------------------------------------------
(* The client programs. *)
Connect(c) ==
    /\ link[c] = "none"
    /\ link' = [link EXCEPT ![c] = "open"]
    /\ backlog' = Append(backlog, c)
    /\ UNCHANGED <<serverVars, task, published, next, hand, down, up, last>>

SendUp(c) ==
    /\ c \in Talkers /\ link[c] = "open" /\ ~up[c]
    /\ up' = [up EXCEPT ![c] = TRUE]
    /\ UNCHANGED <<clientVars, serverVars, task, published, next, hand, down, last>>

ReadDown(c) ==
    /\ link[c] = "open" /\ down[c] # << >>
    /\ last' = [last EXCEPT ![c] = Head(down[c])]
    /\ down' = [down EXCEPT ![c] = Tail(@)]
    /\ UNCHANGED <<clientVars, serverVars, task, published, next, hand, up>>

Close(c) ==
    /\ link[c] = "open"
    /\ link' = [link EXCEPT ![c] = "closed"]
    /\ UNCHANGED <<backlog, serverVars, task, published, next, hand, down, up, last>>

-----------------------------------------------------------------------------
(* The accepting loop: the count is loaded, compared and incremented in      *)
(* steps of its own, while tasks that end decrement it.                      *)
Accept ==
    /\ accepting = << >> /\ backlog # << >>
    /\ accepting' = <<[conn |-> Head(backlog), current |-> client_count]>>
    /\ backlog' = Tail(backlog)
    /\ UNCHANGED <<link, client_count, task, published, next, hand, down, up, last>>

Refuses(current) == current >= MAX_CLIENTS

Refuse ==
    /\ accepting # << >> /\ Refuses(accepting[1].current)
    /\ task' = [task EXCEPT ![accepting[1].conn] = "refused"]
    /\ accepting' = << >>
    /\ UNCHANGED <<clientVars, client_count, published, next, hand, down, up, last>>

\* fetch_add, subscribe (to the frames broadcast from now on), spawn.
Admit ==
    /\ accepting # << >> /\ ~Refuses(accepting[1].current)
    /\ client_count' = client_count + 1
    /\ task' = [task EXCEPT ![accepting[1].conn] = "select"]
    /\ next' = [next EXCEPT ![accepting[1].conn] = published + 1]
    /\ accepting' = << >>
    /\ UNCHANGED <<clientVars, published, hand, down, up, last>>

-----------------------------------------------------------------------------
(* The broadcast channel keeps the last BROADCAST_SIZE frames.               *)
Broadcast ==
    /\ published < MaxFrames
    /\ published' = published + 1
    /\ UNCHANGED <<clientVars, serverVars, task, next, hand, down, up, last>>

Oldest == IF published > BROADCAST_SIZE THEN published - BROADCAST_SIZE + 1 ELSE 1

\* A client's task.  Recv: the first branch of the select!, with a frame; the
\* task writes it before it does anything else.
Recv(c) ==
    /\ task[c] = "select" /\ next[c] \in Oldest .. published
    /\ hand' = [hand EXCEPT ![c] = next[c]]
    /\ next' = [next EXCEPT ![c] = @ + 1]
    /\ task' = [task EXCEPT ![c] = "writing"]
    /\ UNCHANGED <<clientVars, serverVars, published, down, up, last>>

\* The first branch, when frames were overwritten before the task came to
\* them: its receiver goes on with the oldest that is left.  (Faulty variant:
\* takes it for the end of the channel.)
LaggedEnds(c) ==
    /\ task' = [task EXCEPT ![c] = "ending"]
    /\ UNCHANGED next
LaggedGoesOn(c) ==
    /\ next' = [next EXCEPT ![c] = Oldest]
    /\ UNCHANGED task
Lagged(c) ==
    /\ task[c] = "select" /\ next[c] < Oldest
    /\ LaggedGoesOn(c)
    /\ UNCHANGED <<clientVars, serverVars, published, hand, down, up, last>>

\* write_all waits for room, or fails when the client is gone.  (Faulty variant:
\* it is a branch of the select! too, and begins again after the other branch.)
WriteRestarts(c) ==
    \/ UNCHANGED <<hand, task>>
    \/ hand' = [hand EXCEPT ![c] = 0] /\ task' = [task EXCEPT ![c] = "select"]
WriteDone(c) == hand' = [hand EXCEPT ![c] = 0] /\ task' = [task EXCEPT ![c] = "select"]
Write(c) ==
    /\ task[c] = "writing" /\ Len(down[c]) < SOCKET_SIZE
    /\ down' = [down EXCEPT ![c] = Append(@, hand[c])]
    /\ WriteDone(c)
    /\ UNCHANGED <<clientVars, serverVars, published, next, up, last>>

\* Faulty variants: returns without giving the place back; tries again for ever.
ReturnsAtOnce(c) == task' = [task EXCEPT ![c] = "ended"] /\ UNCHANGED client_count
Retries(c) == UNCHANGED <<task, client_count>>
BreaksOff(c) == task' = [task EXCEPT ![c] = "ending"] /\ UNCHANGED client_count

WriteFails(c) ==
    /\ task[c] = "writing" /\ link[c] = "closed"
    /\ BreaksOff(c)
    /\ UNCHANGED <<clientVars, accepting, published, next, hand, down, up, last>>

\* The second branch of the select!: bytes (they go to kiss_in), or the end of
\* the stream or an error.
ReadUp(c) ==
    /\ task[c] = "select" /\ up[c]
    /\ up' = [up EXCEPT ![c] = FALSE]
    /\ UNCHANGED <<clientVars, serverVars, task, published, next, hand, down, last>>

ReadEnds(c) ==
    /\ task[c] = "select" /\ link[c] = "closed"
    /\ task' = [task EXCEPT ![c] = "ending"]
    /\ UNCHANGED <<clientVars, serverVars, published, next, hand, down, up, last>>

\* fetch_sub, and the end of the task.
Leave(c) ==
    /\ task[c] = "ending"
    /\ client_count' = client_count - 1
    /\ task' = [task EXCEPT ![c] = "ended"]
    /\ UNCHANGED <<clientVars, accepting, published, next, hand, down, up, last>>

Client(c) == Connect(c) \/ SendUp(c) \/ ReadDown(c) \/ Close(c)
Task(c) ==
    \/ Recv(c) \/ Lagged(c) \/ Write(c) \/ WriteFails(c)
    \/ ReadUp(c) \/ ReadEnds(c) \/ Leave(c)

Next == Accept \/ Refuse \/ Admit \/ Broadcast \/ \E c \in Conns : Client(c) \/ Task(c)

Spec == Init /\ [][Next]_vars

(***************************************************************************)
(* The runtime polls every task that can do something, and select! chooses *)
(* at random between branches that are ready, so that a branch that is     *)
(* ready again and again is some time taken (for the tasks of clients that *)
(* send nothing that says no more than the first).  Of the clients only    *)
(* the Readers are fair, and only in reading.                              *)
(***************************************************************************)
FairSpec ==
    /\ Spec
    /\ \A c \in Conns : WF_vars(Task(c))
    /\ \A c \in Talkers : SF_vars(Recv(c) \/ Lagged(c)) /\ SF_vars(ReadUp(c))
    /\ \A c \in Readers : WF_vars(ReadDown(c))

-----------------------------------------------------------------------------
TypeOK ==
    /\ link \in [Conns -> {"none", "open", "closed"}]
    /\ backlog \in Seq(Conns)
    /\ accepting \in Seq([conn : Conns, current : Nat]) /\ Len(accepting) <= 1
    /\ client_count \in Nat
    /\ task \in [Conns -> Tasks]
    /\ published \in Nat
    /\ next \in [Conns -> Nat \ {0}] /\ hand \in [Conns -> Nat]
    /\ down \in [Conns -> Seq(Nat)] /\ up \in [Conns -> BOOLEAN]
    /\ last \in [Conns -> Nat]

\* The count is the number of clients being served and never passes the
\* limit, though it is tested and incremented in separate steps and every way
\* out of a task has to give its place back.
ServedConns == {c \in Conns : task[c] \in Served}
PlacesAreServed ==
    /\ client_count = Cardinality(ServedConns)
    /\ client_count <= MAX_CLIENTS

\* What is on its way to a client, oldest first.
InFlight(c) == down[c] \o (IF hand[c] = 0 THEN << >> ELSE <<hand[c]>>)

Increasing(q, low, high) ==
    /\ low < high
    /\ \A i \in DOMAIN q : low < q[i] /\ q[i] < high
    /\ \A i, j \in DOMAIN q : i < j => q[i] < q[j]

\* However far a client falls behind and whichever branch its task takes: the
\* frames it gets are in the order of reception and none comes twice.
InOrder == \A c \in Conns : Increasing(InFlight(c), last[c], next[c])

\* The inductive form of the three.  Nobody is admitted twice, and while a
\* connection is being admitted the count can only fall; a task holds a frame
\* exactly while it writes (or has failed to).
Admission ==
    /\ \A c \in Conns : task[c] # "none" => link[c] # "none"
    /\ \A i \in DOMAIN backlog : link[backlog[i]] # "none" /\ task[backlog[i]] = "none"
    /\ \A i, j \in DOMAIN backlog : i # j => backlog[i] # backlog[j]
    /\ accepting # << >> =>
         /\ link[accepting[1].conn] # "none" /\ task[accepting[1].conn] = "none"
         /\ \A i \in DOMAIN backlog : backlog[i] # accepting[1].conn
         /\ client_count <= accepting[1].current
Hands ==
    \A c \in Conns :
        /\ task[c] \in {"none", "select"} => hand[c] = 0
        /\ task[c] = "writing" => hand[c] # 0
        /\ next[c] <= published + 1
IInv == TypeOK /\ PlacesAreServed /\ InOrder /\ Admission /\ Hands

\* A client that stays and goes on reading gets the newest frame, whether or
\* not it lagged on the way, and whatever the other clients do or fail to do.
NewestArrives ==
    \A c \in Readers :
        (task[c] \in Served /\ next[c] <= published /\ published = MaxFrames)
            ~> (last[c] = MaxFrames \/ link[c] = "closed")

\* A client that goes on reading is also heard: write_all, which keeps its task
\* from reading, never keeps it for ever.
ReaderIsHeard ==
    \A c \in Readers :
        (task[c] \in Served /\ up[c]) ~> (~up[c] \/ link[c] = "closed")

\* The place of a client that has gone is free again, even when its task was
\* waiting in a write.
PlaceIsGivenBack ==
    \A c \in Conns : (task[c] \in Served /\ link[c] = "closed") ~> task[c] = "ended"
=============================================================================
