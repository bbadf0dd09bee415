----------------------------- MODULE Desktop_proofs -----------------------------
(***************************************************************************)
(* Three parts of the desktop TNC, which share nothing.                    *)
(*                                                                         *)
(* The KISS server counts its clients right, and keeps the frames of each  *)
(* of them in order, for any number of connections and any sizes.          *)
(*                                                                         *)
(* What one client sends reaches the transmit engine, whatever its reads   *)
(* cut and the channel loses, but for one frame each time that something   *)
(* is upset.                                                               *)
(*                                                                         *)
(* The terminal UI never loses track of an audio thread, however many are  *)
(* started, whatever keys are pressed when, and however small the channel. *)
(***************************************************************************)
EXTENDS KissServer, KissUplink, TuiAudio, KissDecoder_proofs, SequenceTheorems

-----------------------------------------------------------------------------
(* The KISS server: its invariant IInv is that of KissServer.tla.          *)

\* An increasing sequence between two bounds, taken up at its end, taken off
\* at its beginning, and under a higher bound.
LEMMA IncreasingAppend ==
    ASSUME NEW q \in Seq(Nat), NEW low \in Nat, NEW high \in Nat,
           Increasing(q, low, high)
    PROVE  Increasing(Append(q, high), low, high + 1)
  BY DEF Increasing

LEMMA IncreasingTail ==
    ASSUME NEW q \in Seq(Nat), NEW low \in Nat, NEW high \in Nat,
           q # << >>, Increasing(q, low, high)
    PROVE  Head(q) \in Nat /\ Increasing(Tail(q), Head(q), high)
<1>1. /\ Len(q) \in Nat \ {0} /\ Head(q) = q[1] /\ q[1] \in Nat /\ DOMAIN q = 1 .. Len(q)
      /\ DOMAIN Tail(q) = 1 .. Len(q) - 1
      /\ \A i \in 1 .. Len(q) - 1 : Tail(q)[i] = q[i + 1]
  OBVIOUS
<1>0. \A i \in 1 .. Len(q) - 1 : i \in Int /\ 1 \in DOMAIN q /\ i + 1 \in DOMAIN q /\ 1 < i + 1
  BY <1>1
<1>2. \A i \in 1 .. Len(q) - 1 : q[1] < q[i + 1] /\ q[i + 1] < high
  BY <1>0 DEF Increasing
<1>3. \A i, j \in 1 .. Len(q) - 1 : i < j => q[i + 1] < q[j + 1]
  <2>1. \A i, j \in 1 .. Len(q) - 1 : i < j => i + 1 < j + 1
    BY <1>0
  <2>. QED
    BY <1>0, <2>1 DEF Increasing
<1>4. Head(q) < high
  BY <1>1 DEF Increasing
<1>5. \A i \in DOMAIN Tail(q) : Head(q) < Tail(q)[i] /\ Tail(q)[i] < high
  BY <1>1, <1>2
<1>6. \A i, j \in DOMAIN Tail(q) : i < j => Tail(q)[i] < Tail(q)[j]
  <2>1. PICK r : r = Tail(q)
    OBVIOUS
  <2>2. DOMAIN r = 1 .. Len(q) - 1 /\ \A i \in 1 .. Len(q) - 1 : r[i] = q[i + 1]
    BY <1>1, <2>1
  <2>3. \A i, j \in DOMAIN r : i < j => r[i] < r[j]
    BY ONLY <1>3, <2>2
  <2>. QED
    BY <2>1, <2>3
<1>. QED
  BY ONLY <1>1, <1>4, <1>5, <1>6 DEF Increasing

LEMMA IncreasingHigher ==
    ASSUME NEW q \in Seq(Nat), NEW low \in Nat, NEW high \in Nat, NEW higher \in Nat,
           high <= higher, Increasing(q, low, high)
    PROVE  Increasing(q, low, higher)
  BY DEF Increasing

\* The head and the tail of what is in flight are those of the socket, as long
\* as the socket holds anything.
LEMMA HeadOfConcat ==
    ASSUME NEW s \in Seq(Nat), NEW t \in Seq(Nat), s # << >>
    PROVE  s \o t # << >> /\ Head(s \o t) = Head(s) /\ Tail(s \o t) = Tail(s) \o t
<1>1. /\ Len(s) \in Nat \ {0} /\ Len(t) \in Nat
      /\ s \o t \in Seq(Nat) /\ Len(s \o t) = Len(s) + Len(t)
      /\ Tail(s) \in Seq(Nat) /\ Len(Tail(s)) = Len(s) - 1
  OBVIOUS
<1>2. s \o t # << >> /\ Head(s \o t) = Head(s)
  BY <1>1
<1>3. /\ Tail(s \o t) \in Seq(Nat) /\ Tail(s) \o t \in Seq(Nat)
      /\ Len(Tail(s \o t)) = Len(Tail(s) \o t)
  BY <1>1, <1>2
<1>4. \A i \in 1 .. Len(Tail(s \o t)) : Tail(s \o t)[i] = (Tail(s) \o t)[i]
  BY <1>1, <1>2
<1>. QED
  BY <1>2, <1>3, <1>4

LEMMA InFlightIsSeq ==
    ASSUME TypeOK, NEW c \in Conns
    PROVE  InFlight(c) \in Seq(Nat)
  BY DEF TypeOK, InFlight

LEMMA OldestFacts ==
    ASSUME TypeOK
    PROVE  Oldest \in Nat \ {0} /\ Oldest <= published + 1
  BY ServerAssumption DEF TypeOK, Oldest

-----------------------------------------------------------------------------
\* Counting the served connections when one comes or goes.
LEMMA ServedFinite == IsFiniteSet(ServedConns) /\ Cardinality(ServedConns) \in Nat
<1>1. ServedConns \subseteq Conns
  BY DEF ServedConns
<1>. QED
  BY <1>1, ServerAssumption, FS_Subset, FS_CardinalityType

LEMMA OneMore ==
    ASSUME NEW c \in Conns, task \in [Conns -> Tasks], task[c] \notin Served,
           NEW t \in Served, task' = [task EXCEPT ![c] = t]
    PROVE  Cardinality(ServedConns') = Cardinality(ServedConns) + 1
<1>1. ServedConns' = ServedConns \cup {c} /\ c \notin ServedConns
  BY DEF ServedConns
<1>. QED
  BY <1>1, ServedFinite, FS_AddElement

LEMMA OneLess ==
    ASSUME NEW c \in Conns, task \in [Conns -> Tasks], task[c] \in Served,
           NEW t, t \notin Served, task' = [task EXCEPT ![c] = t]
    PROVE  /\ Cardinality(ServedConns') = Cardinality(ServedConns) - 1
           /\ Cardinality(ServedConns) > 0
<1>1. ServedConns' = ServedConns \ {c} /\ c \in ServedConns
  BY DEF ServedConns
<1>2. Cardinality(ServedConns') = Cardinality(ServedConns) - 1
  BY <1>1, ServedFinite, FS_RemoveElement
<1>3. IsFiniteSet(ServedConns') /\ Cardinality(ServedConns') \in Nat
  BY <1>1, ServedFinite, FS_RemoveElement, FS_CardinalityType
<1>. QED
  BY <1>2, <1>3, ServedFinite

LEMMA SameServed ==
    ASSUME NEW c \in Conns, task \in [Conns -> Tasks], NEW t,
           task[c] \in Served <=> t \in Served, task' = [task EXCEPT ![c] = t]
    PROVE  ServedConns' = ServedConns
  BY DEF ServedConns

\* What happens on a connection of which no frame moves.
LEMMA InOrderUnchanged ==
    ASSUME InOrder, UNCHANGED <<next, hand, down, last>>
    PROVE  InOrder'
  BY DEF InOrder, InFlight

\* A count that follows the set of served connections.
LEMMA PlacesUnchanged ==
    ASSUME PlacesAreServed, UNCHANGED client_count, ServedConns' = ServedConns
    PROVE  PlacesAreServed'
  BY DEF PlacesAreServed

LEMMA InitIInv == Init => IInv
<1>. SUFFICES ASSUME Init
              PROVE  IInv
  OBVIOUS
<1>1. TypeOK
  BY DEF Init, TypeOK, Tasks
<1>2. PlacesAreServed
  <2>1. ServedConns = {}
    BY DEF Init, ServedConns, Served
  <2>. QED
    BY <2>1, FS_EmptySet, ServerAssumption DEF Init, PlacesAreServed
<1>3. InOrder
  BY DEF Init, InOrder, InFlight, Increasing
<1>4. Admission /\ Hands
  BY DEF Init, Admission, Hands
<1>. QED
  BY <1>1, <1>2, <1>3, <1>4 DEF IInv

-----------------------------------------------------------------------------
(* The clients *)
LEMMA ConnectKeepsIInv ==
    ASSUME IInv, NEW c \in Conns, Connect(c)
    PROVE  IInv'
<1>1. TypeOK'
  BY DEF IInv, TypeOK, Connect, clientVars, serverVars
<1>2. PlacesAreServed' /\ InOrder' /\ Hands'
  BY DEF IInv, Connect, clientVars, serverVars, PlacesAreServed, ServedConns, InOrder, InFlight, Hands
<1>3. Admission'
  <2>1. /\ backlog \in Seq(Conns) /\ backlog' = Append(backlog, c)
        /\ link' = [link EXCEPT ![c] = "open"] /\ link \in [Conns -> {"none", "open", "closed"}]
        /\ UNCHANGED <<task, accepting, client_count>> /\ link[c] = "none" /\ task[c] = "none"
        /\ accepting \in Seq([conn : Conns, current : Nat])
    BY DEF IInv, TypeOK, Connect, clientVars, serverVars, Admission
  <2>2. \A i \in DOMAIN backlog : backlog[i] # c
    BY <2>1 DEF IInv, Admission
  <2>3. accepting # << >> => accepting[1].conn # c
    BY <2>1 DEF IInv, Admission
  <2>4. \A i \in DOMAIN backlog' : backlog'[i] = c \/ (i \in DOMAIN backlog /\ backlog'[i] = backlog[i])
    BY <2>1
  <2>5. \A i, j \in DOMAIN backlog' : i # j => backlog'[i] # backlog'[j]
    BY <2>1, <2>2 DEF IInv, Admission
  <2>. QED
    BY <2>1, <2>2, <2>3, <2>4, <2>5 DEF IInv, Admission
<1>. QED
  BY <1>1, <1>2, <1>3 DEF IInv

LEMMA SendUpKeepsIInv ==
    ASSUME IInv, NEW c \in Conns, SendUp(c)
    PROVE  IInv'
  BY DEF IInv, TypeOK, SendUp, clientVars, serverVars, PlacesAreServed, ServedConns, InOrder, InFlight,
         Admission, Hands

LEMMA CloseKeepsIInv ==
    ASSUME IInv, NEW c \in Conns, Close(c)
    PROVE  IInv'
<1>1. TypeOK'
  BY DEF IInv, TypeOK, Close, clientVars, serverVars
<1>2. PlacesAreServed' /\ InOrder' /\ Hands'
  BY DEF IInv, Close, clientVars, serverVars, PlacesAreServed, ServedConns, InOrder, InFlight, Hands
<1>3. Admission'
  BY DEF IInv, TypeOK, Close, clientVars, serverVars, Admission
<1>. QED
  BY <1>1, <1>2, <1>3 DEF IInv

\* What the client reads is the head of what is in flight.
LEMMA ReadDownTakesHead ==
    ASSUME IInv, NEW c \in Conns, ReadDown(c)
    PROVE  /\ InFlight(c)' = Tail(InFlight(c)) /\ last'[c] = Head(InFlight(c))
           /\ InFlight(c) # << >>
<1>. DEFINE inHand == IF hand[c] = 0 THEN << >> ELSE <<hand[c]>>
<1>1. /\ down[c] \in Seq(Nat) /\ down[c] # << >> /\ hand' = hand /\ hand[c] \in Nat
      /\ down'[c] = Tail(down[c]) /\ last'[c] = Head(down[c])
  BY DEF IInv, TypeOK, ReadDown
<1>2. inHand \in Seq(Nat)
  BY <1>1
<1>3. InFlight(c) = down[c] \o inHand /\ InFlight(c)' = Tail(down[c]) \o inHand
  BY <1>1 DEF InFlight
<1>4. PICK s \in Seq(Nat), t \in Seq(Nat) : s = down[c] /\ t = inHand /\ s # << >>
  BY <1>1, <1>2
<1>5. s \o t # << >> /\ Head(s \o t) = Head(s) /\ Tail(s \o t) = Tail(s) \o t
  BY <1>4, HeadOfConcat
<1>. HIDE DEF inHand
<1>. QED
  BY <1>1, <1>3, <1>4, <1>5

LEMMA ReadDownKeepsIInv ==
    ASSUME IInv, NEW c \in Conns, ReadDown(c)
    PROVE  IInv'
<1>1. TypeOK'
  <2>1. down[c] \in Seq(Nat) /\ down[c] # << >> /\ Head(down[c]) \in Nat /\ Tail(down[c]) \in Seq(Nat)
    BY DEF IInv, TypeOK, ReadDown
  <2>2. down' \in [Conns -> Seq(Nat)] /\ last' \in [Conns -> Nat]
    BY <2>1 DEF IInv, TypeOK, ReadDown
  <2>. QED
    BY <2>2 DEF IInv, TypeOK, ReadDown, clientVars, serverVars
<1>2. PlacesAreServed' /\ Admission' /\ Hands'
  BY DEF IInv, ReadDown, clientVars, serverVars, PlacesAreServed, ServedConns, Admission, Hands
<1>3. InOrder'
  <2>1. /\ InFlight(c)' = Tail(InFlight(c)) /\ last'[c] = Head(InFlight(c))
        /\ InFlight(c) # << >>
    BY ReadDownTakesHead
  <2>2. Increasing(InFlight(c)', last'[c], next'[c])
    BY <2>1, InFlightIsSeq, IncreasingTail DEF IInv, TypeOK, ReadDown, clientVars, serverVars, InOrder
  <2>3. \A d \in Conns \ {c} : /\ InFlight(d)' = InFlight(d)
                               /\ last'[d] = last[d] /\ next'[d] = next[d]
    BY DEF IInv, TypeOK, ReadDown, clientVars, serverVars, InFlight
  <2>. QED
    BY <2>2, <2>3 DEF IInv, InOrder
<1>. QED
  BY <1>1, <1>2, <1>3 DEF IInv

-----------------------------------------------------------------------------
(* The accepting loop *)
LEMMA AcceptKeepsIInv ==
    ASSUME IInv, Accept
    PROVE  IInv'
<1>1. TypeOK'
  <2>1. /\ backlog \in Seq(Conns) /\ backlog # << >> /\ client_count \in Nat
        /\ accepting' = <<[conn |-> Head(backlog), current |-> client_count]>>
        /\ backlog' = Tail(backlog)
    BY DEF IInv, TypeOK, Accept
  <2>2. backlog' \in Seq(Conns) /\ Head(backlog) \in Conns
    BY <2>1
  <2>3. accepting' \in Seq([conn : Conns, current : Nat]) /\ Len(accepting') <= 1
    BY <2>1, <2>2
  <2>. QED
    BY <2>2, <2>3 DEF IInv, TypeOK, Accept
<1>2. PlacesAreServed' /\ InOrder' /\ Hands'
  BY DEF IInv, Accept, clientVars, serverVars, PlacesAreServed, ServedConns, InOrder, InFlight, Hands
<1>3. Admission'
  <2>1. /\ backlog \in Seq(Conns) /\ backlog # << >> /\ backlog' = Tail(backlog)
        /\ accepting' = <<[conn |-> Head(backlog), current |-> client_count]>>
        /\ client_count \in Nat /\ UNCHANGED <<link, task, client_count>>
    BY DEF IInv, TypeOK, Accept, clientVars, serverVars
  <2>2. Head(backlog) = backlog[1] /\ 1 \in DOMAIN backlog
    BY <2>1
  <2>3. \A i \in DOMAIN backlog' : /\ i + 1 \in DOMAIN backlog /\ backlog'[i] = backlog[i + 1]
                                  /\ i + 1 # 1
    BY <2>1
  <2>4. accepting'[1].conn = backlog[1] /\ accepting'[1].current = client_count
    BY <2>1, <2>2
  <2>5. \A i, j \in DOMAIN backlog' : i # j => i + 1 # j + 1
    BY <2>1
  <2>. QED
    BY <2>1, <2>2, <2>3, <2>4, <2>5 DEF IInv, Admission
<1>. QED
  BY <1>1, <1>2, <1>3 DEF IInv

LEMMA AcceptingFacts ==
    ASSUME TypeOK, accepting # << >>
    PROVE  accepting[1].conn \in Conns /\ accepting[1].current \in Nat
<1>1. accepting[1] \in [conn : Conns, current : Nat]
  <2>1. \A S : \A s \in Seq(S) : s # << >> => s[1] \in S
    OBVIOUS
  <2>. QED
    BY <2>1 DEF TypeOK
<1>. QED
  BY <1>1

LEMMA RefuseKeepsIInv ==
    ASSUME IInv, Refuse
    PROVE  IInv'
<1>. DEFINE c == accepting[1].conn
<1>1. /\ c \in Conns /\ task[c] = "none" /\ link[c] # "none"
      /\ task' = [task EXCEPT ![c] = "refused"] /\ task \in [Conns -> Tasks]
      /\ accepting' = << >>
      /\ UNCHANGED <<clientVars, client_count, published, next, hand, down, up, last>>
  BY AcceptingFacts DEF IInv, TypeOK, Refuse, clientVars, serverVars, Admission
<1>2. TypeOK'
  BY <1>1 DEF IInv, TypeOK, Tasks, clientVars
<1>3. PlacesAreServed'
  BY <1>1, SameServed, PlacesUnchanged DEF IInv, Served
<1>4. Admission'
  <2>1. \A i \in DOMAIN backlog : backlog[i] # c /\ backlog[i] \in Conns
    BY DEF IInv, TypeOK, Refuse, clientVars, serverVars, Admission
  <2>. QED
    BY <1>1, <2>1 DEF IInv, Admission, clientVars
<1>5. InOrder' /\ Hands'
  BY <1>1, InOrderUnchanged DEF IInv, Hands
<1>. QED
  BY <1>2, <1>3, <1>4, <1>5 DEF IInv

LEMMA AdmitKeepsIInv ==
    ASSUME IInv, Admit
    PROVE  IInv'
<1>. DEFINE c == accepting[1].conn
<1>1. /\ c \in Conns /\ task[c] = "none" /\ link[c] # "none"
      /\ task' = [task EXCEPT ![c] = "select"] /\ task \in [Conns -> Tasks]
      /\ next' = [next EXCEPT ![c] = published + 1] /\ next \in [Conns -> Nat \ {0}]
      /\ published \in Nat /\ client_count \in Nat
      /\ accepting' = << >> /\ client_count' = client_count + 1
      /\ UNCHANGED <<clientVars, published, hand, down, up, last>>
  <2>0. TypeOK /\ Admission /\ accepting # << >>
    BY DEF IInv, Admit
  <2>1. c \in Conns /\ task[c] = "none" /\ link[c] # "none"
    BY <2>0, AcceptingFacts DEF Admission
  <2>2. task \in [Conns -> Tasks] /\ next \in [Conns -> Nat \ {0}]
        /\ published \in Nat /\ client_count \in Nat
    BY DEF IInv, TypeOK
  <2>3. /\ task' = [task EXCEPT ![c] = "select"] /\ next' = [next EXCEPT ![c] = published + 1]
        /\ accepting' = << >> /\ client_count' = client_count + 1
        /\ UNCHANGED <<clientVars, published, hand, down, up, last>>
    BY <2>1, <2>2 DEF IInv, TypeOK, Admit, Admission
  <2>. QED
    BY <2>1, <2>2, <2>3
<1>2. TypeOK'
  <2>1. "select" \in Tasks
    BY DEF Tasks, Served
  <2>2. task' \in [Conns -> Tasks] /\ next' \in [Conns -> Nat \ {0}] /\ client_count' \in Nat
    BY <1>1, <2>1
  <2>3. accepting' \in Seq([conn : Conns, current : Nat]) /\ Len(accepting') <= 1
    BY <1>1
  <2>. HIDE DEF c
  <2>. QED
    BY <1>1, <2>2, <2>3 DEF IInv, TypeOK, clientVars
<1>3. PlacesAreServed'
  <2>1. Cardinality(ServedConns') = Cardinality(ServedConns) + 1
    BY <1>1, OneMore DEF Served
  <2>2. client_count < MAX_CLIENTS
    <3>1. /\ accepting[1].current \in Nat /\ ~(accepting[1].current >= MAX_CLIENTS)
          /\ client_count <= accepting[1].current
      BY AcceptingFacts DEF IInv, Admit, Admission, Refuses
    <3>. QED
      BY <1>1, <3>1, ServerAssumption
  <2>. QED
    BY <1>1, <2>1, <2>2, ServerAssumption DEF IInv, PlacesAreServed
<1>4. Admission'
  <2>1. \A i \in DOMAIN backlog : backlog[i] # c /\ backlog[i] \in Conns
    BY DEF IInv, TypeOK, Admit, clientVars, serverVars, Admission
  <2>. QED
    BY <1>1, <2>1 DEF IInv, Admission, clientVars
<1>5. InOrder'
  <2>1. Increasing(InFlight(c), last[c], published + 1)
    <3>1. /\ InFlight(c) \in Seq(Nat) /\ last[c] \in Nat /\ next[c] \in Nat
          /\ Increasing(InFlight(c), last[c], next[c]) /\ next[c] <= published + 1
      BY <1>1, InFlightIsSeq DEF IInv, TypeOK, InOrder, Hands
    <3>. QED
      BY <1>1, <3>1, IncreasingHigher
  <2>. QED
    BY <1>1, <2>1 DEF IInv, InOrder, InFlight
<1>6. Hands'
  BY <1>1 DEF IInv, Hands
<1>. QED
  BY <1>2, <1>3, <1>4, <1>5, <1>6 DEF IInv

-----------------------------------------------------------------------------
(* A client's task *)
LEMMA BroadcastKeepsIInv ==
    ASSUME IInv, Broadcast
    PROVE  IInv'
<1>1. TypeOK' /\ PlacesAreServed' /\ Admission'
  BY DEF IInv, TypeOK, Broadcast, PlacesAreServed, ServedConns, Admission, clientVars,
         serverVars
<1>2. InOrder'
  BY InOrderUnchanged DEF IInv, Broadcast
<1>3. Hands'
  BY DEF IInv, TypeOK, Broadcast, Hands
<1>. QED
  BY <1>1, <1>2, <1>3 DEF IInv

\* A step of a task that is served before and after it.
LEMMA StaysServed ==
    ASSUME IInv, NEW c \in Conns, task[c] \in Served, NEW t \in Served,
           task' = [task EXCEPT ![c] = t], UNCHANGED <<clientVars, serverVars>>
    PROVE  PlacesAreServed' /\ Admission'
<1>1. task \in [Conns -> Tasks] /\ task[c] # "none" /\ t # "none"
  BY DEF IInv, TypeOK, Served
<1>2. PlacesAreServed'
  BY <1>1, SameServed, PlacesUnchanged DEF IInv, serverVars
<1>3. Admission'
  <2>1. \A i \in DOMAIN backlog : backlog[i] # c /\ backlog[i] \in Conns
    BY <1>1 DEF IInv, TypeOK, Admission
  <2>2. accepting # << >> => accepting[1].conn # c /\ accepting[1].conn \in Conns
    BY <1>1, AcceptingFacts DEF IInv, Admission
  <2>. QED
    BY <1>1, <2>1, <2>2 DEF IInv, Admission, clientVars, serverVars
<1>. QED
  BY <1>2, <1>3

LEMMA RecvKeepsIInv ==
    ASSUME IInv, NEW c \in Conns, Recv(c)
    PROVE  IInv'
<1>1. /\ task[c] = "select" /\ hand[c] = 0 /\ task \in [Conns -> Tasks]
      /\ next[c] \in Nat \ {0} /\ next[c] <= published /\ published \in Nat
      /\ hand' = [hand EXCEPT ![c] = next[c]] /\ next' = [next EXCEPT ![c] = next[c] + 1]
      /\ task' = [task EXCEPT ![c] = "writing"]
      /\ UNCHANGED <<clientVars, serverVars, published, down, up, last>>
  BY OldestFacts DEF IInv, TypeOK, Recv, Hands
<1>2. TypeOK'
  BY <1>1 DEF IInv, TypeOK, Tasks, Served, clientVars, serverVars
<1>3. PlacesAreServed' /\ Admission'
  BY <1>1, StaysServed DEF Served
<1>4. InOrder'
  <2>1. InFlight(c)' = Append(InFlight(c), next[c])
    BY <1>1 DEF IInv, TypeOK, InFlight
  <2>2. Increasing(InFlight(c)', last[c], next[c] + 1)
    BY <1>1, <2>1, InFlightIsSeq, IncreasingAppend DEF IInv, TypeOK, InOrder
  <2>3. \A d \in Conns \ {c} : InFlight(d)' = InFlight(d) /\ next'[d] = next[d]
    BY <1>1 DEF IInv, TypeOK, InFlight
  <2>. QED
    BY <1>1, <2>2, <2>3 DEF IInv, TypeOK, InOrder
<1>5. Hands'
  BY <1>1 DEF IInv, TypeOK, Hands
<1>. QED
  BY <1>2, <1>3, <1>4, <1>5 DEF IInv

LEMMA LaggedKeepsIInv ==
    ASSUME IInv, NEW c \in Conns, Lagged(c)
    PROVE  IInv'
<1>1. /\ Oldest \in Nat \ {0} /\ Oldest <= published + 1 /\ next[c] \in Nat
      /\ next[c] < Oldest /\ next' = [next EXCEPT ![c] = Oldest]
      /\ UNCHANGED <<clientVars, serverVars, task, published, hand, down, up, last>>
  BY OldestFacts DEF IInv, TypeOK, Lagged, LaggedGoesOn
<1>. HIDE DEF Oldest
<1>2. TypeOK'
  BY <1>1 DEF IInv, TypeOK, clientVars, serverVars
<1>3. PlacesAreServed' /\ Admission'
  BY <1>1 DEF IInv, PlacesAreServed, ServedConns, Admission, clientVars, serverVars
<1>4. InOrder'
  <2>1. Increasing(InFlight(c), last[c], Oldest)
    <3>1. /\ InFlight(c) \in Seq(Nat) /\ last[c] \in Nat /\ next[c] <= Oldest
          /\ Increasing(InFlight(c), last[c], next[c])
      BY <1>1, InFlightIsSeq DEF IInv, TypeOK, InOrder
    <3>. QED
      BY <1>1, <3>1, IncreasingHigher
  <2>. QED
    BY <1>1, <2>1 DEF IInv, TypeOK, InOrder, InFlight
<1>5. Hands'
  BY <1>1 DEF IInv, TypeOK, Hands
<1>. QED
  BY <1>2, <1>3, <1>4, <1>5 DEF IInv

LEMMA WriteKeepsIInv ==
    ASSUME IInv, NEW c \in Conns, Write(c)
    PROVE  IInv'
<1>1. /\ task[c] = "writing" /\ hand[c] \in Nat \ {0} /\ task \in [Conns -> Tasks]
      /\ down' = [down EXCEPT ![c] = Append(down[c], hand[c])]
      /\ hand' = [hand EXCEPT ![c] = 0] /\ task' = [task EXCEPT ![c] = "select"]
      /\ UNCHANGED <<clientVars, serverVars, published, next, up, last>>
  BY DEF IInv, TypeOK, Write, WriteDone, Hands
<1>2. TypeOK'
  BY <1>1 DEF IInv, TypeOK, Tasks, Served, clientVars, serverVars
<1>3. PlacesAreServed' /\ Admission'
  BY <1>1, StaysServed DEF Served
<1>4. InOrder'
  <2>1. InFlight(c)' = InFlight(c)
    BY <1>1 DEF IInv, TypeOK, InFlight
  <2>2. \A d \in Conns \ {c} : InFlight(d)' = InFlight(d)
    BY <1>1 DEF IInv, TypeOK, InFlight
  <2>. QED
    BY <1>1, <2>1, <2>2 DEF IInv, InOrder
<1>5. Hands'
  BY <1>1 DEF IInv, TypeOK, Hands
<1>. QED
  BY <1>2, <1>3, <1>4, <1>5 DEF IInv

\* The two ways out of the loop, after a failed write or a failed read.
LEMMA EndingKeepsIInv ==
    ASSUME IInv, NEW c \in Conns, WriteFails(c) \/ ReadEnds(c)
    PROVE  IInv'
<1>1. /\ task[c] \in Served /\ task \in [Conns -> Tasks]
      /\ task' = [task EXCEPT ![c] = "ending"]
      /\ UNCHANGED <<clientVars, serverVars, published, next, hand, down, up, last>>
  BY DEF IInv, TypeOK, WriteFails, BreaksOff, ReadEnds, Served, serverVars
<1>2. TypeOK'
  BY <1>1 DEF IInv, TypeOK, Tasks, Served, clientVars, serverVars
<1>3. PlacesAreServed' /\ Admission'
  BY <1>1, StaysServed DEF Served
<1>4. InOrder' /\ Hands'
  BY <1>1, InOrderUnchanged DEF IInv, Hands
<1>. QED
  BY <1>2, <1>3, <1>4 DEF IInv

LEMMA ReadUpKeepsIInv ==
    ASSUME IInv, NEW c \in Conns, ReadUp(c)
    PROVE  IInv'
  BY DEF IInv, TypeOK, ReadUp, clientVars, serverVars, PlacesAreServed, ServedConns,
         InOrder, InFlight, Admission, Hands

LEMMA LeaveKeepsIInv ==
    ASSUME IInv, NEW c \in Conns, Leave(c)
    PROVE  IInv'
<1>1. /\ task[c] = "ending" /\ task \in [Conns -> Tasks] /\ client_count \in Nat
      /\ client_count' = client_count - 1 /\ task' = [task EXCEPT ![c] = "ended"]
      /\ UNCHANGED <<clientVars, accepting, published, next, hand, down, up, last>>
  BY DEF IInv, TypeOK, Leave
<1>2. PlacesAreServed' /\ client_count > 0
  <2>1. /\ Cardinality(ServedConns') = Cardinality(ServedConns) - 1
        /\ Cardinality(ServedConns) > 0
    BY <1>1, OneLess DEF Served
  <2>. QED
    BY <1>1, <2>1, ServerAssumption DEF IInv, PlacesAreServed
<1>3. TypeOK'
  BY <1>1, <1>2 DEF IInv, TypeOK, Tasks, Served, clientVars
<1>4. Admission'
  <2>1. \A i \in DOMAIN backlog : backlog[i] # c /\ backlog[i] \in Conns
    BY <1>1 DEF IInv, TypeOK, Admission
  <2>2. accepting # << >> => /\ accepting[1].conn # c /\ accepting[1].conn \in Conns
                            /\ accepting[1].current \in Nat
    BY <1>1, AcceptingFacts DEF IInv, Admission
  <2>3. link[c] # "none"
    BY <1>1 DEF IInv, Admission
  <2>. QED
    BY <1>1, <2>1, <2>2, <2>3 DEF IInv, Admission, clientVars
<1>5. InOrder' /\ Hands'
  BY <1>1, InOrderUnchanged DEF IInv, Hands
<1>. QED
  BY <1>2, <1>3, <1>4, <1>5 DEF IInv

-----------------------------------------------------------------------------
LEMMA NextIInv == IInv /\ [Next]_vars => IInv'
<1>. SUFFICES ASSUME IInv, [Next]_vars
              PROVE  IInv'
  OBVIOUS
<1>1. CASE UNCHANGED vars
  BY <1>1 DEF IInv, TypeOK, PlacesAreServed, ServedConns, InOrder, InFlight, Admission,
         Hands, vars, clientVars, serverVars
<1>2. CASE Accept \/ Refuse \/ Admit \/ Broadcast
  BY <1>2, AcceptKeepsIInv, RefuseKeepsIInv, AdmitKeepsIInv, BroadcastKeepsIInv
<1>3. ASSUME NEW c \in Conns, Client(c)
      PROVE  IInv'
  BY <1>3, ConnectKeepsIInv, SendUpKeepsIInv, ReadDownKeepsIInv, CloseKeepsIInv DEF Client
<1>4. ASSUME NEW c \in Conns, Task(c)
      PROVE  IInv'
  BY <1>4, RecvKeepsIInv, LaggedKeepsIInv, WriteKeepsIInv, EndingKeepsIInv,
     ReadUpKeepsIInv, LeaveKeepsIInv DEF Task
<1>. QED
  BY <1>1, <1>2, <1>3, <1>4 DEF Next

LEMMA Invariance == Spec => []IInv
  BY InitIInv, NextIInv, PTL DEF Spec

\* Every variable of the server keeps its type; the count never falls below
\* zero, where the code's unsigned counter would wrap.
THEOREM ServerTypeCorrect == Spec => []TypeOK
<1>1. IInv => TypeOK
  BY DEF IInv
<1>. QED
  BY <1>1, Invariance, PTL

\* For any number of connections and any limit: the count is that of the
\* clients being served, and the limit is kept.
THEOREM PlacesCounted == Spec => []PlacesAreServed
<1>1. IInv => PlacesAreServed
  BY DEF IInv
<1>. QED
  BY <1>1, Invariance, PTL

\* For any size of the channel and of the sockets: a client gets frames in the
\* order of reception, none of them twice, however often it lags.
THEOREM FramesInOrder == Spec => []InOrder
<1>1. IInv => InOrder
  BY DEF IInv
<1>. QED
  BY <1>1, Invariance, PTL

\* The newest frame that a task has taken for its client, and a client for which
\* it has not taken any.
Fresh(c) == last[c] = 0 /\ InFlight(c) = << >>
Newest(c) == IF InFlight(c) = << >> THEN last[c] ELSE InFlight(c)[Len(InFlight(c))]

\* A receiver that has come to the end of the channel has taken the newest frame
\* for its client, whatever it skipped before, or has not taken any yet.
UpToDate ==
    \A c \in Conns :
        /\ task[c] = "none" => Fresh(c)
        /\ next[c] = published + 1 => Fresh(c) \/ Newest(c) = published

LEMMA LastStays ==
    ASSUME NEW q \in Seq(Nat), q # << >>
    PROVE  q[Len(q)] = IF Tail(q) = << >> THEN Head(q) ELSE Tail(q)[Len(Tail(q))]
<1>1. Len(q) \in Nat \ {0} /\ Tail(q) \in Seq(Nat) /\ Len(Tail(q)) = Len(q) - 1
  OBVIOUS
<1>2. CASE Len(q) = 1
  <2>1. Len(Tail(q)) = 0 /\ q[Len(q)] = Head(q)
    BY <1>1, <1>2
  <2>2. Tail(q) = << >>
    BY <1>1, <2>1, EmptySeq
  <2>. QED
    BY <2>1, <2>2
<1>3. CASE Len(q) > 1
  <2>1. PICK t \in Seq(Nat) : t = Tail(q) /\ Len(t) = Len(q) - 1
    BY <1>1
  <2>2. t # << >> /\ Len(t) \in 1 .. Len(t)
    <3>1. Len(t) > 0 /\ Len(t) \in Nat
      BY <1>1, <1>3, <2>1
    <3>2. Len(<< >>) = 0
      OBVIOUS
    <3>3. t # << >>
      BY <3>1, <3>2
    <3>. QED
      BY <3>1, <3>3
  <2>3. t[Len(t)] = q[Len(q)]
    BY <1>1, <2>1, <2>2
  <2>. QED
    BY <2>1, <2>2, <2>3
<1>. QED
  BY <1>1, <1>2, <1>3

LEMMA SameUpToDate ==
    ASSUME IInv, UpToDate, NEW c \in Conns,
           UNCHANGED published, InFlight(c)' = InFlight(c),
           last'[c] = last[c], next'[c] = next[c], task'[c] = "none" => task[c] = "none"
    PROVE  /\ task'[c] = "none" => Fresh(c)'
           /\ next'[c] = published' + 1 => Fresh(c)' \/ Newest(c)' = published'
  BY DEF UpToDate, Fresh, Newest

LEMMA StepUpToDate == IInv /\ UpToDate /\ [Next]_vars => UpToDate'
<1>. SUFFICES ASSUME IInv, UpToDate, [Next]_vars, NEW c \in Conns
              PROVE  /\ task'[c] = "none" => Fresh(c)'
                     /\ next'[c] = published' + 1 => Fresh(c)' \/ Newest(c)' = published'
  BY DEF UpToDate
<1>. DEFINE Goal == /\ task'[c] = "none" => Fresh(c)'
                    /\ next'[c] = published' + 1 => Fresh(c)' \/ Newest(c)' = published'
<1>1. /\ task \in [Conns -> Tasks] /\ down \in [Conns -> Seq(Nat)]
      /\ hand \in [Conns -> Nat] /\ last \in [Conns -> Nat]
      /\ next \in [Conns -> Nat \ {0}] /\ published \in Nat
  BY DEF IInv, TypeOK
<1>2. CASE Accept \/ UNCHANGED vars
  BY <1>2, SameUpToDate DEF Accept, InFlight, vars, clientVars
<1>3. CASE Refuse
  BY <1>1, <1>3, SameUpToDate DEF Refuse, InFlight
<1>4. CASE Admit
  <2>1. CASE accepting[1].conn = c
    <3>1. task[c] = "none" /\ InFlight(c)' = InFlight(c) /\ last' = last
      BY <1>4, <2>1 DEF IInv, Admission, Admit, InFlight
    <3>2. Fresh(c)'
      BY <3>1 DEF UpToDate, Fresh
    <3>. QED
      BY <3>2
  <2>2. CASE accepting[1].conn # c
    BY <1>1, <1>4, <2>2, SameUpToDate DEF Admit, InFlight
  <2>. QED
    BY <2>1, <2>2
<1>5. CASE Broadcast
  <2>1. /\ published' = published + 1 /\ next'[c] = next[c] /\ next[c] <= published + 1
        /\ InFlight(c)' = InFlight(c) /\ last' = last /\ task' = task
    BY <1>5 DEF IInv, Hands, Broadcast, InFlight
  <2>. QED
    BY <1>1, <2>1 DEF UpToDate, Fresh
<1>6. ASSUME NEW d \in Conns, Client(d) PROVE Goal
  <2>1. CASE Connect(d) \/ SendUp(d) \/ Close(d)
    BY <2>1, SameUpToDate DEF Connect, SendUp, Close, InFlight
  <2>2. CASE ReadDown(d) /\ d # c
    BY <1>1, <2>2, SameUpToDate DEF ReadDown, InFlight, clientVars
  <2>3. CASE ReadDown(d) /\ d = c
    <3>1. /\ InFlight(c)' = Tail(InFlight(c)) /\ last'[c] = Head(InFlight(c))
          /\ InFlight(c) # << >> /\ InFlight(c) \in Seq(Nat)
      BY <2>3, ReadDownTakesHead, InFlightIsSeq DEF IInv
    <3>2. PICK q \in Seq(Nat) : q = InFlight(c) /\ q # << >>
      BY <3>1
    <3>3. q[Len(q)] = IF Tail(q) = << >> THEN Head(q) ELSE Tail(q)[Len(Tail(q))]
      BY <3>2, LastStays
    <3>4. Newest(c)' = Newest(c)
      BY <3>1, <3>2, <3>3 DEF Newest
    <3>5. next' = next /\ published' = published /\ task' = task
      BY <2>3 DEF ReadDown
    <3>. QED
      BY <3>1, <3>4, <3>5 DEF UpToDate, Fresh
  <2>. QED
    BY <1>6, <2>1, <2>2, <2>3 DEF Client
<1>7. ASSUME NEW d \in Conns \ {c}, Task(d) PROVE Goal
  <2>1. CASE Recv(d) \/ Lagged(d) \/ Write(d)
    BY <1>1, <1>7, <2>1, SameUpToDate
    DEF Recv, Lagged, LaggedGoesOn, Write, WriteDone, InFlight
  <2>2. CASE WriteFails(d) \/ ReadUp(d) \/ ReadEnds(d) \/ Leave(d)
    BY <1>1, <1>7, <2>2, SameUpToDate
    DEF WriteFails, BreaksOff, ReadUp, ReadEnds, Leave, InFlight
  <2>. QED
    BY <1>7, <2>1, <2>2 DEF Task
<1>8. CASE Recv(c)
  <2>1. /\ hand[c] = 0 /\ hand'[c] = next[c] /\ next'[c] = next[c] + 1
        /\ task'[c] = "writing" /\ UNCHANGED <<down, published>>
    BY <1>1, <1>8 DEF Recv, IInv, Hands
  <2>2. InFlight(c)' = Append(InFlight(c), next[c]) /\ InFlight(c) \in Seq(Nat)
    BY <1>1, <2>1 DEF InFlight
  <2>3. PICK q \in Seq(Nat), n \in Nat : q = InFlight(c) /\ n = next[c]
    BY <1>1, <2>2
  <2>4. Append(q, n) # << >> /\ Append(q, n)[Len(Append(q, n))] = n
    OBVIOUS
  <2>5. Newest(c)' = next[c]
    BY <2>2, <2>3, <2>4 DEF Newest
  <2>. QED
    BY <1>1, <2>1, <2>5
<1>9. CASE Lagged(c)
  <2>1. /\ next'[c] = Oldest /\ next[c] < Oldest /\ UNCHANGED <<task, published>>
        /\ task[c] = "select"
    BY <1>1, <1>9 DEF Lagged, LaggedGoesOn
  <2>2. Oldest <= published
    BY <1>1, <2>1, ServerAssumption DEF Oldest
  <2>3. Oldest \in Nat
    BY OldestFacts DEF IInv
  <2>. QED
    BY <1>1, <2>1, <2>2, <2>3
<1>10. CASE Write(c)
  <2>1. /\ hand[c] \in Nat \ {0} /\ hand'[c] = 0 /\ down'[c] = Append(down[c], hand[c])
        /\ task'[c] = "select" /\ UNCHANGED <<last, next, published>>
    BY <1>1, <1>10 DEF Write, WriteDone, IInv, Hands
  <2>2. InFlight(c)' = InFlight(c)
    BY <1>1, <2>1 DEF InFlight
  <2>. QED
    BY <2>1, <2>2, SameUpToDate
<1>11. CASE WriteFails(c) \/ ReadUp(c) \/ ReadEnds(c) \/ Leave(c)
  BY <1>1, <1>11, SameUpToDate
  DEF WriteFails, BreaksOff, ReadUp, ReadEnds, Leave, InFlight
<1>. QED
  BY <1>2, <1>3, <1>4, <1>5, <1>6, <1>7, <1>8, <1>9, <1>10, <1>11 DEF Next, Task

\* A client that waits for the server, while its task waits for frames and
\* nothing is on the way, has read the newest frame: nothing is held back from
\* it, however often it lagged.  (Or it has not been sent any.)
NothingWithheld ==
    \A c \in Conns :
        (task[c] = "select" /\ next[c] = published + 1 /\ down[c] = << >>)
            => last[c] \in {0, published}

\* For any number of clients, frames and sizes; NewestArrives, the liveness
\* property, rests on it.
THEOREM QuietIsCurrent == Spec => []NothingWithheld
<1>1. Init => UpToDate
  <2>. SUFFICES ASSUME Init PROVE UpToDate
    OBVIOUS
  <2>1. \A c \in Conns : Fresh(c)
    BY DEF Init, Fresh, InFlight
  <2>. QED
    BY <2>1 DEF UpToDate
<1>2. IInv /\ UpToDate => NothingWithheld
  <2>. SUFFICES ASSUME IInv, UpToDate, NEW c \in Conns, task[c] = "select",
                       next[c] = published + 1, down[c] = << >>
                PROVE  last[c] \in {0, published}
    BY DEF NothingWithheld
  <2>1. InFlight(c) = << >>
    BY DEF InFlight, IInv, Hands
  <2>. QED
    BY <2>1 DEF UpToDate, Fresh, Newest
<1>. QED
  BY <1>1, <1>2, StepUpToDate, Invariance, PTL DEF Spec

-----------------------------------------------------------------------------
(* What keeps the task of a client that has gone: room in the socket, in    *)
(* which each frame costs a receive and a write; the step it is at; and the *)
(* bytes that the client sent before it left.                               *)
Gone(c) == task[c] \in Served /\ link[c] = "closed"

Stage == [select |-> 4, writing |-> 3, ending |-> 1]
StepsLeft(c) ==
    4 * (SOCKET_SIZE - Len(down[c])) + Stage[task[c]] + (IF up[c] THEN 1 ELSE 0)

\* write_all waits for room: a socket never holds more than it takes.
RoomKept == \A c \in Conns : Len(down[c]) <= SOCKET_SIZE

\* Nothing keeps the place of a client that has gone: a step of its task takes
\* it nearer to its end (or catches up, when it lagged, at no cost to what is
\* left), and no step of anyone else takes it further away.
GoneIsDrained ==
    [][\A c \in Conns : Gone(c) =>
          \/ task'[c] = "ended"
          \/ /\ Gone(c)' /\ StepsLeft(c)' <= StepsLeft(c)
             /\ Task(c) /\ ~Lagged(c) => StepsLeft(c)' < StepsLeft(c)]_vars

LEMMA StepRoomKept == IInv /\ RoomKept /\ [Next]_vars => RoomKept'
<1>. SUFFICES ASSUME IInv, RoomKept, [Next]_vars
              PROVE  RoomKept'
  OBVIOUS
<1>1. down \in [Conns -> Seq(Nat)] /\ SOCKET_SIZE \in Nat
  BY ServerAssumption DEF IInv, TypeOK
<1>2. CASE UNCHANGED down
  BY <1>2 DEF RoomKept
<1>3. ASSUME NEW c \in Conns, ReadDown(c) PROVE RoomKept'
  <2>1. Len(Tail(down[c])) <= SOCKET_SIZE
    BY <1>1, <1>3 DEF ReadDown, RoomKept
  <2>. QED
    BY <1>1, <1>3, <2>1 DEF ReadDown, RoomKept
<1>4. ASSUME NEW c \in Conns, Write(c) PROVE RoomKept'
  <2>1. Len(Append(down[c], hand[c])) <= SOCKET_SIZE
    <3>1. hand[c] \in Nat /\ Len(down[c]) < SOCKET_SIZE
      BY <1>4 DEF Write, WriteDone, IInv, TypeOK
    <3>. QED
      BY <1>1, <3>1
  <2>. QED
    BY <1>1, <1>4, <2>1 DEF Write, WriteDone, RoomKept
<1>5. CASE Accept \/ Refuse \/ Admit \/ Broadcast \/ UNCHANGED vars
  BY <1>2, <1>5 DEF Accept, Refuse, Admit, Broadcast, vars
<1>6. ASSUME NEW c \in Conns, Client(c) PROVE RoomKept'
  BY <1>2, <1>3, <1>6 DEF Client, Connect, SendUp, Close
<1>7. ASSUME NEW c \in Conns, Task(c) PROVE RoomKept'
  BY <1>2, <1>4, <1>7 DEF Task, Recv, Lagged, WriteFails, ReadUp, ReadEnds, Leave
<1>. QED
  BY <1>5, <1>6, <1>7 DEF Next

\* A step that is not of the client's task leaves all this alone.
LEMMA OthersLeaveAlone ==
    ASSUME IInv, NEW c \in Conns, Gone(c), [Next]_vars, ~Task(c)
    PROVE  /\ link'[c] = link[c] /\ task'[c] = task[c]
           /\ down'[c] = down[c] /\ up'[c] = up[c]
<1>1. /\ link \in [Conns -> {"none", "open", "closed"}] /\ task \in [Conns -> Tasks]
      /\ down \in [Conns -> Seq(Nat)] /\ up \in [Conns -> BOOLEAN]
      /\ link[c] = "closed" /\ task[c] \in Served
  BY DEF IInv, TypeOK, Gone
<1>2. CASE Accept \/ Broadcast \/ UNCHANGED vars
  BY <1>2 DEF Accept, Broadcast, vars, clientVars
<1>3. CASE Refuse \/ Admit
  <2>1. accepting[1].conn # c
    BY <1>1, <1>3 DEF IInv, Admission, Refuse, Admit, Served
  <2>. QED
    BY <1>1, <1>3, <2>1 DEF Refuse, Admit, clientVars
<1>4. ASSUME NEW d \in Conns, Client(d)
      PROVE  /\ link'[c] = link[c] /\ task'[c] = task[c]
             /\ down'[c] = down[c] /\ up'[c] = up[c]
  <2>1. d # c
    BY <1>1, <1>4 DEF Client, Connect, SendUp, ReadDown, Close
  <2>. QED
    BY <1>1, <1>4, <2>1 DEF Client, Connect, SendUp, ReadDown, Close, clientVars
<1>5. ASSUME NEW d \in Conns \ {c}, Task(d)
      PROVE  /\ link'[c] = link[c] /\ task'[c] = task[c]
             /\ down'[c] = down[c] /\ up'[c] = up[c]
  <2>1. CASE Recv(d) \/ Lagged(d) \/ Write(d)
    BY <1>1, <2>1 DEF Recv, Lagged, LaggedGoesOn, Write, WriteDone, clientVars
  <2>2. CASE WriteFails(d) \/ ReadUp(d) \/ ReadEnds(d) \/ Leave(d)
    BY <1>1, <2>2 DEF WriteFails, BreaksOff, ReadUp, ReadEnds, Leave, clientVars
  <2>. QED
    BY <1>5, <2>1, <2>2 DEF Task
<1>. QED
  BY <1>2, <1>3, <1>4, <1>5 DEF Next

LEMMA StepsLeftIsNat ==
    ASSUME IInv, RoomKept, NEW c \in Conns, Gone(c)
    PROVE  StepsLeft(c) \in Nat
<1>1. Len(down[c]) \in Nat /\ SOCKET_SIZE \in Nat /\ Len(down[c]) <= SOCKET_SIZE
  BY ServerAssumption DEF IInv, TypeOK, RoomKept
<1>2. Stage[task[c]] \in Nat
  BY DEF Stage, Gone, Served
<1>. QED
  BY <1>1, <1>2 DEF StepsLeft

\* A step of the client's own task.
LEMMA TaskNears ==
    ASSUME IInv, NEW c \in Conns, Gone(c), Task(c)
    PROVE  \/ task'[c] = "ended"
           \/ /\ Gone(c)' /\ StepsLeft(c)' <= StepsLeft(c)
              /\ ~Lagged(c) => StepsLeft(c)' < StepsLeft(c)
<1>1. /\ link[c] = "closed" /\ task \in [Conns -> Tasks]
      /\ down \in [Conns -> Seq(Nat)] /\ up \in [Conns -> BOOLEAN]
      /\ Len(down[c]) \in Nat /\ SOCKET_SIZE \in Nat /\ hand[c] \in Nat
  BY ServerAssumption DEF IInv, TypeOK, Gone
<1>2. /\ Stage["select"] = 4 /\ Stage["writing"] = 3 /\ Stage["ending"] = 1
  BY DEF Stage
<1>3. CASE Recv(c)
  <2>1. /\ task[c] = "select" /\ task'[c] = "writing"
        /\ UNCHANGED <<link, down, up>>
    BY <1>1, <1>3 DEF Recv, clientVars
  <2>. QED
    BY <1>1, <1>2, <2>1 DEF Gone, Served, StepsLeft
<1>4. CASE Lagged(c)
  <2>1. UNCHANGED <<link, task, down, up>>
    BY <1>4 DEF Lagged, LaggedGoesOn, clientVars
  <2>2. StepsLeft(c)' = StepsLeft(c) /\ Gone(c)'
    BY <2>1 DEF StepsLeft, Gone
  <2>3. Stage[task[c]] \in Nat
    BY DEF Stage, Gone, Served
  <2>4. StepsLeft(c) \in Int
    BY <1>1, <2>3 DEF StepsLeft
  <2>. QED
    BY <1>4, <2>2, <2>4
<1>5. CASE Write(c)
  <2>1. /\ task[c] = "writing" /\ task'[c] = "select"
        /\ down'[c] = Append(down[c], hand[c]) /\ UNCHANGED <<link, up>>
    BY <1>1, <1>5 DEF Write, WriteDone, clientVars
  <2>2. Len(down'[c]) = Len(down[c]) + 1
    BY <1>1, <2>1
  <2>. QED
    BY <1>1, <1>2, <2>1, <2>2 DEF Gone, Served, StepsLeft
<1>6. CASE WriteFails(c) \/ ReadEnds(c)
  <2>1. /\ task[c] \in {"select", "writing"} /\ task'[c] = "ending"
        /\ UNCHANGED <<link, down, up>>
    BY <1>1, <1>6 DEF WriteFails, BreaksOff, ReadEnds, clientVars
  <2>. QED
    BY <1>1, <1>2, <2>1 DEF Gone, Served, StepsLeft
<1>7. CASE ReadUp(c)
  <2>1. /\ task[c] = "select" /\ up[c] /\ ~up'[c] /\ UNCHANGED <<link, task, down>>
    BY <1>1, <1>7 DEF ReadUp, clientVars
  <2>. QED
    BY <1>1, <1>2, <2>1 DEF Gone, Served, StepsLeft
<1>8. CASE Leave(c)
  BY <1>1, <1>8 DEF Leave
<1>. QED
  BY <1>3, <1>4, <1>5, <1>6, <1>7, <1>8 DEF Task

\* For any number of clients and any size of the sockets: what keeps the task
\* of a client that has gone is a natural number, which its task lowers and
\* nobody raises.  PlaceIsGivenBack, the liveness property, rests on it.
THEOREM GoneNeverStuck ==
    Spec => GoneIsDrained /\ [](\A c \in Conns : Gone(c) => StepsLeft(c) \in Nat)
<1>1. Init => RoomKept
  BY ServerAssumption DEF Init, RoomKept
<1>2. IInv /\ RoomKept => \A c \in Conns : Gone(c) => StepsLeft(c) \in Nat
  BY StepsLeftIsNat
<1>3. IInv /\ RoomKept /\ [Next]_vars
        => [\A c \in Conns : Gone(c) =>
              \/ task'[c] = "ended"
              \/ /\ Gone(c)' /\ StepsLeft(c)' <= StepsLeft(c)
                 /\ Task(c) /\ ~Lagged(c) => StepsLeft(c)' < StepsLeft(c)]_vars
  <2>. SUFFICES ASSUME IInv, RoomKept, [Next]_vars, NEW c \in Conns, Gone(c)
                PROVE  \/ task'[c] = "ended"
                       \/ /\ Gone(c)' /\ StepsLeft(c)' <= StepsLeft(c)
                          /\ Task(c) /\ ~Lagged(c) => StepsLeft(c)' < StepsLeft(c)
    OBVIOUS
  <2>1. CASE Task(c)
    BY <2>1, TaskNears
  <2>2. CASE ~Task(c)
    <3>1. StepsLeft(c)' = StepsLeft(c) /\ Gone(c)'
      BY <2>2, OthersLeaveAlone DEF StepsLeft, Gone
    <3>2. StepsLeft(c) \in Nat
      BY StepsLeftIsNat
    <3>. QED
      BY <2>2, <3>1, <3>2
  <2>. QED
    BY <2>1, <2>2
<1>. QED
  BY <1>1, <1>2, <1>3, StepRoomKept, Invariance, PTL DEF Spec, GoneIsDrained

-----------------------------------------------------------------------------
(* The way of the frames a client sends.  Everything here is about a client *)
(* that is alone: the bytes of several meet in one decoder.                 *)

LinkBytes == [byte : 0 .. 255, origin : [id : Nat, last : BOOLEAN]]

\* The decoder's fields; it overflows only with a frame in its buffer.
DecoderOK(d) ==
    /\ d = Decoder(d.buf, d.in_frame, d.escape, d.overflow)
    /\ d.buf \in Seq(LinkBytes)
    /\ d.in_frame \in BOOLEAN /\ d.escape \in BOOLEAN /\ d.overflow \in BOOLEAN
    /\ d.overflow => d.in_frame /\ d.buf # << >>

\* The decoder without the origins of its bytes.
Bare(s) == [m \in DOMAIN s |-> Plain(s[m].byte)]
Erased(d) == Decoder(Bare(d.buf), d.in_frame, d.escape, d.overflow)

LEMMA ErasedFields ==
    ASSUME NEW d, DecoderOK(d)
    PROVE  /\ Len(Erased(d).buf) = Len(d.buf) /\ DOMAIN Erased(d).buf = DOMAIN d.buf
           /\ (Erased(d).buf = << >> <=> d.buf = << >>)
           /\ \A m \in DOMAIN d.buf : Erased(d).buf[m] = Plain(d.buf[m].byte)
           /\ Erased(d).in_frame = d.in_frame /\ Erased(d).escape = d.escape
           /\ Erased(d).overflow = d.overflow
<1>1. Erased(d).buf = Bare(d.buf)
  BY DEF Erased, Decoder
<1>2. d.buf \in Seq(LinkBytes) /\ DOMAIN d.buf = 1 .. Len(d.buf)
  BY DEF DecoderOK
<1>. QED
  BY <1>1, <1>2 DEF Erased, Decoder, Bare

LEMMA ErasedDecoder ==
    ASSUME NEW s, NEW i, NEW c, NEW o
    PROVE  Erased(Decoder(s, i, c, o)) = Decoder(Bare(s), i, c, o)
  BY DEF Erased, Decoder

\* What a byte stands for in the state it meets has the byte's origin.
LEMMA UnescapedFacts ==
    ASSUME NEW d, NEW e, e.escape = d.escape, NEW x \in LinkBytes
    PROVE  /\ Unescaped(d, x) \in LinkBytes /\ Unescaped(d, x).origin = x.origin
           /\ Unescaped(e, Plain(x.byte)) = Plain(Unescaped(d, x).byte)
<1>. USE DEF LinkBytes, Plain, FEND, FESC, TFEND, TFESC, Unescaped
<1>1. CASE d.escape /\ x.byte = TFEND
  BY <1>1
<1>2. CASE d.escape /\ x.byte = TFESC
  BY <1>2
<1>3. CASE ~(d.escape /\ x.byte \in {TFEND, TFESC})
  BY <1>3
<1>. QED
  BY <1>1, <1>2, <1>3

\* A FEND ends a frame if there is something in it, and begins one if not; any
\* other byte is taken into the frame or passed over.
LEMMA ByteEffect ==
    ASSUME NEW d, DecoderOK(d), NEW x \in LinkBytes
    PROVE  /\ DecoderOK(feed_byte(d, x))
           /\ x.byte = FEND /\ d.in_frame /\ d.buf # << >> =>
                ~feed_byte(d, x).in_frame /\ (Completes(d, x) <=> ~d.overflow)
           /\ x.byte = FEND /\ ~(d.in_frame /\ d.buf # << >>) =>
                ~Completes(d, x) /\ feed_byte(d, x) = Decoder(<< >>, TRUE, FALSE, FALSE)
           /\ x.byte # FEND =>
                /\ ~Completes(d, x) /\ feed_byte(d, x).in_frame = d.in_frame
                /\ ~d.in_frame => feed_byte(d, x) = d
                /\ \/ feed_byte(d, x).buf = d.buf
                   \/ \E y \in LinkBytes : y.origin = x.origin
                                           /\ feed_byte(d, x).buf = Append(d.buf, y)
<1>. DEFINE e == feed_byte(d, x)
            u == Unescaped(d, x)
<1>1. /\ d = Decoder(d.buf, d.in_frame, d.escape, d.overflow)
      /\ d.buf \in Seq(LinkBytes)
      /\ d.in_frame \in BOOLEAN /\ d.escape \in BOOLEAN /\ d.overflow \in BOOLEAN
      /\ d.overflow => d.in_frame /\ d.buf # << >>
  BY DEF DecoderOK
<1>2. CASE x.byte = FEND /\ d.in_frame /\ d.buf # << >>
  <2>1. Terminates(d, x) /\ (Completes(d, x) <=> ~d.overflow)
    BY <1>2 DEF Terminates, Completes
  <2>2. CASE ~d.overflow
    <3>1. e = Decoder(d.buf, FALSE, d.escape, d.overflow)
      BY Distinct, <1>2, <2>1, <2>2 DEF feed_byte, Terminates, Completes
    <3>. QED
      BY <1>1, <1>2, <2>1, <2>2, <3>1 DEF DecoderOK, Decoder
  <2>3. CASE d.overflow
    <3>1. e = NewDecoder
      BY Distinct, <1>2, <2>1, <2>3 DEF feed_byte, Terminates, Completes
    <3>. QED
      BY <1>2, <2>1, <3>1 DEF DecoderOK, Decoder, NewDecoder
  <2>. QED
    BY <2>2, <2>3
<1>3. CASE x.byte = FEND /\ ~(d.in_frame /\ d.buf # << >>)
  <2>1. ~Terminates(d, x) /\ ~Completes(d, x) /\ d.overflow = FALSE
    BY <1>1, <1>3 DEF Terminates, Completes
  <2>2. e = Decoder(<< >>, TRUE, FALSE, FALSE)
    BY Distinct, <1>3, <2>1 DEF feed_byte, Terminates, Completes
  <2>. QED
    BY <1>3, <2>1, <2>2 DEF DecoderOK, Decoder
<1>4. CASE x.byte # FEND
  <2>1. ~Terminates(d, x) /\ ~Completes(d, x)
    BY <1>4 DEF Terminates, Completes
  <2>2. CASE ~d.in_frame
    <3>1. e = d
      BY <1>4, <2>1, <2>2 DEF feed_byte
    <3>. QED
      BY <1>4, <2>1, <3>1
  <2>3. CASE d.in_frame /\ x.byte = FESC
    <3>1. e = Decoder(d.buf, TRUE, TRUE, d.overflow)
      BY <1>4, <2>1, <2>3, Distinct DEF feed_byte
    <3>. QED
      BY <1>1, <1>4, <2>1, <2>3, <3>1 DEF DecoderOK, Decoder
  <2>4. CASE d.in_frame /\ x.byte # FESC
    <3>1. e = push_byte(d, u)
      BY <1>4, <2>1, <2>4 DEF feed_byte
    <3>2. u \in LinkBytes /\ u.origin = x.origin
      BY UnescapedFacts
    <3>. HIDE DEF e, u
    <3>3. CASE Len(d.buf) < BUF_SIZE
      <4>1. e = Decoder(Append(d.buf, u), TRUE, FALSE, d.overflow)
        BY <1>1, <2>4, <3>1, <3>3 DEF push_byte
      <4>2. Append(d.buf, u) \in Seq(LinkBytes) /\ Append(d.buf, u) # << >>
        BY <1>1, <3>2, AppendProperties
      <4>. QED
        BY <1>1, <1>4, <2>1, <2>4, <3>2, <4>1, <4>2 DEF DecoderOK, Decoder, e
    <3>4. CASE ~(Len(d.buf) < BUF_SIZE)
      <4>1. e = Decoder(d.buf, TRUE, FALSE, TRUE)
        BY <1>1, <2>4, <3>1, <3>4 DEF push_byte
      <4>2. d.buf # << >>
        BY <1>1, <3>4, BufSizeAssumption
      <4>. QED
        BY <1>1, <1>4, <2>1, <2>4, <4>1, <4>2 DEF DecoderOK, Decoder, e
    <3>. QED
      BY <3>3, <3>4
  <2>. QED
    BY <1>1, <2>2, <2>3, <2>4
<1>. QED
  BY <1>2, <1>3, <1>4

\* Where its bytes come from decides nothing.
LEMMA OriginsDecideNothing ==
    ASSUME NEW d, DecoderOK(d), NEW x \in LinkBytes
    PROVE  /\ Erased(feed_byte(d, x)) = feed_byte(Erased(d), Plain(x.byte))
           /\ Completes(d, x) <=> Completes(Erased(d), Plain(x.byte))
<1>. DEFINE e == Erased(d)
            b == Plain(x.byte)
            u == Unescaped(d, x)
<1>1. /\ Len(e.buf) = Len(d.buf) /\ DOMAIN e.buf = DOMAIN d.buf
      /\ (e.buf = << >> <=> d.buf = << >>)
      /\ \A m \in DOMAIN d.buf : e.buf[m] = Plain(d.buf[m].byte)
      /\ e.in_frame = d.in_frame /\ e.escape = d.escape /\ e.overflow = d.overflow
  BY ErasedFields
<1>2. b.byte = x.byte
  BY DEF Plain
<1>3. d.buf \in Seq(LinkBytes) /\ d.in_frame \in BOOLEAN
  BY DEF DecoderOK
<1>5. e.buf = Bare(d.buf)
  BY DEF Erased, Decoder
<1>6. Bare(<< >>) = << >>
  BY DEF Bare
<1>7. /\ u \in LinkBytes /\ Unescaped(e, b) = Plain(u.byte)
  BY <1>1, UnescapedFacts
<1>8. Bare(Append(d.buf, u)) = Append(e.buf, Plain(u.byte))
  <2>. DEFINE s == Append(d.buf, u)
  <2>1. s \in Seq(LinkBytes) /\ Len(s) = Len(d.buf) + 1 /\ DOMAIN s = 1 .. Len(d.buf) + 1
        /\ (\A m \in 1 .. Len(d.buf) : s[m] = d.buf[m]) /\ s[Len(d.buf) + 1] = u
    BY <1>3, <1>7
  <2>2. e.buf \in Seq({Plain(v.byte) : v \in LinkBytes})
    BY <1>3, <1>5 DEF Bare
  <2>. HIDE DEF s, u, e
  <2>3. /\ DOMAIN Append(e.buf, Plain(u.byte)) = 1 .. Len(d.buf) + 1
        /\ \A m \in 1 .. Len(d.buf) : Append(e.buf, Plain(u.byte))[m] = e.buf[m]
        /\ Append(e.buf, Plain(u.byte))[Len(d.buf) + 1] = Plain(u.byte)
        /\ Append(e.buf, Plain(u.byte)) \in Seq({Plain(v.byte) : v \in LinkBytes})
    BY <1>1, <1>3, <1>7, <2>2
  <2>4. \A m \in 1 .. Len(d.buf) + 1 : Plain(s[m].byte) = Append(e.buf, Plain(u.byte))[m]
    BY <1>1, <1>3, <2>1, <2>3
  <2>. QED
    BY <2>1, <2>3, <2>4 DEF s, Bare
<1>. SUFFICES Erased(feed_byte(d, x)) = feed_byte(e, b) /\ (Completes(d, x) <=> Completes(e, b))
  OBVIOUS
<1>. HIDE DEF e, b, u
<1>10. (Terminates(d, x) <=> Terminates(e, b)) /\ (Completes(d, x) <=> Completes(e, b))
  BY <1>1, <1>2 DEF Terminates, Completes
<1>11. CASE Completes(d, x)
  <2>1. feed_byte(d, x) = Decoder(d.buf, FALSE, d.escape, d.overflow)
    BY Distinct, <1>1, <1>2, <1>11 DEF feed_byte, Completes, Terminates
  <2>2. feed_byte(e, b) = Decoder(e.buf, FALSE, e.escape, e.overflow)
    BY Distinct, <1>1, <1>2, <1>10, <1>11 DEF feed_byte, Completes, Terminates
  <2>3. Erased(feed_byte(d, x)) = Decoder(e.buf, FALSE, d.escape, d.overflow)
    <3>1. Erased(Decoder(d.buf, FALSE, d.escape, d.overflow))
            = Decoder(Bare(d.buf), FALSE, d.escape, d.overflow)
      BY ErasedDecoder, Zenon
    <3>. QED
      BY <1>5, <2>1, <3>1, Zenon
  <2>. QED
    BY <1>1, <1>10, <2>2, <2>3
<1>12. CASE Terminates(d, x) /\ ~Completes(d, x)
  <2>1. d.overflow /\ feed_byte(d, x) = NewDecoder
    BY Distinct, <1>1, <1>2, <1>12 DEF feed_byte, Terminates, Completes
  <2>2. feed_byte(e, b) = NewDecoder
    BY Distinct, <1>1, <1>2, <1>1, <1>10, <1>12, <2>1 DEF feed_byte, Completes, Terminates
  <2>3. Erased(NewDecoder) = NewDecoder
    <3>1. Erased(Decoder(<< >>, FALSE, FALSE, FALSE)) = Decoder(Bare(<< >>), FALSE, FALSE, FALSE)
      BY ErasedDecoder, Zenon
    <3>. QED
      BY <1>6, <3>1, Zenon DEF NewDecoder
  <2>. QED
    BY <1>10, <2>1, <2>2, <2>3
<1>13. CASE x.byte = FEND /\ ~Terminates(d, x)
  <2>1. ~Completes(d, x)
    BY <1>13 DEF Completes
  <2>2. feed_byte(d, x) = Decoder(<< >>, TRUE, FALSE, d.overflow)
    BY Distinct, <1>1, <1>2, <1>13, <2>1 DEF feed_byte, Completes, Terminates
  <2>3. feed_byte(e, b) = Decoder(<< >>, TRUE, FALSE, e.overflow)
    BY Distinct, <1>1, <1>2, <1>2, <1>10, <1>13, <2>1 DEF feed_byte, Completes, Terminates
  <2>4. Erased(feed_byte(d, x)) = Decoder(<< >>, TRUE, FALSE, d.overflow)
    <3>1. Erased(Decoder(<< >>, TRUE, FALSE, d.overflow)) = Decoder(Bare(<< >>), TRUE, FALSE, d.overflow)
      BY ErasedDecoder, Zenon
    <3>. QED
      BY <1>6, <2>2, <3>1, Zenon
  <2>. QED
    BY <1>1, <1>10, <2>3, <2>4
<1>14. CASE x.byte # FEND
  <2>1. ~Terminates(d, x) /\ ~Completes(d, x) /\ ~Terminates(e, b) /\ ~Completes(e, b)
    BY <1>2, <1>14 DEF Terminates, Completes
  <2>2. CASE ~d.in_frame
    <3>1. feed_byte(d, x) = d
      BY <1>14, <2>1, <2>2 DEF feed_byte
    <3>2. feed_byte(e, b) = e
      BY <1>1, <1>2, <1>14, <2>1, <2>2 DEF feed_byte
    <3>. QED
      BY <1>10, <3>1, <3>2 DEF e
  <2>3. CASE d.in_frame /\ x.byte = FESC
    <3>1. feed_byte(d, x) = Decoder(d.buf, TRUE, TRUE, d.overflow)
      BY <1>14, <2>1, <2>3, Distinct DEF feed_byte
    <3>2. feed_byte(e, b) = Decoder(e.buf, TRUE, TRUE, e.overflow)
      BY <1>1, <1>2, <2>1, <2>3, Distinct DEF feed_byte
    <3>3. Erased(feed_byte(d, x)) = Decoder(e.buf, TRUE, TRUE, d.overflow)
      <4>1. Erased(Decoder(d.buf, TRUE, TRUE, d.overflow)) = Decoder(Bare(d.buf), TRUE, TRUE, d.overflow)
        BY ErasedDecoder, Zenon
      <4>. QED
        BY <1>5, <3>1, <4>1, Zenon
    <3>. QED
      BY <1>1, <1>10, <3>2, <3>3
  <2>4. CASE d.in_frame /\ x.byte # FESC
    <3>1. feed_byte(d, x) = push_byte(d, u)
      BY <1>14, <2>1, <2>4 DEF feed_byte, u
    <3>2. feed_byte(e, b) = push_byte(e, Plain(u.byte))
      BY <1>1, <1>2, <1>7, <1>14, <2>1, <2>4 DEF feed_byte
    <3>3. CASE Len(d.buf) < BUF_SIZE
      <4>1. push_byte(d, u) = Decoder(Append(d.buf, u), d.in_frame, FALSE, d.overflow)
        BY <3>3 DEF push_byte
      <4>2. push_byte(e, Plain(u.byte))
              = Decoder(Append(e.buf, Plain(u.byte)), e.in_frame, FALSE, e.overflow)
        BY <1>1, <3>3 DEF push_byte
      <4>3. Erased(feed_byte(d, x))
              = Decoder(Append(e.buf, Plain(u.byte)), d.in_frame, FALSE, d.overflow)
        <5>1. Erased(Decoder(Append(d.buf, u), d.in_frame, FALSE, d.overflow))
                = Decoder(Bare(Append(d.buf, u)), d.in_frame, FALSE, d.overflow)
          BY ErasedDecoder, Zenon
        <5>. QED
          BY <1>8, <3>1, <4>1, <5>1, Zenon
      <4>. QED
        BY <1>1, <1>10, <3>2, <4>2, <4>3
    <3>4. CASE ~(Len(d.buf) < BUF_SIZE)
      <4>1. push_byte(d, u) = Decoder(d.buf, d.in_frame, FALSE, TRUE)
        BY <3>4 DEF push_byte
      <4>2. push_byte(e, Plain(u.byte)) = Decoder(e.buf, e.in_frame, FALSE, TRUE)
        BY <1>1, <3>4 DEF push_byte
      <4>3. Erased(feed_byte(d, x)) = Decoder(e.buf, d.in_frame, FALSE, TRUE)
        <5>1. Erased(Decoder(d.buf, d.in_frame, FALSE, TRUE)) = Decoder(Bare(d.buf), d.in_frame, FALSE, TRUE)
          BY ErasedDecoder, Zenon
        <5>. QED
          BY <1>5, <3>1, <4>1, <5>1, Zenon
      <4>. QED
        BY <1>1, <1>10, <3>2, <4>2, <4>3
    <3>. QED
      BY <3>3, <3>4
  <2>. QED
    BY <1>3, <2>2, <2>3, <2>4
<1>. QED
  BY <1>11, <1>12, <1>13, <1>14 DEF Terminates

\* A byte of the frame the decoder is in step with.
LEMMA OriginByteInStep ==
    ASSUME NEW f, f.payload \in Seq(0 .. 255), f.payload # << >>, ~Special(f.payload[1]),
           NEW w, WalkIn(f.payload, w),
           NEW d, DecoderOK(d), Matches(Erased(d), f.payload, w),
           NEW x \in LinkBytes, x.byte = NextByte(f.payload, w)
    PROVE  /\ Matches(Erased(feed_byte(d, x)), f.payload, NextWalk(f.payload, w))
           /\ Completes(d, x) <=> w.st = "close" /\ Fits(f)
           /\ Completes(d, x) => Values(d.buf) = f.payload
<1>. DEFINE e == Erased(d)
            b == Plain(x.byte)
<1>1. /\ Matches(feed_byte(e, b), f.payload, NextWalk(f.payload, w))
      /\ Completes(e, b) <=> w.st = "close" /\ Len(f.payload) <= BUF_SIZE
      /\ Completes(e, b) => [k \in DOMAIN e.buf |-> e.buf[k].byte] = f.payload
  BY ByteInStep
<1>2. Erased(feed_byte(d, x)) = feed_byte(e, b) /\ (Completes(d, x) <=> Completes(e, b))
  BY OriginsDecideNothing
<1>3. DOMAIN e.buf = DOMAIN d.buf /\ \A m \in DOMAIN d.buf : e.buf[m] = Plain(d.buf[m].byte)
  BY ErasedFields
<1>. HIDE DEF e
<1>4. \A m \in DOMAIN d.buf : e.buf[m].byte = d.buf[m].byte
  BY <1>3, Fields
<1>5. Values(d.buf) = [k \in DOMAIN e.buf |-> e.buf[k].byte]
  BY <1>3, <1>4 DEF Values
<1>. HIDE DEF b
<1>. QED
  BY <1>1, <1>2, <1>5 DEF Fits

-----------------------------------------------------------------------------
(* Positions in a client's stream. *)

\* A position: a frame's number and how far its walk is, how many upsets lie
\* behind it, and whether the byte before it, in the same read, is noise.
Num(c) == Len(Frames[c])
At(k, w, u, noisy) == [k |-> k, w |-> w, u |-> u, noisy |-> noisy]
Position(c, p) ==
    /\ p.k \in 1 .. Num(c) + 1
    /\ IF p.k <= Num(c) THEN WalkIn(Frames[c][p.k].payload, p.w) ELSE p.w = Opening
    /\ p.u \in Nat /\ p.u <= upsets
    /\ p.noisy \in BOOLEAN

\* The byte x leads from p to q: it is the next of its frame, or noise between
\* two frames.
Own(c, p, x, q) ==
    LET f == Frames[c][p.k]
        closing == p.w.st = "close"
    IN /\ p.k <= Num(c)
       /\ x = OnLink(NextByte(f.payload, p.w), Origin(f, closing))
       /\ q.k = (IF closing THEN p.k + 1 ELSE p.k) /\ q.w = NextWalk(f.payload, p.w)
       /\ q.u = p.u /\ q.noisy = FALSE
Noisy(p, x, q) ==
    /\ p.w = Opening /\ x.origin = NoOrigin
    /\ q.k = p.k /\ q.w = p.w /\ q.noisy = TRUE
    /\ q.u = IF p.noisy THEN p.u ELSE p.u + 1
Follows(c, p, x, q) == x \in LinkBytes /\ (Own(c, p, x, q) \/ Noisy(p, x, q))

\* The bytes of s lead from p to q.
Spans(c, s, p, q) ==
    \E pos : /\ pos[1] = p /\ pos[Len(s) + 1] = q
             /\ \A j \in 1 .. Len(s) + 1 : Position(c, pos[j])
             /\ \A j \in 1 .. Len(s) : Follows(c, pos[j], s[j], pos[j + 1])

\* From p to q nothing was lost, or else an upset is behind q, and the frames
\* between them, those cut at p or at q included, are damaged.
Mid(c, p) == p.k <= Num(c) /\ p.w # Opening
Before(c, p, q) == p.k <= q.k /\ (p.k = q.k /\ Mid(c, p) => Mid(c, q))
Between(c, p, q) == {k \in 1 .. Num(c) : p.k <= k /\ (k < q.k \/ (k = q.k /\ Mid(c, q)))}
Skips(c, p, q) ==
    /\ q.noisy = FALSE
    /\ \/ q.k = p.k /\ q.w = p.w /\ q.u = p.u
       \/ /\ Before(c, p, q) /\ p.u < q.u
          /\ \A k \in Between(c, p, q) : Frames[c][k].id \in damaged

-----------------------------------------------------------------------------
(* The decoder at a position of the stream. *)

\* Inside a frame it may be in step with it: it holds what was written of that
\* frame, and nothing else.
InStep(c, p) ==
    /\ Mid(c, p)
    /\ Matches(Erased(decoder), Frames[c][p.k].payload, p.w)
    /\ \A m \in DOMAIN decoder.buf : decoder.buf[m].origin.id = Frames[c][p.k].id

\* A debt: the decoder is not in step, or will miss the next frame's beginning.
Owes(c, p) ==
    IF Mid(c, p) THEN ~InStep(c, p) ELSE decoder.in_frame /\ decoder.buf # << >>

\* Inside an undamaged frame it is in step, or sees no frame at all.
StepOrSilence(c, p) ==
    Mid(c, p) /\ Frames[c][p.k].id \notin damaged => InStep(c, p) \/ ~decoder.in_frame

\* It holds the frame's bytes, and bytes of damaged frames and noise.
Debris == damaged \cup {0}
HoldsDebris(c, p) ==
    decoder.in_frame =>
        \A m \in DOMAIN decoder.buf :
            \/ decoder.buf[m].origin.id \in Debris
            \/ Mid(c, p) /\ decoder.buf[m].origin.id = Frames[c][p.k].id

\* What was delivered is a frame that fits, or made of debris.
DeliveredOK(c, p) ==
    \A i \in DOMAIN delivered :
        \/ \A m \in DOMAIN delivered[i] : delivered[i][m].origin.id \in Debris
        \/ \E k \in 1 .. Num(c) :
             /\ k < p.k /\ Fits(Frames[c][k])
             /\ Values(delivered[i]) = Frames[c][k].payload
             /\ Sources(delivered[i]) = {Frames[c][k].id}

\* The frames behind the position are closed or damaged.
ClosedBehind(c, p) ==
    /\ \A i \in closed : \E k \in 1 .. Num(c) : k < p.k /\ Frames[c][k].id = i
    /\ \A k \in 1 .. Num(c) : k < p.k =>
         Frames[c][k].id \in closed \/ Frames[c][k].id \in damaged

\* Each frame lost was paid by an upset, and so is the next one that will be.
Lost(c, p) ==
    {k \in 1 .. Num(c) : /\ k < p.k /\ Frames[c][k].id \notin damaged
                         /\ Fits(Frames[c][k]) /\ ~DeliveredWhole(Frames[c][k])}
Paid(c, p) == Cardinality(Lost(c, p)) + (IF p.noisy \/ Owes(c, p) THEN 1 ELSE 0) <= p.u

\* Without any upset what was delivered is what is behind.
Passed(c, k) == {j \in 1 .. Num(c) : j < k /\ Fits(Frames[c][j])}
Place(P, j) == Cardinality({l \in P : l <= j})
ExactlyPassed(c, p) ==
    upsets = 0 =>
        /\ damaged = {}
        /\ Len(delivered) = Cardinality(Passed(c, p.k))
        /\ \A j \in Passed(c, p.k) :
             Values(delivered[Place(Passed(c, p.k), j)]) = Frames[c][j].payload

DecoderInv(c, p) ==
    /\ DecoderOK(decoder) /\ delivered \in Seq(Seq(LinkBytes)) /\ upsets \in Nat
    /\ StepOrSilence(c, p) /\ HoldsDebris(c, p) /\ DeliveredOK(c, p)
    /\ ClosedBehind(c, p) /\ Paid(c, p) /\ ExactlyPassed(c, p)

\* What a client's frames are.
LEMMA FrameFacts ==
    ASSUME NEW c \in Clients
    PROVE  /\ Num(c) \in Nat /\ DOMAIN Frames[c] = 1 .. Num(c)
           /\ \A k \in 1 .. Num(c) :
                /\ Frames[c][k].id \in Nat /\ Frames[c][k].id # 0
                /\ Frames[c][k].payload \in Seq(0 .. 255)
                /\ Frames[c][k].payload # << >> /\ ~Special(Frames[c][k].payload[1])
           /\ \A k, l \in 1 .. Num(c) : Frames[c][k].id = Frames[c][l].id => k = l
<1>. DEFINE T == [id : Nat \ {0}, payload : Seq(0 .. 255)]
<1>1. Frames[c] \in Seq(T)
  BY UplinkAssumption
<1>4. \A t \in T : t.id \in Nat /\ t.id # 0 /\ t.payload \in Seq(0 .. 255)
  OBVIOUS
<1>. HIDE DEF T
<1>2. Num(c) \in Nat /\ DOMAIN Frames[c] = 1 .. Num(c)
      /\ \A k \in 1 .. Num(c) : Frames[c][k] \in T
  <2>1. PICK q \in Seq(T) : q = Frames[c]
    BY <1>1
  <2>2. /\ Len(q) \in Nat /\ DOMAIN q = 1 .. Len(q)
        /\ \A k \in 1 .. Len(q) : q[k] \in T
    OBVIOUS
  <2>. QED
    BY <2>1, <2>2 DEF Num
<1>3. /\ \A k \in DOMAIN Frames[c] :
           Frames[c][k].payload # << >> /\ ~Special(Frames[c][k].payload[1])
      /\ \A k, l \in DOMAIN Frames[c] : Frames[c][k].id = Frames[c][l].id => k = l
  BY UplinkAssumption
<1>. QED
  BY <1>2, <1>3, <1>4

\* The walk over a frame begins and ends with a FEND, and writes none between.
LEMMA FrameBytes ==
    ASSUME NEW p \in Seq(0 .. 255), p # << >>, ~Special(p[1]), NEW w, WalkIn(p, w)
    PROVE  /\ NextByte(p, w) \in 0 .. 255
           /\ WalkIn(p, NextWalk(p, w))
           /\ w = Opening =>
                NextByte(p, w) = FEND /\ NextWalk(p, w) = Walk("body", 0) /\ w.st # "close"
           /\ w.st = "close" =>
                NextByte(p, w) = FEND /\ NextWalk(p, w) = Opening /\ w # Opening
           /\ w # Opening /\ w.st # "close" =>
                NextByte(p, w) # FEND /\ NextWalk(p, w) # Opening
<1>1. WalkIn(p, NextWalk(p, w))
  BY WalkGoesOn
<1>2. Len(p) \in Nat \ {0} /\ \A i \in 1 .. Len(p) : p[i] \in 0 .. 255
  BY EmptySeq, LenProperties, ElementOfSeq
<1>3. {FEND, FESC, TFEND, TFESC} \subseteq 0 .. 255
  BY DEF FEND, FESC, TFEND, TFESC
<1>4. Walk("body", 0) # Opening /\ Opening.st = "open"
      /\ \A i : AfterPayloadByte(p, Walk("body", i)) # Opening
      /\ \A w1 : AfterPayloadByte(p, w1) # Opening
      /\ \A j : Walk("escaped", j) # Opening
  BY DEF Walk, Opening, AfterPayloadByte
<1>5. CASE w = Opening
  BY <1>1, <1>3, <1>4, <1>5 DEF NextByte, NextWalk
<1>6. ASSUME NEW i \in 0 .. Len(p) - 1, w = Walk("body", i)
      PROVE  /\ NextByte(p, w) \in 0 .. 255 /\ NextByte(p, w) # FEND
             /\ NextWalk(p, w) # Opening /\ w.st = "body" /\ w # Opening
  <2>1. w.st = "body" /\ w.i = i /\ w # Opening
    BY <1>4, <1>6, Fields
  <2>2. i + 1 \in 1 .. Len(p)
    BY <1>2
  <2>3. CASE i > 0 /\ Special(p[i + 1])
    BY <1>3, <1>4, <2>1, <2>3, Distinct DEF NextByte, NextWalk
  <2>4. CASE ~(i > 0 /\ Special(p[i + 1]))
    <3>1. NextByte(p, w) = p[i + 1] /\ NextWalk(p, w) = AfterPayloadByte(p, w)
      BY <2>1, <2>4 DEF NextByte, NextWalk
    <3>2. ~Special(p[i + 1])
      BY <2>4
    <3>. QED
      BY <1>2, <1>4, <2>1, <2>2, <3>1, <3>2 DEF Special
  <2>. QED
    BY <2>3, <2>4
<1>7. ASSUME NEW i \in 1 .. Len(p) - 1, w = Walk("escaped", i)
      PROVE  /\ NextByte(p, w) \in 0 .. 255 /\ NextByte(p, w) # FEND
             /\ NextWalk(p, w) # Opening /\ w.st = "escaped" /\ w # Opening
  <2>1. w.st = "escaped" /\ w.i = i /\ w # Opening
    BY <1>4, <1>7, Fields
  <2>. QED
    BY <1>3, <1>4, <2>1, Distinct DEF NextByte, NextWalk
<1>8. CASE w = Walk("close", Len(p))
  <2>1. w.st = "close" /\ w # Opening
    BY <1>4, <1>8, Fields
  <2>. QED
    BY <1>1, <1>3, <2>1 DEF NextByte, NextWalk
<1>. QED
  BY <1>1, <1>4, <1>5, <1>6, <1>7, <1>8 DEF WalkIn

\* The frames lost are finitely many.
LEMMA LostFinite ==
    ASSUME NEW c \in Clients, NEW p
    PROVE  IsFiniteSet(Lost(c, p)) /\ Cardinality(Lost(c, p)) \in Nat
<1>1. IsFiniteSet(1 .. Num(c))
  BY FrameFacts, FS_Interval
<1>. QED
  BY <1>1, FS_Subset, FS_CardinalityType DEF Lost

LEMMA LostCounted ==
    ASSUME NEW c \in Clients, NEW p, NEW q
    PROVE  /\ Cardinality(Lost(c, p)) \in Nat /\ Cardinality(Lost(c, q)') \in Nat
           /\ Lost(c, q)' \subseteq Lost(c, p) =>
                Cardinality(Lost(c, q)') <= Cardinality(Lost(c, p))
           /\ \A k : Lost(c, q)' \subseteq Lost(c, p) \cup {k} =>
                Cardinality(Lost(c, q)') <= Cardinality(Lost(c, p)) + 1
<1>1. PICK L : L = Lost(c, p)
  OBVIOUS
<1>2. PICK M : M = Lost(c, q)'
  OBVIOUS
<1>3. IsFiniteSet(L) /\ IsFiniteSet(M) /\ Cardinality(L) \in Nat /\ Cardinality(M) \in Nat
  <2>1. IsFiniteSet(1 .. Num(c))
    BY FrameFacts, FS_Interval
  <2>2. L \subseteq 1 .. Num(c) /\ M \subseteq 1 .. Num(c)
    BY <1>1, <1>2 DEF Lost
  <2>. QED
    BY <2>1, <2>2, FS_Subset, FS_CardinalityType
<1>4. M \subseteq L => Cardinality(M) <= Cardinality(L)
  BY <1>3, FS_Subset
<1>5. ASSUME NEW k, M \subseteq L \cup {k} PROVE Cardinality(M) <= Cardinality(L) + 1
  <2>1. IsFiniteSet(L \cup {k}) /\ Cardinality(L \cup {k}) <= Cardinality(L) + 1
        /\ Cardinality(L \cup {k}) \in Nat
    <3>1. /\ IsFiniteSet(L \cup {k})
          /\ Cardinality(L \cup {k}) = Cardinality(L) \/ Cardinality(L \cup {k}) = Cardinality(L) + 1
      BY <1>3, FS_AddElement
    <3>. QED
      BY <1>3, <3>1
  <2>2. Cardinality(M) <= Cardinality(L \cup {k})
    BY <1>5, <2>1, FS_Subset
  <2>. QED
    BY <1>3, <2>1, <2>2
<1>. QED
  BY <1>1, <1>2, <1>3, <1>4, <1>5

\* What was delivered remains so.
LEMMA DeliveredStays ==
    ASSUME NEW f, delivered \in Seq(Seq(LinkBytes)),
           \/ delivered' = delivered
           \/ \E b \in Seq(LinkBytes) : delivered' = Append(delivered, b)
    PROVE  DeliveredWhole(f) => DeliveredWhole(f)'
<1>1. \A i \in DOMAIN delivered : i \in DOMAIN delivered' /\ delivered'[i] = delivered[i]
  <2>1. ASSUME NEW b \in Seq(LinkBytes), delivered' = Append(delivered, b)
        PROVE  \A i \in DOMAIN delivered : i \in DOMAIN delivered' /\ delivered'[i] = delivered[i]
    BY <2>1, AppendProperties, LenProperties
  <2>. QED
    BY <2>1
<1>. QED
  BY <1>1 DEF DeliveredWhole

-----------------------------------------------------------------------------
(* The decoder's invariant: what happens elsewhere. *)

\* More damage, by an upset, leaves it.
LEMMA DamageKeepsDecoderInv ==
    ASSUME NEW c \in Clients, NEW p, Position(c, p), DecoderInv(c, p),
           UNCHANGED <<decoder, delivered, closed>>,
           damaged \subseteq damaged', upsets' \in Nat, upsets <= upsets',
           damaged' = damaged \/ upsets' # 0
    PROVE  DecoderInv(c, p)'
<1>1. /\ DecoderOK(decoder) /\ delivered \in Seq(Seq(LinkBytes)) /\ upsets \in Nat
      /\ StepOrSilence(c, p) /\ HoldsDebris(c, p) /\ DeliveredOK(c, p)
      /\ ClosedBehind(c, p) /\ Paid(c, p) /\ ExactlyPassed(c, p)
  BY DEF DecoderInv
<1>2. /\ InStep(c, p)' <=> InStep(c, p)
      /\ Owes(c, p)' <=> Owes(c, p)
  BY DEF InStep, Owes
<1>3. StepOrSilence(c, p)'
  BY <1>1, <1>2 DEF StepOrSilence
<1>4. Debris \subseteq Debris'
  BY DEF Debris
<1>5. HoldsDebris(c, p)'
  BY <1>1, <1>4 DEF HoldsDebris
<1>6. DeliveredOK(c, p)'
  BY <1>1, <1>4 DEF DeliveredOK
<1>7. ClosedBehind(c, p)'
  BY <1>1 DEF ClosedBehind
<1>8. Paid(c, p)'
  <2>1. Lost(c, p)' \subseteq Lost(c, p)
    BY DEF Lost, DeliveredWhole
  <2>2. Cardinality(Lost(c, p)') <= Cardinality(Lost(c, p))
    BY <2>1, LostCounted
  <2>3. p.u \in Nat
    BY DEF Position
  <2>. QED
    BY <1>1, <1>2, <2>2, <2>3, LostCounted DEF Paid
<1>9. ExactlyPassed(c, p)'
  BY <1>1 DEF ExactlyPassed
<1>. QED
  BY <1>1, <1>3, <1>5, <1>6, <1>7, <1>8, <1>9 DEF DecoderInv

\* The next byte the decoder gets is behind a gap.
LEMMA SkipKeepsDecoderInv ==
    ASSUME NEW c \in Clients, NEW p, NEW q, Position(c, p), Position(c, q),
           DecoderInv(c, p), Skips(c, p, q)
    PROVE  DecoderInv(c, q)
<1>1. /\ DecoderOK(decoder) /\ delivered \in Seq(Seq(LinkBytes)) /\ upsets \in Nat
      /\ StepOrSilence(c, p) /\ HoldsDebris(c, p) /\ DeliveredOK(c, p)
      /\ ClosedBehind(c, p) /\ Paid(c, p) /\ ExactlyPassed(c, p)
  BY DEF DecoderInv
<1>2. /\ p.k \in Nat /\ q.k \in Nat /\ p.u \in Nat /\ q.u \in Nat /\ q.u <= upsets
      /\ Num(c) \in Nat /\ p.noisy \in BOOLEAN
  BY FrameFacts DEF Position
<1>3. CASE q.k = p.k /\ q.w = p.w /\ q.u = p.u /\ q.noisy = FALSE
  <2>1. (InStep(c, q) <=> InStep(c, p)) /\ (Mid(c, q) <=> Mid(c, p)) /\ (Owes(c, q) <=> Owes(c, p))
    BY <1>3 DEF InStep, Mid, Owes
  <2>2. Lost(c, q) = Lost(c, p)
    BY <1>3 DEF Lost
  <2>3. Cardinality(Lost(c, p)) \in Nat
    BY LostFinite
  <2>4. Paid(c, q)
    BY <1>1, <1>2, <1>3, <2>1, <2>2, <2>3 DEF Paid
  <2>5. StepOrSilence(c, q) /\ HoldsDebris(c, q)
    BY <1>1, <1>3, <2>1 DEF StepOrSilence, HoldsDebris
  <2>6. DeliveredOK(c, q) /\ ClosedBehind(c, q) /\ ExactlyPassed(c, q)
    BY <1>1, <1>3 DEF DeliveredOK, ClosedBehind, ExactlyPassed
  <2>. QED
    BY <1>1, <2>4, <2>5, <2>6 DEF DecoderInv
<1>4. CASE /\ Before(c, p, q) /\ p.u < q.u /\ q.noisy = FALSE
           /\ \A k \in Between(c, p, q) : Frames[c][k].id \in damaged
  <2>1. p.k <= q.k
    BY <1>4 DEF Before
  <2>2. Mid(c, q) => Frames[c][q.k].id \in damaged
    <3>1. ASSUME Mid(c, q) PROVE q.k \in Between(c, p, q)
      <4>1. q.k \in 1 .. Num(c)
        BY <1>2, <3>1 DEF Mid, Position
      <4>. QED
        BY <2>1, <3>1, <4>1 DEF Between
    <3>. QED
      BY <1>4, <3>1
  <2>3. Mid(c, p) => Frames[c][p.k].id \in damaged
    <3>1. ASSUME Mid(c, p) PROVE p.k \in Between(c, p, q)
      <4>1. p.k \in 1 .. Num(c) /\ p.k <= p.k
        BY <1>2, <3>1 DEF Mid, Position
      <4>2. p.k < q.k \/ (p.k = q.k /\ Mid(c, q))
        BY <1>2, <1>4, <2>1, <3>1 DEF Before
      <4>. QED
        BY <4>1, <4>2 DEF Between
    <3>. QED
      BY <1>4, <3>1
  <2>4. \A k \in 1 .. Num(c) : k < q.k /\ ~(k < p.k) => Frames[c][k].id \in damaged
    BY <1>2, <1>4 DEF Between
  <2>5. StepOrSilence(c, q)
    BY <2>2 DEF StepOrSilence
  <2>6. HoldsDebris(c, q)
    BY <1>1, <2>3 DEF HoldsDebris, Debris
  <2>7. \A k \in 1 .. Num(c) : k < p.k => k < q.k
    BY <1>2, <2>1
  <2>8. DeliveredOK(c, q)
    BY <1>1, <2>7 DEF DeliveredOK
  <2>9. ClosedBehind(c, q)
    BY <1>1, <2>4, <2>7 DEF ClosedBehind
  <2>10. Paid(c, q)
    <3>1. Lost(c, q) \subseteq Lost(c, p)
      BY <2>4 DEF Lost
    <3>2. Cardinality(Lost(c, q)) <= Cardinality(Lost(c, p))
      BY <3>1, LostFinite, FS_Subset
    <3>3. Cardinality(Lost(c, p)) <= p.u
      BY <1>1, <1>2, LostFinite DEF Paid
    <3>. QED
      BY <1>2, <1>4, <3>2, <3>3, LostFinite DEF Paid
  <2>11. ExactlyPassed(c, q)
    BY <1>1, <1>2, <1>4 DEF ExactlyPassed
  <2>. QED
    BY <1>1, <2>5, <2>6, <2>8, <2>9, <2>10, <2>11 DEF DecoderInv
<1>. QED
  BY <1>3, <1>4 DEF Skips

-----------------------------------------------------------------------------
(* The decoder's invariant: a byte is fed. *)

Feeds(x) ==
    /\ decoder' = feed_byte(decoder, x)
    /\ delivered' = IF Completes(decoder, x) THEN Append(delivered, decoder.buf) ELSE delivered
    /\ closed' = IF x.origin.last THEN closed \cup {x.origin.id} ELSE closed
    /\ UNCHANGED <<damaged, upsets>>

\* What holds whatever the byte.
LEMMA FedFacts ==
    ASSUME NEW c \in Clients, NEW p, DecoderInv(c, p), NEW x \in LinkBytes, Feeds(x)
    PROVE  /\ DecoderOK(decoder) /\ DecoderOK(decoder)' /\ decoder.buf \in Seq(LinkBytes)
           /\ delivered \in Seq(Seq(LinkBytes)) /\ delivered' \in Seq(Seq(LinkBytes))
           /\ upsets' \in Nat /\ Debris' = Debris
           /\ \A f : DeliveredWhole(f) => DeliveredWhole(f)'
           /\ Completes(decoder, x) =>
                /\ Len(delivered') = Len(delivered) + 1
                /\ delivered'[Len(delivered) + 1] = decoder.buf
           /\ \A i \in DOMAIN delivered : i \in DOMAIN delivered' /\ delivered'[i] = delivered[i]
           /\ \A i \in DOMAIN delivered' :
                \/ i \in DOMAIN delivered
                \/ Completes(decoder, x) /\ delivered'[i] = decoder.buf
<1>1. DecoderOK(decoder) /\ delivered \in Seq(Seq(LinkBytes)) /\ upsets \in Nat
  BY DEF DecoderInv
<1>2. decoder.buf \in Seq(LinkBytes)
  BY <1>1 DEF DecoderOK
<1>3. DecoderOK(decoder')
  BY <1>1, ByteEffect DEF Feeds
<1>4. Debris' = Debris /\ upsets' \in Nat
  BY <1>1 DEF Debris, Feeds
<1>5. CASE Completes(decoder, x)
  <2>1. delivered' = Append(delivered, decoder.buf)
    BY <1>5 DEF Feeds
  <2>2. /\ delivered' \in Seq(Seq(LinkBytes)) /\ Len(delivered') = Len(delivered) + 1
        /\ \A i \in 1 .. Len(delivered) : delivered'[i] = delivered[i]
        /\ delivered'[Len(delivered) + 1] = decoder.buf
    BY <1>1, <1>2, <2>1, AppendProperties
  <2>3. /\ DOMAIN delivered = 1 .. Len(delivered) /\ DOMAIN delivered' = 1 .. Len(delivered')
        /\ Len(delivered) \in Nat
    BY <1>1, <2>2, LenProperties
  <2>4. \A f : DeliveredWhole(f) => DeliveredWhole(f)'
    BY <1>1, <1>2, <2>1, DeliveredStays
  <2>5. /\ \A i \in DOMAIN delivered : i \in DOMAIN delivered' /\ delivered'[i] = delivered[i]
        /\ \A i \in DOMAIN delivered' : i \in DOMAIN delivered \/ delivered'[i] = decoder.buf
    BY <2>2, <2>3
  <2>. QED
    BY <1>1, <1>2, <1>3, <1>4, <1>5, <2>2, <2>4, <2>5
<1>6. CASE ~Completes(decoder, x)
  <2>1. delivered' = delivered
    BY <1>6 DEF Feeds
  <2>2. \A f : DeliveredWhole(f) => DeliveredWhole(f)'
    BY <2>1 DEF DeliveredWhole
  <2>. QED
    BY <1>1, <1>2, <1>3, <1>4, <1>6, <2>1, <2>2
<1>. QED
  BY <1>5, <1>6

\* If what is completed is debris, or the frame just ended, all that was
\* delivered is as it should be.
LEMMA FedDeliveredOK ==
    ASSUME NEW c \in Clients, NEW p, NEW q, DecoderInv(c, p), NEW x \in LinkBytes, Feeds(x),
           p.k \in Nat, q.k \in Nat, p.k <= q.k,
           Completes(decoder, x) =>
              \/ \A m \in DOMAIN decoder.buf : decoder.buf[m].origin.id \in Debris
              \/ \E k \in 1 .. Num(c) :
                   /\ k < q.k /\ Fits(Frames[c][k])
                   /\ Values(decoder.buf) = Frames[c][k].payload
                   /\ Sources(decoder.buf) = {Frames[c][k].id}
    PROVE  DeliveredOK(c, q)'
<1>1. /\ Debris' = Debris
      /\ \A i \in DOMAIN delivered : i \in DOMAIN delivered' /\ delivered'[i] = delivered[i]
      /\ \A i \in DOMAIN delivered' :
           \/ i \in DOMAIN delivered
           \/ Completes(decoder, x) /\ delivered'[i] = decoder.buf
  BY FedFacts
<1>2. DeliveredOK(c, p) /\ Num(c) \in Nat
  BY FrameFacts DEF DecoderInv
<1>3. \A k \in 1 .. Num(c) : k < p.k => k < q.k
  BY <1>2
<1>4. ASSUME NEW i \in DOMAIN delivered'
      PROVE  \/ \A m \in DOMAIN delivered'[i] : delivered'[i][m].origin.id \in Debris
             \/ \E k \in 1 .. Num(c) :
                  /\ k < q.k /\ Fits(Frames[c][k])
                  /\ Values(delivered'[i]) = Frames[c][k].payload
                  /\ Sources(delivered'[i]) = {Frames[c][k].id}
  <2>1. CASE i \in DOMAIN delivered
    BY <1>1, <1>2, <1>3, <2>1 DEF DeliveredOK
  <2>2. CASE Completes(decoder, x) /\ delivered'[i] = decoder.buf
    BY <2>2
  <2>. QED
    BY <1>1, <1>4, <2>1, <2>2
<1>. QED
  BY <1>1, <1>4 DEF DeliveredOK

\* Noise between two frames.
LEMMA NoiseFed ==
    ASSUME NEW c \in Clients, NEW p, NEW q, Position(c, p), Position(c, q),
           DecoderInv(c, p), NEW x \in LinkBytes, Noisy(p, x, q), Feeds(x)
    PROVE  DecoderInv(c, q)'
<1>1. /\ DecoderOK(decoder) /\ decoder.buf \in Seq(LinkBytes) /\ upsets \in Nat
      /\ StepOrSilence(c, p) /\ HoldsDebris(c, p) /\ DeliveredOK(c, p)
      /\ ClosedBehind(c, p) /\ Paid(c, p) /\ ExactlyPassed(c, p)
  BY FedFacts DEF DecoderInv
<1>2. /\ p.k \in Nat /\ p.u \in Nat /\ q.u \in Nat /\ q.u <= upsets /\ Num(c) \in Nat
      /\ p.noisy \in BOOLEAN
  BY FrameFacts DEF Position
<1>3. /\ p.w = Opening /\ q.k = p.k /\ q.w = Opening /\ q.noisy = TRUE
      /\ q.u = (IF p.noisy THEN p.u ELSE p.u + 1)
      /\ x.origin.id = 0 /\ x.origin.last = FALSE
  BY DEF Noisy, NoOrigin
<1>4. /\ decoder' = feed_byte(decoder, x) /\ closed' = closed
      /\ damaged' = damaged /\ upsets' = upsets
  BY <1>3 DEF Feeds
<1>5. ~Mid(c, p) /\ ~Mid(c, q)
  BY <1>3 DEF Mid
<1>6. decoder.in_frame => \A m \in DOMAIN decoder.buf : decoder.buf[m].origin.id \in Debris
  BY <1>1, <1>5 DEF HoldsDebris
<1>7. Completes(decoder, x) => decoder.in_frame
  BY DEF Completes, Terminates
<1>8. DeliveredOK(c, q)'
  BY <1>2, <1>3, <1>6, <1>7, FedDeliveredOK
<1>9. decoder'.in_frame => \A m \in DOMAIN decoder'.buf : decoder'.buf[m].origin.id \in Debris
  <2>1. CASE x.byte = FEND /\ decoder.in_frame /\ decoder.buf # << >>
    BY <1>1, <1>4, <2>1, ByteEffect
  <2>2. CASE x.byte = FEND /\ ~(decoder.in_frame /\ decoder.buf # << >>)
    <3>1. decoder' = Decoder(<< >>, TRUE, FALSE, FALSE)
      BY <1>1, <1>4, <2>2, ByteEffect
    <3>2. decoder'.buf = << >>
      BY <3>1, BufOf, Zenon
    <3>. QED
      BY <3>2
  <2>3. CASE x.byte # FEND
    <3>1. /\ decoder'.in_frame = decoder.in_frame
          /\ \/ decoder'.buf = decoder.buf
             \/ \E y \in LinkBytes : y.origin = x.origin /\ decoder'.buf = Append(decoder.buf, y)
      BY <1>1, <1>4, <2>3, ByteEffect
    <3>2. CASE decoder'.buf = decoder.buf
      BY <1>6, <3>1, <3>2
    <3>3. ASSUME NEW y \in LinkBytes, y.origin = x.origin, decoder'.buf = Append(decoder.buf, y),
                 decoder.in_frame
          PROVE  \A m \in DOMAIN decoder'.buf : decoder'.buf[m].origin.id \in Debris
      <4>1. /\ DOMAIN decoder'.buf = 1 .. Len(decoder.buf) + 1
            /\ \A m \in 1 .. Len(decoder.buf) : decoder'.buf[m] = decoder.buf[m]
            /\ decoder'.buf[Len(decoder.buf) + 1] = y
            /\ DOMAIN decoder.buf = 1 .. Len(decoder.buf) /\ Len(decoder.buf) \in Nat
        BY <1>1, <3>3, AppendProperties, LenProperties
      <4>2. y.origin.id \in Debris
        BY <1>3, <3>3 DEF Debris
      <4>. QED
        BY <1>6, <3>3, <4>1, <4>2
    <3>. QED
      BY <3>1, <3>2, <3>3
  <2>. QED
    BY <2>1, <2>2, <2>3
<1>10. HoldsDebris(c, q)' /\ StepOrSilence(c, q)'
  <2>1. Debris' = Debris
    BY <1>4 DEF Debris
  <2>. QED
    BY <1>5, <1>9, <2>1 DEF HoldsDebris, StepOrSilence, Mid
<1>11. ClosedBehind(c, q)'
  BY <1>1, <1>3, <1>4 DEF ClosedBehind
<1>12. Paid(c, q)' /\ q.u # 0
  <2>1. Lost(c, q)' \subseteq Lost(c, p)
    <3>1. \A f : DeliveredWhole(f) => DeliveredWhole(f)'
      BY FedFacts
    <3>. QED
      BY <1>3, <1>4, <3>1 DEF Lost
  <2>2. /\ Cardinality(Lost(c, q)') <= Cardinality(Lost(c, p))
        /\ Cardinality(Lost(c, q)') \in Nat /\ Cardinality(Lost(c, p)) \in Nat
    BY <2>1, LostCounted
  <2>3. Cardinality(Lost(c, p)) + 1 <= q.u
    <3>1. CASE p.noisy
      BY <1>1, <1>2, <1>3, <2>2, <3>1 DEF Paid
    <3>2. CASE ~p.noisy
      <4>1. Cardinality(Lost(c, p)) <= p.u
        BY <1>1, <1>2, <2>2 DEF Paid
      <4>. QED
        BY <1>2, <1>3, <2>2, <3>2, <4>1
    <3>. QED
      BY <3>1, <3>2
  <2>. QED
    BY <1>2, <1>3, <2>2, <2>3 DEF Paid
<1>13. ExactlyPassed(c, q)'
  BY <1>1, <1>2, <1>4, <1>12 DEF ExactlyPassed
<1>. QED
  BY <1>8, <1>10, <1>11, <1>12, <1>13, FedFacts DEF DecoderInv

\* The FEND that opens a frame.
LEMMA OpeningFed ==
    ASSUME NEW c \in Clients, NEW p, NEW q, Position(c, p), Position(c, q),
           DecoderInv(c, p), NEW x \in LinkBytes, Own(c, p, x, q), p.w = Opening, Feeds(x)
    PROVE  DecoderInv(c, q)'
<1>. DEFINE f == Frames[c][p.k]
<1>1. /\ DecoderOK(decoder) /\ decoder.buf \in Seq(LinkBytes) /\ upsets \in Nat
      /\ StepOrSilence(c, p) /\ HoldsDebris(c, p) /\ DeliveredOK(c, p)
      /\ ClosedBehind(c, p) /\ Paid(c, p) /\ ExactlyPassed(c, p)
  BY FedFacts DEF DecoderInv
<1>2. /\ p.k \in 1 .. Num(c) /\ p.u \in Nat /\ p.u <= upsets /\ Num(c) \in Nat
      /\ p.noisy \in BOOLEAN
  BY FrameFacts DEF Position, Own
<1>3. /\ f.payload \in Seq(0 .. 255) /\ f.payload # << >> /\ ~Special(f.payload[1])
      /\ WalkIn(f.payload, p.w) /\ f.id \in Nat
  BY <1>2, FrameFacts DEF Position
<1>4. /\ NextByte(f.payload, p.w) = FEND /\ NextWalk(f.payload, p.w) = Walk("body", 0)
      /\ p.w.st # "close"
  BY <1>3, FrameBytes
<1>5. /\ q.k = p.k /\ q.w = Walk("body", 0) /\ q.u = p.u /\ q.noisy = FALSE
      /\ x.byte = FEND /\ x.origin.id = f.id /\ x.origin.last = FALSE
  BY <1>4 DEF Own, OnLink, Origin
<1>6. /\ decoder' = feed_byte(decoder, x) /\ closed' = closed
      /\ damaged' = damaged /\ upsets' = upsets
  BY <1>5 DEF Feeds
<1>. HIDE DEF f
<1>7. ~Mid(c, p) /\ Mid(c, q) /\ Walk("body", 0) # Opening
  BY <1>2, <1>5 DEF Mid, Walk, Opening
<1>8. decoder.in_frame => \A m \in DOMAIN decoder.buf : decoder.buf[m].origin.id \in Debris
  BY <1>1, <1>7 DEF HoldsDebris
<1>9. Completes(decoder, x) => decoder.in_frame
  BY DEF Completes, Terminates
<1>10. DeliveredOK(c, q)'
  BY <1>2, <1>5, <1>8, <1>9, FedDeliveredOK
<1>11. ClosedBehind(c, q)'
  BY <1>1, <1>5, <1>6 DEF ClosedBehind
<1>12. /\ Cardinality(Lost(c, q)') <= Cardinality(Lost(c, p))
       /\ Cardinality(Lost(c, q)') \in Nat /\ Cardinality(Lost(c, p)) \in Nat
  <2>1. \A g : DeliveredWhole(g) => DeliveredWhole(g)'
    BY FedFacts
  <2>2. Lost(c, q)' \subseteq Lost(c, p)
    BY <1>5, <1>6, <2>1 DEF Lost
  <2>. QED
    BY <2>2, LostCounted
<1>13. CASE decoder.in_frame /\ decoder.buf # << >>
  <2>1. ~decoder'.in_frame
    BY <1>1, <1>5, <1>6, <1>13, ByteEffect
  <2>2. StepOrSilence(c, q)' /\ HoldsDebris(c, q)'
    BY <2>1 DEF StepOrSilence, HoldsDebris
  <2>3. Owes(c, p)
    BY <1>7, <1>13 DEF Owes
  <2>4. Cardinality(Lost(c, p)) + 1 <= p.u
    BY <1>1, <1>2, <2>3 DEF Paid
  <2>5. Paid(c, q)' /\ p.u # 0
    BY <1>2, <1>5, <1>12, <2>4 DEF Paid
  <2>6. ExactlyPassed(c, q)'
    BY <1>1, <1>2, <1>6, <2>5 DEF ExactlyPassed
  <2>. QED
    BY <1>10, <1>11, <2>2, <2>5, <2>6, FedFacts DEF DecoderInv
<1>14. CASE ~(decoder.in_frame /\ decoder.buf # << >>)
  <2>1. ~Completes(decoder, x) /\ decoder' = Decoder(<< >>, TRUE, FALSE, FALSE)
    BY <1>1, <1>5, <1>6, <1>14, ByteEffect
  <2>2. decoder'.buf = << >>
    BY <2>1, BufOf, Zenon
  <2>3. InStep(c, q)'
    <3>1. Erased(decoder') = Decoder(<< >>, TRUE, FALSE, FALSE)
      <4>1. Bare(<< >>) = << >>
        BY DEF Bare
      <4>2. Erased(Decoder(<< >>, TRUE, FALSE, FALSE)) = Decoder(Bare(<< >>), TRUE, FALSE, FALSE)
        BY ErasedDecoder, Zenon
      <4>. QED
        BY <2>1, <4>1, <4>2, Zenon
    <3>2. Held(f.payload, 0) = << >> /\ (0 > BUF_SIZE) = FALSE
      BY BufSizeAssumption DEF Held, Kept
    <3>3. q.w.st = "body" /\ q.w.i = 0 /\ (q.w.st = "escaped") = FALSE
      BY <1>5, Fields
    <3>4. Matches(Erased(decoder'), f.payload, q.w)
      BY <3>1, <3>2, <3>3 DEF Matches
    <3>. QED
      BY <1>5, <1>7, <2>2, <3>4 DEF InStep, Mid, f
  <2>4. StepOrSilence(c, q)' /\ HoldsDebris(c, q)'
    BY <2>2, <2>3 DEF StepOrSilence, HoldsDebris
  <2>5. ~Owes(c, q)'
    BY <1>7, <2>3 DEF Owes, Mid
  <2>6. Cardinality(Lost(c, p)) <= p.u
    BY <1>1, <1>2, <1>12 DEF Paid
  <2>7. Paid(c, q)'
    BY <1>2, <1>5, <1>12, <2>5, <2>6 DEF Paid
  <2>8. delivered' = delivered
    BY <2>1 DEF Feeds
  <2>9. ExactlyPassed(c, q)'
    BY <1>1, <1>5, <1>6, <2>8 DEF ExactlyPassed
  <2>. QED
    BY <1>10, <1>11, <2>4, <2>7, <2>9, FedFacts DEF DecoderInv
<1>. QED
  BY <1>13, <1>14

\* A byte inside a frame.
LEMMA InsideFed ==
    ASSUME NEW c \in Clients, NEW p, NEW q, Position(c, p), Position(c, q),
           DecoderInv(c, p), NEW x \in LinkBytes, Own(c, p, x, q),
           p.w # Opening, p.w.st # "close", Feeds(x)
    PROVE  DecoderInv(c, q)'
<1>. DEFINE f == Frames[c][p.k]
<1>1. /\ DecoderOK(decoder) /\ decoder.buf \in Seq(LinkBytes) /\ upsets \in Nat
      /\ StepOrSilence(c, p) /\ HoldsDebris(c, p) /\ DeliveredOK(c, p)
      /\ ClosedBehind(c, p) /\ Paid(c, p) /\ ExactlyPassed(c, p)
  BY FedFacts DEF DecoderInv
<1>2. /\ p.k \in 1 .. Num(c) /\ p.u \in Nat /\ p.u <= upsets /\ Num(c) \in Nat
      /\ p.noisy \in BOOLEAN
  BY FrameFacts DEF Position, Own
<1>3. /\ f.payload \in Seq(0 .. 255) /\ f.payload # << >> /\ ~Special(f.payload[1])
      /\ WalkIn(f.payload, p.w) /\ f.id \in Nat
  BY <1>2, FrameFacts DEF Position
<1>4. /\ NextByte(f.payload, p.w) # FEND /\ NextWalk(f.payload, p.w) # Opening
      /\ WalkIn(f.payload, NextWalk(f.payload, p.w))
  BY <1>3, FrameBytes
<1>5. /\ q.k = p.k /\ q.w = NextWalk(f.payload, p.w) /\ q.u = p.u /\ q.noisy = FALSE
      /\ x.byte = NextByte(f.payload, p.w) /\ x.origin.id = f.id /\ x.origin.last = FALSE
  BY DEF Own, OnLink, Origin
<1>. HIDE DEF f
<1>6. x.byte # FEND
  BY <1>4, <1>5
<1>7. /\ ~Completes(decoder, x) /\ decoder' = feed_byte(decoder, x)
      /\ decoder'.in_frame = decoder.in_frame
      /\ ~decoder.in_frame => decoder' = decoder
      /\ \/ decoder'.buf = decoder.buf
         \/ \E y \in LinkBytes : y.origin = x.origin /\ decoder'.buf = Append(decoder.buf, y)
  BY <1>1, <1>6, ByteEffect DEF Feeds
<1>8. delivered' = delivered /\ closed' = closed /\ damaged' = damaged /\ upsets' = upsets
  BY <1>5, <1>7 DEF Feeds
<1>9. Mid(c, p) /\ Mid(c, q)
  BY <1>2, <1>4, <1>5 DEF Mid
\* All its bytes are debris or of the frame if they were.
<1>10. ASSUME NEW D, \A m \in DOMAIN decoder.buf : decoder.buf[m].origin.id \in D \cup {f.id}
       PROVE  \A m \in DOMAIN decoder'.buf : decoder'.buf[m].origin.id \in D \cup {f.id}
  <2>1. CASE decoder'.buf = decoder.buf
    BY <1>10, <2>1
  <2>2. ASSUME NEW y \in LinkBytes, y.origin = x.origin, decoder'.buf = Append(decoder.buf, y)
        PROVE  \A m \in DOMAIN decoder'.buf : decoder'.buf[m].origin.id \in D \cup {f.id}
    <3>1. /\ DOMAIN decoder'.buf = 1 .. Len(decoder.buf) + 1
          /\ \A m \in 1 .. Len(decoder.buf) : decoder'.buf[m] = decoder.buf[m]
          /\ decoder'.buf[Len(decoder.buf) + 1] = y
          /\ DOMAIN decoder.buf = 1 .. Len(decoder.buf) /\ Len(decoder.buf) \in Nat
      BY <1>1, <2>2, AppendProperties, LenProperties
    <3>2. y.origin.id = f.id
      BY <1>5, <2>2
    <3>. QED
      BY <1>10, <3>1, <3>2
  <2>. QED
    BY <1>7, <2>1, <2>2
<1>11. InStep(c, p) => InStep(c, q)'
  <2>. SUFFICES ASSUME InStep(c, p) PROVE InStep(c, q)'
    OBVIOUS
  <2>1. /\ Matches(Erased(decoder), f.payload, p.w)
        /\ \A m \in DOMAIN decoder.buf : decoder.buf[m].origin.id = f.id
    BY DEF InStep, f
  <2>2. Matches(Erased(decoder'), f.payload, q.w)
    BY <1>1, <1>3, <1>5, <1>7, <2>1, OriginByteInStep
  <2>3. \A m \in DOMAIN decoder'.buf : decoder'.buf[m].origin.id \in {} \cup {f.id}
    BY <1>10, <2>1
  <2>. QED
    BY <1>5, <1>9, <2>2, <2>3 DEF InStep, Mid, f
<1>12. StepOrSilence(c, q)'
  BY <1>1, <1>5, <1>7, <1>8, <1>9, <1>11 DEF StepOrSilence
<1>13. HoldsDebris(c, q)'
  <2>. SUFFICES ASSUME decoder'.in_frame
                PROVE  \A m \in DOMAIN decoder'.buf : decoder'.buf[m].origin.id \in Debris \cup {f.id}
    BY <1>5, <1>8, <1>9 DEF HoldsDebris, Debris, Mid, f
  <2>1. \A m \in DOMAIN decoder.buf : decoder.buf[m].origin.id \in Debris \cup {f.id}
    BY <1>1, <1>7, <1>9 DEF HoldsDebris, f
  <2>2. PICK D : D = Debris
    OBVIOUS
  <2>3. \A m \in DOMAIN decoder'.buf : decoder'.buf[m].origin.id \in D \cup {f.id}
    BY <1>10, <2>1, <2>2
  <2>. QED
    BY <2>2, <2>3
<1>14. DeliveredOK(c, q)'
  BY <1>2, <1>5, <1>7, FedDeliveredOK
<1>15. ClosedBehind(c, q)' /\ ExactlyPassed(c, q)'
  BY <1>1, <1>5, <1>8 DEF ClosedBehind, ExactlyPassed
<1>16. Paid(c, q)'
  <2>1. Lost(c, q)' \subseteq Lost(c, p)
    BY <1>5, <1>8 DEF Lost, DeliveredWhole
  <2>2. /\ Cardinality(Lost(c, q)') <= Cardinality(Lost(c, p))
        /\ Cardinality(Lost(c, q)') \in Nat /\ Cardinality(Lost(c, p)) \in Nat
    BY <2>1, LostCounted
  <2>3. Owes(c, q)' => Owes(c, p)
    BY <1>9, <1>11 DEF Owes, Mid
  <2>4. CASE Owes(c, p)
    <3>1. Cardinality(Lost(c, p)) + 1 <= p.u
      BY <1>1, <1>2, <2>4 DEF Paid
    <3>. QED
      BY <1>2, <1>5, <2>2, <3>1 DEF Paid
  <2>5. CASE ~Owes(c, p)
    <3>1. Cardinality(Lost(c, p)) <= p.u
      BY <1>1, <1>2, <2>2 DEF Paid
    <3>. QED
      BY <1>2, <1>5, <2>2, <2>3, <2>5, <3>1 DEF Paid
  <2>. QED
    BY <2>4, <2>5
<1>. QED
  BY <1>12, <1>13, <1>14, <1>15, <1>16, FedFacts DEF DecoderInv

\* Place of the last one, and of those before it, when one is added at the end.
LEMMA PlaceAdded ==
    ASSUME NEW k \in Nat, NEW n \in Nat, NEW P, P \subseteq 1 .. n, \A j \in P : j < k
    PROVE  /\ Cardinality(P) \in Nat /\ k \notin P
           /\ Cardinality(P \cup {k}) = Cardinality(P) + 1
           /\ Place(P \cup {k}, k) = Cardinality(P) + 1
           /\ \A j \in P : /\ Place(P \cup {k}, j) = Place(P, j)
                           /\ Place(P, j) \in 1 .. Cardinality(P)
<1>1. IsFiniteSet(P) /\ Cardinality(P) \in Nat
  <2>1. IsFiniteSet(1 .. n)
    BY FS_Interval
  <2>. QED
    BY <2>1, FS_Subset, FS_CardinalityType
<1>2. k \notin P /\ k <= k /\ \A j \in P : j <= k /\ j \in Nat
  OBVIOUS
<1>3. Cardinality(P \cup {k}) = Cardinality(P) + 1
  BY <1>1, <1>2, FS_AddElement
<1>4. Place(P \cup {k}, k) = Cardinality(P) + 1
  <2>1. {l \in P \cup {k} : l <= k} = P \cup {k}
    BY <1>2
  <2>. QED
    BY <1>3, <2>1 DEF Place
<1>5. ASSUME NEW j \in P
      PROVE  Place(P \cup {k}, j) = Place(P, j) /\ Place(P, j) \in 1 .. Cardinality(P)
  <2>1. {l \in P \cup {k} : l <= j} = {l \in P : l <= j}
    OBVIOUS
  <2>2. IsFiniteSet({l \in P : l <= j}) /\ Cardinality({l \in P : l <= j}) <= Cardinality(P)
        /\ Cardinality({l \in P : l <= j}) \in Nat
    BY <1>1, FS_Subset, FS_CardinalityType
  <2>3. j \in {l \in P : l <= j}
    OBVIOUS
  <2>4. Cardinality({l \in P : l <= j}) # 0
    BY <2>2, <2>3, FS_EmptySet
  <2>. QED
    BY <1>1, <2>1, <2>2, <2>4 DEF Place
<1>. QED
  BY <1>1, <1>2, <1>3, <1>4, <1>5

\* The FEND that closes a frame.
LEMMA ClosingFed ==
    ASSUME NEW c \in Clients, NEW p, NEW q, Position(c, p), Position(c, q),
           DecoderInv(c, p), NEW x \in LinkBytes, Own(c, p, x, q), p.w.st = "close", Feeds(x)
    PROVE  DecoderInv(c, q)'
<1>. DEFINE f == Frames[c][p.k]
<1>1. /\ DecoderOK(decoder) /\ decoder.buf \in Seq(LinkBytes) /\ upsets \in Nat
      /\ StepOrSilence(c, p) /\ HoldsDebris(c, p) /\ DeliveredOK(c, p)
      /\ ClosedBehind(c, p) /\ Paid(c, p) /\ ExactlyPassed(c, p)
      /\ delivered \in Seq(Seq(LinkBytes))
  BY FedFacts DEF DecoderInv
<1>2. /\ p.k \in 1 .. Num(c) /\ p.u \in Nat /\ p.u <= upsets /\ Num(c) \in Nat
      /\ p.noisy \in BOOLEAN
  BY FrameFacts DEF Position, Own
<1>3. /\ f.payload \in Seq(0 .. 255) /\ f.payload # << >> /\ ~Special(f.payload[1])
      /\ WalkIn(f.payload, p.w) /\ f.id \in Nat
  BY <1>2, FrameFacts DEF Position
<1>4. /\ NextByte(f.payload, p.w) = FEND /\ NextWalk(f.payload, p.w) = Opening
      /\ p.w # Opening
  <2>1. PICK g, w : g = f.payload /\ w = p.w
    OBVIOUS
  <2>2. g \in Seq(0 .. 255) /\ g # << >> /\ ~Special(g[1]) /\ WalkIn(g, w) /\ w.st = "close"
    BY <1>3, <2>1
  <2>3. NextByte(g, w) = FEND /\ NextWalk(g, w) = Opening /\ w # Opening
    BY <2>2, FrameBytes
  <2>. QED
    BY <2>1, <2>3
<1>5. /\ q.k = p.k + 1 /\ q.w = Opening /\ q.u = p.u /\ q.noisy = FALSE
      /\ x.byte = NextByte(f.payload, p.w) /\ x.origin.id = f.id /\ x.origin.last = TRUE
  BY <1>4 DEF Own, OnLink, Origin
<1>6. /\ decoder' = feed_byte(decoder, x) /\ closed' = closed \cup {f.id}
      /\ damaged' = damaged /\ upsets' = upsets
  BY <1>5 DEF Feeds
<1>7. \A k \in 1 .. Num(c) : /\ k < q.k <=> k < p.k \/ k = p.k
                             /\ ~(p.k < p.k)
  BY <1>2, <1>5
<1>8. ClosedBehind(c, q)'
  BY <1>1, <1>2, <1>6, <1>7 DEF ClosedBehind, f
<1>. HIDE DEF f
<1>9. Mid(c, p) /\ ~Mid(c, q)
  BY <1>2, <1>4, <1>5 DEF Mid
\* Afterwards it is ready for the next frame: outside, or in an empty one.
<1>10. decoder'.in_frame => decoder'.buf = << >>
  <2>1. CASE decoder.in_frame /\ decoder.buf # << >>
    BY <1>1, <1>4, <1>5, <1>6, <2>1, ByteEffect
  <2>2. CASE ~(decoder.in_frame /\ decoder.buf # << >>)
    <3>1. decoder' = Decoder(<< >>, TRUE, FALSE, FALSE)
      BY <1>1, <1>4, <1>5, <1>6, <2>2, ByteEffect
    <3>2. decoder'.buf = << >>
      BY <3>1 DEF Decoder
    <3>. QED
      BY <3>2
  <2>. QED
    BY <2>1, <2>2
<1>11. ~Owes(c, q)' /\ StepOrSilence(c, q)' /\ HoldsDebris(c, q)'
  BY <1>9, <1>10 DEF Owes, StepOrSilence, HoldsDebris, Mid
<1>12. /\ \A g : DeliveredWhole(g) => DeliveredWhole(g)'
       /\ Completes(decoder, x) =>
            /\ Len(delivered') = Len(delivered) + 1
            /\ delivered'[Len(delivered) + 1] = decoder.buf
       /\ \A i \in DOMAIN delivered : i \in DOMAIN delivered' /\ delivered'[i] = delivered[i]
       /\ delivered' \in Seq(Seq(LinkBytes))
  BY FedFacts
<1>13. Lost(c, q)' \subseteq Lost(c, p) \cup {p.k}
  BY <1>6, <1>7, <1>12 DEF Lost
<1>14. /\ Cardinality(Lost(c, q)') <= Cardinality(Lost(c, p)) + 1
       /\ Cardinality(Lost(c, q)') \in Nat /\ Cardinality(Lost(c, p)) \in Nat
       /\ Lost(c, q)' \subseteq Lost(c, p) =>
            Cardinality(Lost(c, q)') <= Cardinality(Lost(c, p))
  BY <1>13, LostCounted
<1>15. CASE ~InStep(c, p)
  <2>1. Owes(c, p)
    BY <1>9, <1>15 DEF Owes
  <2>2. Cardinality(Lost(c, p)) + 1 <= p.u
    BY <1>1, <1>2, <2>1 DEF Paid
  <2>3. Paid(c, q)' /\ p.u # 0
    BY <1>2, <1>5, <1>11, <1>14, <2>2 DEF Paid
  <2>4. ExactlyPassed(c, q)'
    BY <1>1, <1>2, <1>6, <2>3 DEF ExactlyPassed
  <2>5. Completes(decoder, x) =>
          \A m \in DOMAIN decoder.buf : decoder.buf[m].origin.id \in Debris
    <3>1. SUFFICES ASSUME Completes(decoder, x)
                   PROVE  \A m \in DOMAIN decoder.buf : decoder.buf[m].origin.id \in Debris
      OBVIOUS
    <3>2. decoder.in_frame
      BY <3>1 DEF Completes, Terminates
    <3>3. f.id \in damaged
      BY <1>1, <1>9, <1>15, <3>2 DEF StepOrSilence, f
    <3>. QED
      BY <1>1, <3>2, <3>3 DEF HoldsDebris, Debris, f
  <2>6. DeliveredOK(c, q)'
    BY <1>2, <1>5, <2>5, FedDeliveredOK
  <2>. QED
    BY <1>8, <1>11, <2>3, <2>4, <2>6, FedFacts DEF DecoderInv
<1>16. CASE InStep(c, p)
  <2>1. /\ Matches(Erased(decoder), f.payload, p.w)
        /\ \A m \in DOMAIN decoder.buf : decoder.buf[m].origin.id = f.id
    BY <1>16 DEF InStep, f
  <2>2. /\ Completes(decoder, x) <=> Fits(f)
        /\ Completes(decoder, x) => Values(decoder.buf) = f.payload
    BY <1>1, <1>3, <1>5, <2>1, OriginByteInStep
  <2>3. Completes(decoder, x) => Sources(decoder.buf) = {f.id}
    <3>1. Completes(decoder, x) => decoder.buf # << >>
      BY DEF Completes, Terminates
    <3>2. decoder.buf # << >> => 1 \in DOMAIN decoder.buf
      BY <1>1, EmptySeq, LenProperties
    <3>. QED
      BY <2>1, <3>1, <3>2 DEF Sources
  <2>4. DeliveredOK(c, q)'
    BY <1>2, <1>5, <1>7, <2>2, <2>3, FedDeliveredOK DEF f
  <2>5. Fits(f) => DeliveredWhole(f)'
    <3>1. ASSUME Fits(f) PROVE \E i \in DOMAIN delivered' : delivered'[i] = decoder.buf
      <4>1. Len(delivered') = Len(delivered) + 1 /\ delivered'[Len(delivered) + 1] = decoder.buf
        BY <1>12, <2>2, <3>1
      <4>2. Len(delivered) + 1 \in DOMAIN delivered'
        BY <1>1, <1>12, <4>1, LenProperties
      <4>. QED
        BY <4>1, <4>2
    <3>. QED
      BY <2>2, <2>3, <3>1 DEF DeliveredWhole
  <2>6. Lost(c, q)' \subseteq Lost(c, p)
    BY <1>13, <2>5 DEF Lost, f
  <2>7. Cardinality(Lost(c, p)) <= p.u
    BY <1>1, <1>2, <1>14 DEF Paid
  <2>8. Paid(c, q)'
    BY <1>2, <1>5, <1>11, <1>14, <2>6, <2>7 DEF Paid
  <2>9. ExactlyPassed(c, q)'
    <3>. SUFFICES ASSUME upsets = 0
                  PROVE  /\ damaged = {}
                         /\ Len(delivered') = Cardinality(Passed(c, q.k))
                         /\ \A j \in Passed(c, q.k) :
                              Values(delivered'[Place(Passed(c, q.k), j)]) = Frames[c][j].payload
      BY <1>6 DEF ExactlyPassed
    <3>. DEFINE P == Passed(c, p.k)
    <3>1. /\ damaged = {} /\ Len(delivered) = Cardinality(P)
          /\ \A j \in P : Values(delivered[Place(P, j)]) = Frames[c][j].payload
      BY <1>1 DEF ExactlyPassed
    <3>2. CASE Fits(f)
      <4>1. Passed(c, q.k) = P \cup {p.k}
        BY <1>2, <1>7, <3>2 DEF Passed, f
      <4>2. P \subseteq 1 .. Num(c) /\ \A j \in P : j < p.k
        BY DEF Passed
      <4>. HIDE DEF P
      <4>3. /\ Cardinality(P) \in Nat /\ p.k \notin P
            /\ Cardinality(P \cup {p.k}) = Cardinality(P) + 1
            /\ Place(P \cup {p.k}, p.k) = Cardinality(P) + 1
            /\ \A j \in P : /\ Place(P \cup {p.k}, j) = Place(P, j)
                            /\ Place(P, j) \in 1 .. Cardinality(P)
        <5>1. p.k \in Nat
          BY <1>2
        <5>. QED
          BY <1>2, <4>2, <5>1, PlaceAdded
      <4>4. /\ Len(delivered') = Len(delivered) + 1
            /\ delivered'[Len(delivered) + 1] = decoder.buf
            /\ Values(decoder.buf) = f.payload
        BY <1>12, <2>2, <3>2
      <4>5. \A j \in P : delivered'[Place(P, j)] = delivered[Place(P, j)]
        <5>1. DOMAIN delivered = 1 .. Len(delivered)
          BY <1>1, LenProperties
        <5>. QED
          BY <1>12, <3>1, <4>3, <5>1
      <4>. QED
        BY <3>1, <4>1, <4>3, <4>4, <4>5 DEF f
    <3>3. CASE ~Fits(f)
      <4>1. Passed(c, q.k) = P
        BY <1>2, <1>7, <3>3 DEF Passed, f
      <4>2. delivered' = delivered
        BY <2>2, <3>3 DEF Feeds
      <4>. QED
        BY <3>1, <4>1, <4>2
    <3>. QED
      BY <3>2, <3>3
  <2>. QED
    BY <1>8, <1>11, <2>4, <2>8, <2>9, FedFacts DEF DecoderInv
<1>. QED
  BY <1>15, <1>16

\* Whatever byte of the stream is fed.
LEMMA ByteKeepsDecoderInv ==
    ASSUME NEW c \in Clients, NEW p, NEW q, Position(c, p), Position(c, q),
           DecoderInv(c, p), NEW x, Follows(c, p, x, q), Feeds(x)
    PROVE  DecoderInv(c, q)'
<1>1. x \in LinkBytes /\ (Own(c, p, x, q) \/ Noisy(p, x, q))
  BY DEF Follows
<1>2. p.w.st = "close" => p.w # Opening
  BY DEF Opening, Walk
<1>. QED
  BY <1>1, <1>2, NoiseFed, OpeningFed, InsideFed, ClosingFed

-----------------------------------------------------------------------------
(* The stream, from the decoder back to the client. *)

\* What is under way: the rest of the chunk that is being fed, the chunks in the
\* channel, the one that is being read.
Seg(c, j) == IF j = 0 THEN data ELSE IF j <= Len(kiss_in) THEN kiss_in[j] ELSE chunk[c]

\* The client's own position.
WriterAt(c, p) ==
    /\ todo[c] \in Seq({Frames[c][k] : k \in 1 .. Num(c)}) /\ Len(todo[c]) <= Num(c)
    /\ \A i \in 1 .. Len(todo[c]) : todo[c][i] = Frames[c][Num(c) - Len(todo[c]) + i]
    /\ p.k + Len(todo[c]) = Num(c) + 1 /\ p.w = walk[c] /\ p.u = upsets
    /\ p.noisy <=> chunk[c] # << >> /\ Last(chunk[c]).origin = NoOrigin

\* Each frame of which a byte lies between p and q has one in the chunk.
Covered(c, p, q) ==
    chunk[c] # << >> => \A k \in Between(c, p, q) :
        \E j \in DOMAIN chunk[c] : chunk[c][j].origin.id = Frames[c][k].id

\* Each of them leads from one position to another, with gaps between them.
StreamInv(c, from, to) ==
    LET m == Len(kiss_in) + 1
    IN /\ \A j \in 0 .. m : Spans(c, Seg(c, j), from[j], to[j])
       /\ \A j \in 0 .. m - 1 : Skips(c, to[j], from[j + 1])
       /\ WriterAt(c, to[m])
       /\ Before(c, from[m], to[m]) /\ Covered(c, from[m], to[m])

StreamTypes(c) ==
    /\ kiss_in \in Seq(Seq(LinkBytes)) /\ data \in Seq(LinkBytes)
    /\ chunk \in [Clients -> Seq(LinkBytes)]
    /\ DOMAIN todo = Clients /\ DOMAIN walk = Clients

UplinkInv(c) ==
    /\ StreamTypes(c)
    /\ \E from, to : StreamInv(c, from, to) /\ DecoderInv(c, from[0])

-----------------------------------------------------------------------------
\* No bytes lead nowhere.
LEMMA EmptySpan ==
    ASSUME NEW c, NEW p, NEW q
    PROVE  Spans(c, << >>, p, q) <=> p = q /\ Position(c, p)
<1>1. ASSUME Spans(c, << >>, p, q) PROVE p = q /\ Position(c, p)
  <2>1. PICK pos : /\ pos[1] = p /\ pos[0 + 1] = q
                   /\ \A j \in 1 .. 0 + 1 : Position(c, pos[j])
    BY <1>1 DEF Spans
  <2>. QED
    BY <2>1
<1>2. ASSUME p = q, Position(c, p) PROVE Spans(c, << >>, p, q)
  <2>. DEFINE pos == [j \in 1 .. 1 |-> p]
  <2>1. /\ pos[1] = p /\ pos[Len(<< >>) + 1] = q
        /\ \A j \in 1 .. Len(<< >>) + 1 : Position(c, pos[j])
        /\ \A j \in 1 .. Len(<< >>) : Follows(c, pos[j], << >>[j], pos[j + 1])
    BY <1>2
  <2>. QED
    BY <2>1 DEF Spans
<1>. QED
  BY <1>1, <1>2

\* The first byte of a span is the one at its beginning.
LEMMA SpanTail ==
    ASSUME NEW c, NEW s \in Seq(LinkBytes), s # << >>, NEW p, NEW q, Spans(c, s, p, q)
    PROVE  \E r : /\ Follows(c, p, Head(s), r) /\ Position(c, p) /\ Position(c, r)
                  /\ Spans(c, Tail(s), r, q)
<1>1. PICK pos : /\ pos[1] = p /\ pos[Len(s) + 1] = q
                 /\ \A j \in 1 .. Len(s) + 1 : Position(c, pos[j])
                 /\ \A j \in 1 .. Len(s) : Follows(c, pos[j], s[j], pos[j + 1])
  BY DEF Spans
<1>2. /\ Len(s) \in Nat \ {0} /\ Len(Tail(s)) = Len(s) - 1 /\ Head(s) = s[1]
      /\ \A j \in 1 .. Len(s) - 1 : Tail(s)[j] = s[j + 1]
  BY EmptySeq, HeadTailProperties, LenProperties
<1>. DEFINE tail == [j \in 1 .. Len(s) |-> pos[j + 1]]
<1>3. /\ tail[1] = pos[2] /\ tail[Len(Tail(s)) + 1] = q
      /\ \A j \in 1 .. Len(Tail(s)) + 1 : Position(c, tail[j])
      /\ \A j \in 1 .. Len(Tail(s)) : Follows(c, tail[j], Tail(s)[j], tail[j + 1])
  <2>1. \A j \in 1 .. Len(s) : tail[j] = pos[j + 1] /\ j + 1 \in 1 .. Len(s) + 1
    BY <1>2
  <2>. HIDE DEF tail
  <2>2. tail[1] = pos[2] /\ tail[Len(Tail(s)) + 1] = q
    BY <1>1, <1>2, <2>1
  <2>3. \A j \in 1 .. Len(Tail(s)) + 1 : Position(c, tail[j])
    BY <1>1, <1>2, <2>1
  <2>4. ASSUME NEW j \in 1 .. Len(Tail(s))
        PROVE  Follows(c, tail[j], Tail(s)[j], tail[j + 1])
    <3>1. /\ j \in 1 .. Len(s) - 1 /\ j \in 1 .. Len(s) /\ j + 1 \in 1 .. Len(s)
      BY <1>2
    <3>2. tail[j] = pos[j + 1] /\ tail[j + 1] = pos[(j + 1) + 1] /\ Tail(s)[j] = s[j + 1]
      BY <1>2, <2>1, <3>1
    <3>. QED
      BY <1>1, <3>1, <3>2
  <2>. QED
    BY <2>2, <2>3, <2>4
<1>4. Spans(c, Tail(s), pos[2], q)
  BY <1>3 DEF Spans
<1>5. 1 \in 1 .. Len(s) /\ 1 \in 1 .. Len(s) + 1 /\ 2 \in 1 .. Len(s) + 1 /\ 1 + 1 = 2
  BY <1>2
<1>6. Follows(c, p, Head(s), pos[2]) /\ Position(c, p) /\ Position(c, pos[2])
  BY <1>1, <1>2, <1>5
<1>. QED
  BY <1>4, <1>6

\* A byte more leads on.
LEMMA SpanAppend ==
    ASSUME NEW c, NEW s \in Seq(LinkBytes), NEW p, NEW q, NEW r, NEW x \in LinkBytes,
           Spans(c, s, p, q)', Follows(c, q, x, r), Position(c, r)'
    PROVE  Spans(c, Append(s, x), p, r)'
<1>1. PICK pos : /\ pos[1] = p /\ pos[Len(s) + 1] = q
                 /\ \A j \in 1 .. Len(s) + 1 : Position(c, pos[j])'
                 /\ \A j \in 1 .. Len(s) : Follows(c, pos[j], s[j], pos[j + 1])
  BY DEF Spans
<1>2. /\ Len(s) \in Nat /\ Len(Append(s, x)) = Len(s) + 1
      /\ \A j \in 1 .. Len(s) : Append(s, x)[j] = s[j]
      /\ Append(s, x)[Len(s) + 1] = x
  BY AppendProperties, LenProperties
<1>7. PICK new : new = [j \in 1 .. Len(s) + 2 |-> IF j = Len(s) + 2 THEN r ELSE pos[j]]
  OBVIOUS
<1>3. /\ \A j \in 1 .. Len(s) + 1 : new[j] = pos[j]
      /\ new[Len(s) + 2] = r
  BY <1>2, <1>7
<1>4. new[1] = p /\ new[Len(Append(s, x)) + 1] = r
  BY <1>1, <1>2, <1>3
<1>5. \A j \in 1 .. Len(Append(s, x)) + 1 : Position(c, new[j])'
  BY <1>1, <1>2, <1>3
<1>6. ASSUME NEW j \in 1 .. Len(Append(s, x))
      PROVE  Follows(c, new[j], Append(s, x)[j], new[j + 1])
  <2>1. CASE j \in 1 .. Len(s)
    <3>1. j \in 1 .. Len(s) + 1 /\ j + 1 \in 1 .. Len(s) + 1
      BY <1>2, <2>1
    <3>. QED
      BY <1>1, <1>2, <1>3, <2>1, <3>1
  <2>2. CASE j = Len(s) + 1
    <3>1. j \in 1 .. Len(s) + 1 /\ j + 1 = Len(s) + 2
      BY <1>2, <2>2
    <3>. QED
      BY <1>1, <1>2, <1>3, <2>2, <3>1
  <2>. QED
    BY <1>2, <2>1, <2>2
<1>. QED
  BY <1>4, <1>5, <1>6 DEF Spans

\* A span's ends are positions.
LEMMA SpanEnds ==
    ASSUME NEW c, NEW s \in Seq(LinkBytes), NEW p, NEW q, Spans(c, s, p, q)
    PROVE  Position(c, p) /\ Position(c, q)
<1>1. Len(s) \in Nat
  BY LenProperties
<1>2. 1 \in 1 .. Len(s) + 1 /\ Len(s) + 1 \in 1 .. Len(s) + 1
  BY <1>1
<1>. QED
  BY <1>2 DEF Spans

\* Positions, spans and gaps remain what they are.
LEMMA StreamStays ==
    ASSUME NEW c, upsets \in Nat, upsets' \in Nat, upsets <= upsets', damaged \subseteq damaged'
    PROVE  /\ \A p : Position(c, p) => Position(c, p)'
           /\ \A s, p, q : Spans(c, s, p, q) => Spans(c, s, p, q)'
           /\ \A p, q : Skips(c, p, q) => Skips(c, p, q)'
<1>1. \A p : Position(c, p) => Position(c, p)'
  BY DEF Position
<1>2. \A s, p, q : Spans(c, s, p, q) => Spans(c, s, p, q)'
  BY <1>1 DEF Spans
<1>3. \A p, q : Skips(c, p, q) => Skips(c, p, q)'
  BY DEF Skips
<1>. QED
  BY <1>1, <1>2, <1>3


\* Only the read in progress, at the end of the stream, changes.
LEMMA LastChanges ==
    ASSUME NEW c, StreamTypes(c), upsets \in Nat, upsets' \in Nat, upsets <= upsets',
           damaged \subseteq damaged', kiss_in' = kiss_in, data' = data,
           NEW from, NEW to, StreamInv(c, from, to), NEW a, NEW b,
           Spans(c, chunk[c], a, b)', Skips(c, to[Len(kiss_in)], a)',
           WriterAt(c, b)', Before(c, a, b), Covered(c, a, b)'
    PROVE  \E f, t : StreamInv(c, f, t)' /\ f[0] = from[0]
<1>0. PICK m : m = Len(kiss_in) + 1
  OBVIOUS
<1>10. PICK f : f = [j \in 0 .. m |-> IF j = m THEN a ELSE from[j]]
  OBVIOUS
<1>11. PICK t : t = [j \in 0 .. m |-> IF j = m THEN b ELSE to[j]]
  OBVIOUS
<1>1. Len(kiss_in) \in Nat
  BY LenProperties DEF StreamTypes
<1>2. /\ \A j \in 0 .. m : Spans(c, Seg(c, j), from[j], to[j])
      /\ \A j \in 0 .. m - 1 : Skips(c, to[j], from[j + 1])
  BY <1>0 DEF StreamInv
<1>3. /\ f[m] = a /\ t[m] = b /\ f[0] = from[0]
      /\ \A j \in 0 .. Len(kiss_in) : f[j] = from[j] /\ t[j] = to[j]
  BY <1>0, <1>1, <1>10, <1>11
<1>4. m = Len(kiss_in) + 1 /\ m = Len(kiss_in') + 1
  BY <1>0
<1>5. \A j \in 0 .. m : Spans(c, Seg(c, j), f[j], t[j])'
  <2>1. ASSUME NEW j \in 0 .. Len(kiss_in) PROVE Spans(c, Seg(c, j), f[j], t[j])'
    <3>1. Spans(c, Seg(c, j), from[j], to[j])
      BY <1>1, <1>2, <1>4
    <3>2. Seg(c, j)' = Seg(c, j)
      BY <1>1 DEF Seg
    <3>. QED
      BY <1>3, <3>1, <3>2, StreamStays
  <2>2. Seg(c, m)' = chunk'[c]
    BY <1>1, <1>4 DEF Seg
  <2>3. Spans(c, Seg(c, m), f[m], t[m])'
    BY <1>3, <2>2
  <2>4. \A j \in 0 .. m : j = m \/ j \in 0 .. Len(kiss_in)
    BY <1>1, <1>4
  <2>. QED
    BY <2>1, <2>3, <2>4
<1>6. \A j \in 0 .. m - 1 : Skips(c, t[j], f[j + 1])'
  <2>1. ASSUME NEW j \in 0 .. Len(kiss_in), j # Len(kiss_in) PROVE Skips(c, t[j], f[j + 1])'
    <3>1. j \in 0 .. m - 1 /\ j + 1 \in 0 .. Len(kiss_in)
      BY <1>1, <1>4, <2>1
    <3>. QED
      BY <1>2, <1>3, <3>1, StreamStays
  <2>2. Skips(c, t[Len(kiss_in)], f[Len(kiss_in) + 1])'
    BY <1>1, <1>3, <1>4
  <2>. QED
    BY <1>1, <1>4, <2>1, <2>2
<1>7. StreamInv(c, f, t)'
  BY <1>3, <1>4, <1>5, <1>6 DEF StreamInv
<1>. QED
  BY <1>3, <1>7

\* Where the client is, and what its last read has.
LEMMA WriterFacts ==
    ASSUME NEW c \in Clients, StreamTypes(c), upsets \in Nat,
           NEW from, NEW to, StreamInv(c, from, to),
           NEW n, n = Len(kiss_in) + 1, NEW w, w = to[n]
    PROVE  /\ n \in Nat \ {0} /\ chunk[c] \in Seq(LinkBytes) /\ data \in Seq(LinkBytes)
           /\ Spans(c, chunk[c], from[n], w) /\ Skips(c, to[n - 1], from[n])
           /\ \A j \in 0 .. n : Position(c, from[j]) /\ Position(c, to[j])
           /\ WriterAt(c, w) /\ Before(c, from[n], w) /\ Covered(c, from[n], w)
           /\ w.u = upsets /\ w.k \in 1 .. Num(c) + 1 /\ w.w = walk[c]
           /\ todo[c] # << >> <=> w.k <= Num(c)
           /\ todo[c] # << >> =>
                /\ w.k \in 1 .. Num(c) /\ WalkIn(Frames[c][w.k].payload, w.w)
                /\ Head(todo[c]) = Frames[c][w.k]
<1>1. /\ Len(kiss_in) \in Nat /\ kiss_in \in Seq(Seq(LinkBytes))
      /\ chunk[c] \in Seq(LinkBytes) /\ data \in Seq(LinkBytes)
  BY LenProperties DEF StreamTypes
<1>2. n \in Nat \ {0} /\ n - 1 \in 0 .. n - 1 /\ n \in 0 .. n /\ (n - 1) + 1 = n
  BY <1>1
<1>3. /\ \A j \in 0 .. n : Spans(c, Seg(c, j), from[j], to[j])
      /\ \A j \in 0 .. n - 1 : Skips(c, to[j], from[j + 1])
      /\ WriterAt(c, w) /\ Before(c, from[n], w) /\ Covered(c, from[n], w)
  BY DEF StreamInv
<1>4. \A j \in 0 .. n : Seg(c, j) \in Seq(LinkBytes)
  BY <1>1 DEF Seg
<1>5. \A j \in 0 .. n : Position(c, from[j]) /\ Position(c, to[j])
  BY <1>3, <1>4, SpanEnds
<1>6. Seg(c, n) = chunk[c]
  BY <1>1 DEF Seg
<1>7. /\ todo[c] \in Seq({Frames[c][k] : k \in 1 .. Num(c)}) /\ Len(todo[c]) <= Num(c)
      /\ \A i \in 1 .. Len(todo[c]) : todo[c][i] = Frames[c][Num(c) - Len(todo[c]) + i]
      /\ w.k + Len(todo[c]) = Num(c) + 1 /\ w.w = walk[c] /\ w.u = upsets
  BY <1>3 DEF WriterAt
<1>8. Position(c, w)
  BY <1>2, <1>5
<1>9. w.k \in 1 .. Num(c) + 1 /\ w.k \in Nat /\ Num(c) \in Nat /\ Len(todo[c]) \in Nat
  <2>1. w.k \in 1 .. Num(c) + 1
    BY <1>8 DEF Position
  <2>2. Num(c) \in Nat /\ Len(todo[c]) \in Nat
    BY <1>7, FrameFacts, LenProperties
  <2>. QED
    BY <2>1, <2>2
<1>10. todo[c] # << >> <=> Len(todo[c]) # 0
  BY <1>7, EmptySeq
<1>11. todo[c] # << >> <=> w.k <= Num(c)
  BY <1>7, <1>9, <1>10
<1>12. ASSUME todo[c] # << >>
       PROVE  /\ w.k \in 1 .. Num(c) /\ WalkIn(Frames[c][w.k].payload, w.w)
              /\ Head(todo[c]) = Frames[c][w.k]
  <2>1. w.k <= Num(c) /\ 1 \in 1 .. Len(todo[c]) /\ Num(c) - Len(todo[c]) + 1 = w.k
    <3>1. PICK l \in Nat : l = Len(todo[c]) /\ l # 0 /\ w.k + l = Num(c) + 1
      BY <1>7, <1>9, <1>10, <1>12
    <3>2. PICK j \in Nat : j = w.k
      BY <1>9
    <3>4. PICK N \in Nat : N = Num(c) /\ j + l = N + 1
      BY <1>9, <3>1, <3>2
    <3>3. j <= N /\ 1 \in 1 .. l /\ N - l + 1 = j
      BY <3>1, <3>4
    <3>. QED
      BY <3>1, <3>2, <3>3, <3>4
  <2>2. Head(todo[c]) = todo[c][1]
    BY <1>7, <1>12, HeadTailProperties
  <2>3. todo[c][1] = Frames[c][w.k]
    BY <1>7, <2>1
  <2>4. WalkIn(Frames[c][w.k].payload, w.w)
    BY <1>8, <2>1 DEF Position
  <2>. QED
    BY <1>9, <2>1, <2>2, <2>3, <2>4
<1>. QED
  BY <1>1, <1>2, <1>3, <1>5, <1>6, <1>7, <1>9, <1>11, <1>12, LenProperties

\* A step of the client, or of its read, that leaves the rest alone.
LEMMA WriterStep ==
    ASSUME NEW c \in Clients, StreamTypes(c), StreamTypes(c)',
           NEW from, NEW to, StreamInv(c, from, to), DecoderInv(c, from[0]),
           UNCHANGED <<kiss_in, data, decoder, delivered, closed>>,
           upsets' \in Nat, upsets <= upsets', damaged \subseteq damaged',
           damaged' = damaged \/ upsets' # 0,
           NEW a, NEW b, Spans(c, chunk[c], a, b)', Skips(c, to[Len(kiss_in)], a)',
           WriterAt(c, b)', Before(c, a, b), Covered(c, a, b)'
    PROVE  UplinkInv(c)'
<1>1. upsets \in Nat
  BY DEF DecoderInv
<1>2. PICK f, t : StreamInv(c, f, t)' /\ f[0] = from[0]
  BY <1>1, LastChanges
<1>3. Position(c, from[0])
  <2>1. 0 \in 0 .. Len(kiss_in) + 1
    BY LenProperties DEF StreamTypes
  <2>. QED
    BY <1>1, <2>1, WriterFacts
<1>4. DecoderInv(c, from[0])'
  BY <1>3, DamageKeepsDecoderInv
<1>5. DecoderInv(c, f[0])'
  BY <1>2, <1>4
<1>. QED
  BY <1>2, <1>5 DEF UplinkInv

-----------------------------------------------------------------------------
(* The steps, for a client that is alone. *)

\* The frame in hand is given up or finished.
LEMMA TodoTail ==
    ASSUME NEW c \in Clients, NEW w, WriterAt(c, w), w.k \in 1 .. Num(c)
    PROVE  LET t == Tail(todo[c])
           IN /\ t \in Seq({Frames[c][k] : k \in 1 .. Num(c)}) /\ Len(t) <= Num(c)
              /\ \A i \in 1 .. Len(t) : t[i] = Frames[c][Num(c) - Len(t) + i]
              /\ (w.k + 1) + Len(t) = Num(c) + 1
<1>1. PICK S : S = {Frames[c][k] : k \in 1 .. Num(c)}
  OBVIOUS
<1>2. PICK s : s = todo[c]
  OBVIOUS
<1>3. /\ s \in Seq(S) /\ Len(s) <= Num(c) /\ w.k + Len(s) = Num(c) + 1
      /\ \A i \in 1 .. Len(s) : s[i] = Frames[c][Num(c) - Len(s) + i]
  BY <1>1, <1>2 DEF WriterAt
<1>4. PICK N \in Nat : N = Num(c)
  BY FrameFacts
<1>5. PICK l \in Nat : l = Len(s)
  BY <1>3, LenProperties
<1>6. PICK k \in 1 .. N : k = w.k
  BY <1>4
<1>7. l <= N /\ k + l = N + 1 /\ l # 0
  BY <1>3, <1>4, <1>5, <1>6
<1>8. s # << >>
  BY <1>3, <1>5, <1>7, EmptySeq
<1>9. PICK t : t = Tail(s)
  OBVIOUS
<1>10. t \in Seq(S) /\ Len(t) = l - 1 /\ \A i \in 1 .. l - 1 : t[i] = s[i + 1]
  BY <1>3, <1>5, <1>8, <1>9, HeadTailProperties
<1>11. ASSUME NEW i \in 1 .. l - 1 PROVE t[i] = Frames[c][N - (l - 1) + i]
  <2>1. i + 1 \in 1 .. l /\ N - l + (i + 1) = N - (l - 1) + i
    BY <1>7
  <2>. QED
    BY <1>3, <1>4, <1>5, <1>10, <2>1
<1>12. l - 1 <= N /\ (k + 1) + (l - 1) = N + 1
  BY <1>7
<1>. QED
  BY <1>1, <1>2, <1>4, <1>6, <1>9, <1>10, <1>11, <1>12

\* Where everything is, before a step of the client.
Placed(c, from, to, n, p, w) ==
    /\ StreamInv(c, from, to) /\ DecoderInv(c, from[0]) /\ upsets \in Nat
    /\ n = Len(kiss_in) + 1 /\ n \in Nat \ {0} /\ n - 1 = Len(kiss_in)
    /\ chunk[c] \in Seq(LinkBytes) /\ Spans(c, chunk[c], p, w)
    /\ p = from[n] /\ w = to[n] /\ Skips(c, to[n - 1], p)
    /\ Position(c, p) /\ Position(c, w) /\ Position(c, to[n - 1])
    /\ WriterAt(c, w) /\ Before(c, p, w) /\ Covered(c, p, w)
    /\ w.u = upsets /\ w.w = walk[c] /\ w.k \in 1 .. Num(c) + 1
    /\ w.k \in Nat /\ p.k \in Nat /\ Num(c) \in Nat

LEMMA Places ==
    ASSUME NEW c \in Clients, UplinkInv(c)
    PROVE  \E from, to, n, p, w : Placed(c, from, to, n, p, w)
<1>1. StreamTypes(c)
  BY DEF UplinkInv
<1>2. PICK from, to : StreamInv(c, from, to) /\ DecoderInv(c, from[0])
  BY DEF UplinkInv
<1>3. upsets \in Nat
  BY <1>2 DEF DecoderInv
<1>4. PICK n : n = Len(kiss_in) + 1
  OBVIOUS
<1>5. PICK w : w = to[n]
  OBVIOUS
<1>6. PICK p : p = from[n]
  OBVIOUS
<1>7. n \in Nat /\ n \in 0 .. n /\ n - 1 \in 0 .. n /\ n - 1 = Len(kiss_in)
  BY <1>1, <1>4, LenProperties DEF StreamTypes
<1>8. /\ n \in Nat \ {0} /\ chunk[c] \in Seq(LinkBytes) /\ Spans(c, chunk[c], p, w)
      /\ Skips(c, to[n - 1], p) /\ Position(c, p) /\ Position(c, w) /\ Position(c, to[n - 1])
      /\ WriterAt(c, w) /\ Before(c, p, w) /\ Covered(c, p, w)
      /\ w.u = upsets /\ w.w = walk[c] /\ w.k \in 1 .. Num(c) + 1
  BY <1>1, <1>2, <1>3, <1>4, <1>5, <1>6, <1>7, WriterFacts
<1>9. Num(c) \in Nat
  BY FrameFacts
<1>10. w.k \in Nat /\ p.k \in Nat
  BY <1>8, <1>9 DEF Position
<1>11. Placed(c, from, to, n, p, w)
  BY <1>2, <1>3, <1>4, <1>5, <1>6, <1>7, <1>8, <1>9, <1>10 DEF Placed
<1>. QED
  BY <1>11

\* The frame the client is writing.
LEMMA FrameInHand ==
    ASSUME NEW c \in Clients, UplinkInv(c), NEW from, NEW to, NEW n, NEW p, NEW w,
           Placed(c, from, to, n, p, w), todo[c] # << >>
    PROVE  /\ w.k \in 1 .. Num(c) /\ WalkIn(Frames[c][w.k].payload, w.w)
           /\ Head(todo[c]) = Frames[c][w.k]
  BY WriterFacts DEF Placed, UplinkInv

\* A byte of the client's frame enters the read.
LEMMA ClientByteStep ==
    ASSUME NEW c \in Clients, UplinkInv(c), ClientByte(c)
    PROVE  UplinkInv(c)'
<1>1. /\ StreamTypes(c) /\ kiss_in \in Seq(Seq(LinkBytes)) /\ data \in Seq(LinkBytes)
      /\ chunk \in [Clients -> Seq(LinkBytes)] /\ DOMAIN todo = Clients /\ DOMAIN walk = Clients
  BY DEF UplinkInv, StreamTypes
<1>2. PICK from, to, n, p, w : Placed(c, from, to, n, p, w)
  BY Places
<1>3. /\ StreamInv(c, from, to) /\ DecoderInv(c, from[0]) /\ upsets \in Nat
      /\ p = from[n] /\ w = to[n] /\ n - 1 = Len(kiss_in)
  BY <1>2 DEF Placed
<1>7. /\ chunk[c] \in Seq(LinkBytes) /\ Spans(c, chunk[c], p, w)
      /\ Skips(c, to[n - 1], p) /\ Position(c, p) /\ Position(c, w)
      /\ WriterAt(c, w) /\ Before(c, p, w) /\ Covered(c, p, w)
      /\ w.u = upsets /\ w.w = walk[c] /\ w.k \in 1 .. Num(c)
      /\ WalkIn(Frames[c][w.k].payload, w.w) /\ Head(todo[c]) = Frames[c][w.k]
  <2>1. todo[c] # << >>
    BY DEF ClientByte
  <2>2. /\ w.k \in 1 .. Num(c) /\ WalkIn(Frames[c][w.k].payload, w.w)
        /\ Head(todo[c]) = Frames[c][w.k]
    BY <1>2, <2>1, FrameInHand
  <2>3. /\ chunk[c] \in Seq(LinkBytes) /\ Spans(c, chunk[c], p, w)
        /\ Skips(c, to[n - 1], p) /\ Position(c, p) /\ Position(c, w)
        /\ WriterAt(c, w) /\ Before(c, p, w) /\ Covered(c, p, w)
        /\ w.u = upsets /\ w.w = walk[c]
    BY <1>2 DEF Placed
  <2>. QED
    BY <2>2, <2>3
<1>8. PICK f : f = Frames[c][w.k]
  OBVIOUS
<1>9. PICK closing \in BOOLEAN : closing <=> w.w.st = "close"
  OBVIOUS
<1>10. PICK x : x = OnLink(NextByte(f.payload, w.w), Origin(f, closing))
  OBVIOUS
<1>11. PICK b : b = At(IF closing THEN w.k + 1 ELSE w.k, NextWalk(f.payload, w.w), w.u, FALSE)
  OBVIOUS
<1>12. /\ b.k = (IF closing THEN w.k + 1 ELSE w.k) /\ b.w = NextWalk(f.payload, w.w)
       /\ b.u = w.u /\ b.noisy = FALSE
  BY <1>11 DEF At
<1>13. /\ f.payload \in Seq(0 .. 255) /\ f.payload # << >> /\ ~Special(f.payload[1])
       /\ f.id \in Nat /\ f.id # 0 /\ Num(c) \in Nat
  BY <1>7, <1>8, FrameFacts
<1>14. /\ NextByte(f.payload, w.w) \in 0 .. 255 /\ WalkIn(f.payload, NextWalk(f.payload, w.w))
       /\ closing => NextWalk(f.payload, w.w) = Opening
       /\ ~closing /\ w.w # Opening => NextWalk(f.payload, w.w) # Opening
  BY <1>7, <1>8, <1>9, <1>13, FrameBytes
<1>15. x \in LinkBytes /\ x.origin.id = f.id /\ x.origin # NoOrigin
  BY <1>10, <1>13, <1>14 DEF OnLink, Origin, NoOrigin, LinkBytes
<1>16. (w.w.st = "close") = closing
  BY <1>9
<1>17. /\ chunk' = [chunk EXCEPT ![c] = Append(@, x)]
       /\ walk' = [walk EXCEPT ![c] = b.w]
       /\ todo' = IF closing THEN [todo EXCEPT ![c] = Tail(@)] ELSE todo
       /\ UNCHANGED <<kiss_in, data, decoder, delivered, closed, damaged, upsets>>
  BY <1>7, <1>8, <1>9, <1>10, <1>12, <1>16 DEF ClientByte, ReadByte
<1>18. chunk'[c] = Append(chunk[c], x) /\ walk'[c] = b.w
       /\ todo'[c] = IF closing THEN Tail(todo[c]) ELSE todo[c]
  BY <1>1, <1>17
<1>19. StreamTypes(c)'
  <2>1. Append(chunk[c], x) \in Seq(LinkBytes)
    BY <1>7, <1>15, AppendProperties
  <2>. QED
    BY <1>1, <1>17, <2>1 DEF StreamTypes
<1>20. w.k \in Nat /\ p.k \in Nat /\ b.k \in Nat
  BY <1>7, <1>12, <1>13 DEF Position
<1>21. Position(c, b)'
  <2>1. b.k \in 1 .. Num(c) + 1
    BY <1>7, <1>12, <1>13
  <2>2. b.k <= Num(c) => WalkIn(Frames[c][b.k].payload, b.w)
    <3>1. CASE closing
      BY <1>12, <1>14, <3>1 DEF WalkIn
    <3>2. CASE ~closing
      BY <1>8, <1>12, <1>14, <3>2
    <3>. QED
      BY <3>1, <3>2
  <2>3. ~(b.k <= Num(c)) => b.w = Opening
    BY <1>7, <1>12, <1>13, <1>14
  <2>4. b.u \in Nat /\ b.u <= upsets' /\ b.noisy \in BOOLEAN
    <3>1. b.u = upsets /\ upsets' = upsets
      BY <1>7, <1>12, <1>17
    <3>2. b.noisy \in BOOLEAN
      BY <1>12
    <3>. QED
      BY <1>3, <3>1, <3>2
  <2>. QED
    BY <2>1, <2>2, <2>3, <2>4 DEF Position
<1>22. Spans(c, chunk[c], p, b)'
  <2>1. Follows(c, w, x, b)
    <3>1. Own(c, w, x, b)
      BY <1>7, <1>8, <1>10, <1>12, <1>13, <1>16 DEF Own
    <3>. QED
      BY <1>15, <3>1 DEF Follows
  <2>2. \A s : Spans(c, s, p, w) => Spans(c, s, p, w)'
    BY <1>3, <1>17, StreamStays
  <2>3. PICK s : s = chunk[c]
    OBVIOUS
  <2>4. Spans(c, s, p, w)'
    BY <1>7, <2>2, <2>3
  <2>5. Spans(c, Append(s, x), p, b)'
    BY <1>7, <1>15, <1>21, <2>1, <2>3, <2>4, SpanAppend
  <2>. QED
    BY <1>18, <2>3, <2>5
<1>23. Skips(c, to[Len(kiss_in)], p)'
  <2>1. Skips(c, to[n - 1], p)'
    <3>1. \A l, q : Skips(c, l, q) => Skips(c, l, q)'
      BY <1>3, <1>17, StreamStays
    <3>. QED
      BY <1>7, <3>1
  <2>. QED
    BY <1>3, <1>17, <2>1
<1>24. WriterAt(c, b)'
  <2>1. b.noisy <=> chunk'[c] # << >> /\ Last(chunk'[c]).origin = NoOrigin
    <3>1. Last(chunk'[c]) = x
      BY <1>7, <1>15, <1>18, AppendProperties DEF Last
    <3>. QED
      BY <1>12, <1>15, <3>1
  <2>2. b.w = walk'[c] /\ b.u = upsets'
    BY <1>7, <1>12, <1>17, <1>18
  <2>3. /\ todo'[c] \in Seq({Frames[c][k] : k \in 1 .. Num(c)}) /\ Len(todo'[c]) <= Num(c)
        /\ \A i \in 1 .. Len(todo'[c]) : todo'[c][i] = Frames[c][Num(c) - Len(todo'[c]) + i]
        /\ b.k + Len(todo'[c]) = Num(c) + 1
    <3>1. CASE closing
      BY <1>7, <1>12, <1>13, <1>18, <1>20, <3>1, TodoTail
    <3>2. CASE ~closing
      BY <1>7, <1>12, <1>18, <3>2 DEF WriterAt
    <3>. QED
      BY <3>1, <3>2
  <2>. QED
    BY <2>1, <2>2, <2>3 DEF WriterAt
<1>25. Before(c, p, b)
  <2>1. p.k <= w.k /\ (p.k = w.k /\ Mid(c, p) => Mid(c, w))
    BY <1>7 DEF Before
  <2>2. CASE closing
    BY <1>12, <1>20, <2>1, <2>2 DEF Before
  <2>3. CASE ~closing
    BY <1>12, <1>14, <2>1, <2>3 DEF Before, Mid
  <2>. QED
    BY <2>2, <2>3
<1>26. Covered(c, p, b)'
  <2>1. /\ DOMAIN chunk'[c] = 1 .. Len(chunk[c]) + 1 /\ DOMAIN chunk[c] = 1 .. Len(chunk[c])
        /\ Len(chunk[c]) \in Nat
        /\ \A j \in 1 .. Len(chunk[c]) : chunk'[c][j] = chunk[c][j]
        /\ chunk'[c][Len(chunk[c]) + 1] = x
    BY <1>7, <1>15, <1>18, AppendProperties, LenProperties
  <2>2. ASSUME NEW k \in Between(c, p, b)
        PROVE  \E j \in DOMAIN chunk'[c] : chunk'[c][j].origin.id = Frames[c][k].id
    <3>1. CASE k = w.k
      BY <1>8, <1>15, <2>1, <3>1
    <3>2. CASE k # w.k
      <4>1. k \in 1 .. Num(c) /\ p.k <= k /\ (k < b.k \/ (k = b.k /\ Mid(c, b)))
        BY <2>2 DEF Between
      <4>2. k < w.k
        BY <1>12, <1>14, <1>20, <3>2, <4>1 DEF Mid
      <4>3. k \in Between(c, p, w)
        BY <4>1, <4>2 DEF Between
      <4>4. chunk[c] # << >>
        <5>1. ASSUME chunk[c] = << >> PROVE p = w
          BY <1>7, <5>1, EmptySpan
        <5>. QED
          BY <1>20, <4>1, <4>2, <5>1
      <4>5. PICK j \in DOMAIN chunk[c] : chunk[c][j].origin.id = Frames[c][k].id
        BY <1>7, <4>3, <4>4 DEF Covered
      <4>. QED
        BY <2>1, <4>5
    <3>. QED
      BY <3>1, <3>2
  <2>. QED
    BY <2>2 DEF Covered
<1>. QED
  BY <1>1, <1>3, <1>17, <1>19, <1>22, <1>23, <1>24, <1>25, <1>26, WriterStep

\* A byte of noise enters it.
LEMMA NoiseByteStep ==
    ASSUME NEW c \in Clients, UplinkInv(c), NEW v \in Noise, NoiseByte(c, v)
    PROVE  UplinkInv(c)'
<1>1. /\ StreamTypes(c) /\ kiss_in \in Seq(Seq(LinkBytes)) /\ data \in Seq(LinkBytes)
      /\ chunk \in [Clients -> Seq(LinkBytes)] /\ DOMAIN todo = Clients /\ DOMAIN walk = Clients
  BY DEF UplinkInv, StreamTypes
<1>2. PICK from, to, n, p, w : Placed(c, from, to, n, p, w)
  BY Places
<1>3. /\ StreamInv(c, from, to) /\ DecoderInv(c, from[0]) /\ upsets \in Nat
      /\ p = from[n] /\ w = to[n] /\ n - 1 = Len(kiss_in)
  BY <1>2 DEF Placed
<1>4. /\ chunk[c] \in Seq(LinkBytes) /\ Spans(c, chunk[c], p, w)
      /\ Skips(c, to[n - 1], p) /\ Position(c, p) /\ Position(c, w)
      /\ WriterAt(c, w) /\ Before(c, p, w) /\ Covered(c, p, w)
      /\ w.u = upsets /\ w.w = walk[c] /\ w.k \in Nat /\ p.k \in Nat
  BY <1>2 DEF Placed
<1>5. PICK x : x = OnLink(v, NoOrigin)
  OBVIOUS
<1>6. v \in 0 .. 255
  BY UplinkAssumption
<1>7. x \in LinkBytes /\ x.origin = NoOrigin /\ x.origin.id = 0
  BY <1>5, <1>6 DEF OnLink, NoOrigin, LinkBytes
<1>8. /\ chunk' = [chunk EXCEPT ![c] = Append(@, x)] /\ walk[c] = Opening
      /\ UNCHANGED <<todo, walk, kiss_in, data, decoder, delivered, closed, damaged>>
      /\ upsets' = IF w.noisy THEN upsets ELSE upsets + 1
  <2>1. w.noisy <=> chunk[c] # << >> /\ Last(chunk[c]).origin = NoOrigin
    BY <1>4 DEF WriterAt
  <2>2. CASE chunk[c] # << >> /\ Last(chunk[c]).origin = NoOrigin
    BY <1>5, <2>1, <2>2 DEF NoiseByte, ReadByte
  <2>3. CASE ~(chunk[c] # << >> /\ Last(chunk[c]).origin = NoOrigin)
    BY <1>5, <2>1, <2>3 DEF NoiseByte, ReadByte
  <2>. QED
    BY <2>2, <2>3
<1>9. upsets' \in Nat /\ upsets <= upsets' /\ chunk'[c] = Append(chunk[c], x)
  BY <1>1, <1>3, <1>8
<1>10. PICK b : b = At(w.k, w.w, IF w.noisy THEN w.u ELSE w.u + 1, TRUE)
  OBVIOUS
<1>11. /\ b.k = w.k /\ b.w = w.w /\ b.u = (IF w.noisy THEN w.u ELSE w.u + 1)
       /\ b.noisy = TRUE
  BY <1>10 DEF At
<1>12. b.u = upsets'
  BY <1>4, <1>8, <1>11
<1>13. StreamTypes(c)'
  <2>1. Append(chunk[c], x) \in Seq(LinkBytes)
    BY <1>4, <1>7, AppendProperties
  <2>. QED
    BY <1>1, <1>8, <2>1 DEF StreamTypes
<1>14. Position(c, b)'
  <2>1. b.u \in Nat /\ b.u <= upsets'
    BY <1>9, <1>12
  <2>2. b.noisy \in BOOLEAN
    BY <1>11
  <2>. QED
    BY <1>4, <1>11, <2>1, <2>2 DEF Position
<1>15. Spans(c, chunk[c], p, b)'
  <2>1. Follows(c, w, x, b)
    <3>1. Noisy(w, x, b)
      BY <1>4, <1>7, <1>8, <1>11 DEF Noisy
    <3>. QED
      BY <1>7, <3>1 DEF Follows
  <2>2. \A s : Spans(c, s, p, w) => Spans(c, s, p, w)'
    BY <1>3, <1>8, <1>9, StreamStays
  <2>3. PICK s : s = chunk[c]
    OBVIOUS
  <2>4. Spans(c, s, p, w)'
    BY <1>4, <2>2, <2>3
  <2>5. Spans(c, Append(s, x), p, b)'
    BY <1>4, <1>7, <1>14, <2>1, <2>3, <2>4, SpanAppend
  <2>. QED
    BY <1>9, <2>3, <2>5
<1>16. Skips(c, to[Len(kiss_in)], p)'
  <2>1. Skips(c, to[n - 1], p)'
    <3>1. \A l, q : Skips(c, l, q) => Skips(c, l, q)'
      BY <1>3, <1>8, <1>9, StreamStays
    <3>. QED
      BY <1>4, <3>1
  <2>. QED
    BY <1>3, <1>8, <2>1
<1>17. WriterAt(c, b)'
  <2>1. chunk'[c] # << >> /\ Last(chunk'[c]).origin = NoOrigin
    BY <1>4, <1>7, <1>9, AppendProperties DEF Last
  <2>2. b.noisy <=> chunk'[c] # << >> /\ Last(chunk'[c]).origin = NoOrigin
    BY <1>11, <2>1
  <2>3. b.w = walk'[c] /\ b.u = upsets'
    BY <1>4, <1>8, <1>11, <1>12
  <2>. QED
    BY <1>4, <1>8, <1>11, <2>2, <2>3 DEF WriterAt
<1>18. Before(c, p, b)
  BY <1>4, <1>11 DEF Before, Mid
<1>19. Covered(c, p, b)'
  <2>1. /\ DOMAIN chunk'[c] = 1 .. Len(chunk[c]) + 1 /\ DOMAIN chunk[c] = 1 .. Len(chunk[c])
        /\ Len(chunk[c]) \in Nat
        /\ \A j \in 1 .. Len(chunk[c]) : chunk'[c][j] = chunk[c][j]
    BY <1>4, <1>7, <1>9, AppendProperties, LenProperties
  <2>2. ASSUME NEW k \in Between(c, p, b)
        PROVE  \E j \in DOMAIN chunk'[c] : chunk'[c][j].origin.id = Frames[c][k].id
    <3>1. k \in 1 .. Num(c) /\ p.k <= k /\ k < w.k
      BY <1>4, <1>8, <1>11, <2>2 DEF Between, Mid
    <3>2. k \in Between(c, p, w)
      BY <3>1 DEF Between
    <3>3. chunk[c] # << >>
      <4>1. ASSUME chunk[c] = << >> PROVE p = w
        BY <1>4, <4>1, EmptySpan
      <4>. QED
        BY <1>4, <3>1, <4>1
    <3>4. PICK j \in DOMAIN chunk[c] : chunk[c][j].origin.id = Frames[c][k].id
      BY <1>4, <3>2, <3>3 DEF Covered
    <3>. QED
      BY <2>1, <3>4
  <2>. QED
    BY <2>2 DEF Covered
<1>. QED
  BY <1>1, <1>3, <1>8, <1>9, <1>13, <1>15, <1>16, <1>17, <1>18, <1>19, WriterStep

\* The frames behind a gap and a read are those between the gap and the read.
LEMMA GapThenRead ==
    ASSUME NEW c \in Clients, NEW l, NEW p, NEW w,
           Position(c, l), Position(c, p), Position(c, w), Skips(c, l, p), Before(c, p, w)
    PROVE  /\ Before(c, l, w) /\ l.k \in Nat /\ w.k \in Nat
           /\ l.u \in Nat /\ l.u <= p.u /\ p.u <= upsets
           /\ \A k \in Between(c, l, w) :
                k \in Between(c, p, w) \/ Frames[c][k].id \in damaged
<1>1. l.k \in Nat /\ p.k \in Nat /\ w.k \in Nat /\ l.u \in Nat /\ p.u \in Nat /\ p.u <= upsets
  BY FrameFacts DEF Position
<1>2. l.u <= p.u
  BY <1>1 DEF Skips
<1>3. l.k <= p.k /\ p.k <= w.k
  BY <1>1 DEF Skips, Before
<1>4. Before(c, l, w)
  <2>1. ASSUME l.k = w.k, Mid(c, l) PROVE Mid(c, w)
    <3>1. p.k = w.k /\ l.k = p.k
      BY <1>1, <1>3, <2>1
    <3>2. Mid(c, p)
      BY <2>1, <3>1 DEF Skips, Before, Mid
    <3>. QED
      BY <3>1, <3>2 DEF Before
  <2>2. l.k <= w.k
    BY <1>1, <1>3
  <2>. QED
    BY <2>1, <2>2 DEF Before
<1>5. ASSUME NEW k \in Between(c, l, w)
      PROVE  k \in Between(c, p, w) \/ Frames[c][k].id \in damaged
  <2>1. k \in 1 .. Num(c) /\ k \in Nat /\ l.k <= k /\ (k < w.k \/ (k = w.k /\ Mid(c, w)))
    BY <1>5, FrameFacts DEF Between
  <2>2. CASE p.k <= k
    BY <2>1, <2>2 DEF Between
  <2>3. CASE k < p.k
    BY <1>1, <2>1, <2>3 DEF Skips, Between
  <2>. QED
    BY <1>1, <2>1, <2>2, <2>3
<1>. QED
  BY <1>1, <1>2, <1>4, <1>5

\* The read is empty, and the client goes on behind a gap.
LEMMA GapStep ==
    ASSUME NEW c \in Clients, UplinkInv(c), NEW from, NEW to, NEW n, NEW p, NEW w,
           Placed(c, from, to, n, p, w),
           UNCHANGED <<kiss_in, data, decoder, delivered, closed>>,
           DOMAIN todo' = Clients, DOMAIN walk' = Clients,
           chunk' = [chunk EXCEPT ![c] = << >>], upsets' = upsets + 1, damaged \subseteq damaged',
           NEW b, b.u = upsets', b.noisy = FALSE, Position(c, b)', WriterAt(c, b)',
           Before(c, to[n - 1], b),
           \A k \in Between(c, to[n - 1], b) : Frames[c][k].id \in damaged'
    PROVE  UplinkInv(c)'
<1>1. /\ StreamTypes(c) /\ kiss_in \in Seq(Seq(LinkBytes)) /\ data \in Seq(LinkBytes)
      /\ chunk \in [Clients -> Seq(LinkBytes)]
  BY DEF UplinkInv, StreamTypes
<1>2. /\ StreamInv(c, from, to) /\ DecoderInv(c, from[0]) /\ upsets \in Nat
      /\ n - 1 = Len(kiss_in) /\ Position(c, to[n - 1])
  BY DEF Placed
<1>3. upsets' \in Nat /\ upsets <= upsets' /\ upsets' # 0 /\ chunk'[c] = << >>
  BY <1>1, <1>2
<1>4. StreamTypes(c)'
  <2>1. << >> \in Seq(LinkBytes)
    BY EmptySeq
  <2>. QED
    BY <1>1, <2>1 DEF StreamTypes
<1>5. Spans(c, chunk[c], b, b)'
  <2>1. Spans(c, << >>, b, b)'
    <3>1. PICK pos : pos = [j \in 1 .. 1 |-> b]
      OBVIOUS
    <3>2. /\ pos[1] = b /\ pos[Len(<< >>) + 1] = b
          /\ \A j \in 1 .. Len(<< >>) + 1 : Position(c, pos[j])'
          /\ \A j \in 1 .. Len(<< >>) : Follows(c, pos[j], << >>[j], pos[j + 1])
      BY <3>1
    <3>. QED
      BY <3>2 DEF Spans
  <2>. QED
    BY <1>3, <2>1
<1>6. Skips(c, to[Len(kiss_in)], b)'
  <2>1. to[n - 1].u < b.u
    <3>1. PICK l : l = to[n - 1]
      OBVIOUS
    <3>2. l.u \in Nat /\ l.u <= upsets
      BY <1>2, <3>1 DEF Position
    <3>. QED
      BY <1>2, <3>1, <3>2
  <2>2. Skips(c, to[n - 1], b)'
    BY <2>1 DEF Skips
  <2>. QED
    BY <1>2, <2>2
<1>7. Before(c, b, b)
  <2>1. b.k \in Nat
    BY FrameFacts DEF Position
  <2>. QED
    BY <2>1 DEF Before
<1>8. Covered(c, b, b)'
  BY <1>3 DEF Covered
<1>. QED
  BY <1>1, <1>2, <1>3, <1>4, <1>5, <1>6, <1>7, <1>8, WriterStep

\* The connection breaks inside a frame.
LEMMA ReconnectStep ==
    ASSUME NEW c \in Clients, UplinkInv(c), Reconnect(c)
    PROVE  UplinkInv(c)'
<1>1. /\ chunk \in [Clients -> Seq(LinkBytes)] /\ DOMAIN todo = Clients /\ DOMAIN walk = Clients
  BY DEF UplinkInv, StreamTypes
<1>2. PICK from, to, n, p, w : Placed(c, from, to, n, p, w)
  BY Places
<1>3. /\ upsets \in Nat /\ chunk[c] \in Seq(LinkBytes) /\ Spans(c, chunk[c], p, w)
      /\ Skips(c, to[n - 1], p) /\ Position(c, w) /\ Position(c, p) /\ Position(c, to[n - 1])
      /\ WriterAt(c, w) /\ Before(c, p, w) /\ Num(c) \in Nat
      /\ w.w = walk[c] /\ w.k \in 1 .. Num(c) + 1 /\ w.k \in Nat
  BY <1>2 DEF Placed
<1>4. /\ walk[c] # Opening /\ chunk[c] = << >> /\ upsets' = upsets + 1
      /\ walk' = [walk EXCEPT ![c] = Opening] /\ todo' = [todo EXCEPT ![c] = Tail(@)]
      /\ damaged' = damaged \cup {Head(todo[c]).id}
      /\ UNCHANGED <<chunk, kiss_in, data, decoder, delivered, closed>>
  BY DEF Reconnect
<1>5. w.k <= Num(c)
  BY <1>3, <1>4 DEF Position
<1>6. w.k \in 1 .. Num(c)
  BY <1>3, <1>5
<1>7. todo[c] # << >>
  <2>1. StreamTypes(c) /\ StreamInv(c, from, to) /\ n = Len(kiss_in) + 1 /\ w = to[n]
    BY <1>2 DEF Placed, UplinkInv
  <2>. QED
    BY <1>3, <1>5, <2>1, WriterFacts
<1>8. Head(todo[c]) = Frames[c][w.k]
  BY <1>2, <1>7, FrameInHand
<1>9. PICK b : b = At(w.k + 1, Opening, upsets + 1, FALSE)
  OBVIOUS
<1>10. b.k = w.k + 1 /\ b.w = Opening /\ b.u = upsets' /\ b.noisy = FALSE
  BY <1>4, <1>9 DEF At
<1>11. Position(c, b)'
  <2>1. b.k \in 1 .. Num(c) + 1
    BY <1>3, <1>6, <1>10
  <2>2. b.u \in Nat /\ b.u <= upsets'
    BY <1>3, <1>4, <1>10
  <2>3. b.noisy \in BOOLEAN
    BY <1>10
  <2>. QED
    BY <1>10, <2>1, <2>2, <2>3 DEF Position, WalkIn
<1>12. WriterAt(c, b)'
  <2>1. todo'[c] = Tail(todo[c]) /\ walk'[c] = Opening /\ chunk'[c] = << >>
    BY <1>1, <1>4
  <2>2. /\ todo'[c] \in Seq({Frames[c][k] : k \in 1 .. Num(c)}) /\ Len(todo'[c]) <= Num(c)
        /\ \A i \in 1 .. Len(todo'[c]) : todo'[c][i] = Frames[c][Num(c) - Len(todo'[c]) + i]
        /\ b.k + Len(todo'[c]) = Num(c) + 1
    BY <1>3, <1>6, <1>10, <2>1, TodoTail
  <2>3. b.noisy <=> chunk'[c] # << >> /\ Last(chunk'[c]).origin = NoOrigin
    BY <1>10, <2>1
  <2>. QED
    BY <1>10, <2>1, <2>2, <2>3 DEF WriterAt
<1>13. chunk' = [chunk EXCEPT ![c] = << >>]
  BY <1>1, <1>4
<1>14. PICK l : l = to[n - 1]
  OBVIOUS
<1>15. /\ Before(c, l, w) /\ l.k \in Nat
       /\ \A k \in Between(c, l, w) : k \in Between(c, p, w) \/ Frames[c][k].id \in damaged
  BY <1>3, <1>14, GapThenRead
<1>16. Before(c, l, b)
  <2>1. l.k <= w.k
    BY <1>15 DEF Before
  <2>2. l.k <= b.k /\ l.k # b.k
    BY <1>3, <1>10, <1>15, <2>1
  <2>. QED
    BY <2>2 DEF Before
<1>17. ASSUME NEW k \in Between(c, l, b) PROVE Frames[c][k].id \in damaged'
  <2>1. k \in 1 .. Num(c) /\ k \in Nat /\ l.k <= k /\ k <= w.k
    <3>1. k \in 1 .. Num(c) /\ l.k <= k /\ (k < b.k \/ Mid(c, b))
      BY <1>17 DEF Between
    <3>2. ~Mid(c, b)
      BY <1>10 DEF Mid
    <3>. QED
      BY <1>3, <1>10, <3>1, <3>2
  <2>2. CASE k = w.k
    BY <1>4, <1>8, <2>2
  <2>3. CASE k # w.k
    <3>1. k < w.k /\ k \in Between(c, l, w)
      BY <1>3, <2>1, <2>3 DEF Between
    <3>2. p = w
      BY <1>3, <1>4, EmptySpan
    <3>3. k \notin Between(c, p, w)
      BY <1>3, <2>1, <3>1, <3>2 DEF Between
    <3>. QED
      BY <1>4, <1>15, <3>1, <3>3
  <2>. QED
    BY <2>2, <2>3
<1>18. DOMAIN todo' = Clients /\ DOMAIN walk' = Clients
  BY <1>1, <1>4
<1>19. Before(c, to[n - 1], b) /\ \A k \in Between(c, to[n - 1], b) : Frames[c][k].id \in damaged'
  BY <1>14, <1>16, <1>17
<1>20. damaged \subseteq damaged'
  BY <1>4
<1>. QED
  BY <1>2, <1>4, <1>10, <1>11, <1>12, <1>13, <1>18, <1>19, <1>20, GapStep

\* The channel is full: what was read is lost.
LEMMA DropStep ==
    ASSUME NEW c \in Clients, UplinkInv(c), Drop(c)
    PROVE  UplinkInv(c)'
<1>1. /\ chunk \in [Clients -> Seq(LinkBytes)] /\ DOMAIN todo = Clients /\ DOMAIN walk = Clients
  BY DEF UplinkInv, StreamTypes
<1>2. PICK from, to, n, p, w : Placed(c, from, to, n, p, w)
  BY Places
<1>3. /\ upsets \in Nat /\ Skips(c, to[n - 1], p)
      /\ Position(c, w) /\ Position(c, p) /\ Position(c, to[n - 1])
      /\ WriterAt(c, w) /\ Before(c, p, w) /\ Covered(c, p, w)
  BY <1>2 DEF Placed
<1>4. /\ chunk[c] # << >> /\ upsets' = upsets + 1 /\ chunk' = [chunk EXCEPT ![c] = << >>]
      /\ damaged' = damaged \cup {chunk[c][k].origin.id : k \in DOMAIN chunk[c]}
      /\ UNCHANGED <<todo, walk, kiss_in, data, decoder, delivered, closed>>
  BY DEF Drop
<1>5. PICK b : b = At(w.k, w.w, upsets + 1, FALSE)
  OBVIOUS
<1>6. b.k = w.k /\ b.w = w.w /\ b.u = upsets' /\ b.noisy = FALSE
  BY <1>4, <1>5 DEF At
<1>7. Position(c, b)'
  <2>1. b.u \in Nat /\ b.u <= upsets'
    BY <1>3, <1>4, <1>6
  <2>2. b.noisy \in BOOLEAN
    BY <1>6
  <2>. QED
    BY <1>3, <1>6, <2>1, <2>2 DEF Position
<1>8. WriterAt(c, b)'
  <2>1. chunk'[c] = << >>
    BY <1>1, <1>4
  <2>2. b.noisy <=> chunk'[c] # << >> /\ Last(chunk'[c]).origin = NoOrigin
    BY <1>6, <2>1
  <2>. QED
    BY <1>3, <1>4, <1>6, <2>2 DEF WriterAt
<1>9. (Mid(c, b) <=> Mid(c, w)) /\ \A l : (Before(c, l, b) <=> Before(c, l, w))
      /\ Between(c, l, b) = Between(c, l, w)
  BY <1>6 DEF Mid, Before, Between
<1>10. Before(c, to[n - 1], b)
  BY <1>3, <1>9, GapThenRead
<1>11. ASSUME NEW k \in Between(c, to[n - 1], b) PROVE Frames[c][k].id \in damaged'
  <2>1. k \in Between(c, p, w) \/ Frames[c][k].id \in damaged
    BY <1>3, <1>9, <1>11, GapThenRead
  <2>2. k \in Between(c, p, w) =>
          \E j \in DOMAIN chunk[c] : chunk[c][j].origin.id = Frames[c][k].id
    BY <1>3, <1>4 DEF Covered
  <2>. QED
    BY <1>4, <2>1, <2>2
<1>12. damaged \subseteq damaged' /\ DOMAIN todo' = Clients /\ DOMAIN walk' = Clients
  BY <1>1, <1>4
<1>. QED
  BY <1>2, <1>4, <1>6, <1>7, <1>8, <1>10, <1>11, <1>12, GapStep

\* What is read enters the channel.
LEMMA ForwardStep ==
    ASSUME NEW c \in Clients, UplinkInv(c), Forward(c)
    PROVE  UplinkInv(c)'
<1>1. /\ kiss_in \in Seq(Seq(LinkBytes)) /\ data \in Seq(LinkBytes)
      /\ chunk \in [Clients -> Seq(LinkBytes)] /\ DOMAIN todo = Clients /\ DOMAIN walk = Clients
  BY DEF UplinkInv, StreamTypes
<1>2. PICK from, to, n, p, w : Placed(c, from, to, n, p, w)
  BY Places
<1>3. /\ StreamInv(c, from, to) /\ DecoderInv(c, from[0]) /\ upsets \in Nat
      /\ chunk[c] \in Seq(LinkBytes) /\ Spans(c, chunk[c], p, w) /\ Position(c, w)
      /\ p = from[n] /\ w = to[n] /\ WriterAt(c, w) /\ w.u = upsets /\ Num(c) \in Nat
      /\ n = Len(kiss_in) + 1 /\ n \in Nat \ {0}
  BY <1>2 DEF Placed
<1>4. /\ kiss_in' = Append(kiss_in, chunk[c]) /\ chunk' = [chunk EXCEPT ![c] = << >>]
      /\ UNCHANGED <<todo, walk, data, decoder, delivered, closed, damaged, upsets>>
  BY DEF Forward
<1>5. /\ Len(kiss_in') = n /\ kiss_in'[n] = chunk[c] /\ kiss_in' \in Seq(Seq(LinkBytes))
      /\ (\A j \in 1 .. Len(kiss_in) : kiss_in'[j] = kiss_in[j]) /\ chunk'[c] = << >>
      /\ Len(kiss_in) \in Nat
  BY <1>1, <1>3, <1>4, AppendProperties, LenProperties
<1>6. StreamTypes(c)'
  <2>1. << >> \in Seq(LinkBytes)
    BY EmptySeq
  <2>. QED
    BY <1>1, <1>4, <1>5, <2>1 DEF StreamTypes
<1>7. PICK b : b = At(w.k, w.w, w.u, FALSE)
  OBVIOUS
<1>8. b.k = w.k /\ b.w = w.w /\ b.u = w.u /\ b.noisy = FALSE
  BY <1>7 DEF At
<1>9. PICK f : f = [j \in 0 .. n + 1 |-> IF j = n + 1 THEN b ELSE from[j]]
  OBVIOUS
<1>10. PICK t : t = [j \in 0 .. n + 1 |-> IF j = n + 1 THEN b ELSE to[j]]
  OBVIOUS
<1>11. /\ f[n + 1] = b /\ t[n + 1] = b /\ \A j \in 0 .. n : f[j] = from[j] /\ t[j] = to[j]
  BY <1>3, <1>9, <1>10
<1>12. Position(c, b)'
  <2>1. b.noisy \in BOOLEAN
    BY <1>8
  <2>. QED
    BY <1>3, <1>4, <1>8, <2>1 DEF Position
<1>13. \A j \in 0 .. n + 1 : Spans(c, Seg(c, j), f[j], t[j])'
  <2>1. ASSUME NEW j \in 0 .. n PROVE Spans(c, Seg(c, j), f[j], t[j])'
    <3>1. Spans(c, Seg(c, j), from[j], to[j])
      BY <1>3 DEF StreamInv
    <3>2. Seg(c, j)' = Seg(c, j)
      BY <1>3, <1>4, <1>5 DEF Seg
    <3>3. upsets' \in Nat /\ upsets <= upsets' /\ damaged \subseteq damaged'
      BY <1>3, <1>4
    <3>4. PICK s : s = Seg(c, j)
      OBVIOUS
    <3>5. Spans(c, s, from[j], to[j])'
      BY <1>3, <3>1, <3>3, <3>4, StreamStays
    <3>. QED
      BY <1>11, <3>2, <3>4, <3>5
  <2>2. Spans(c, Seg(c, n + 1), f[n + 1], t[n + 1])'
    <3>1. Seg(c, n + 1)' = << >>
      BY <1>3, <1>5 DEF Seg
    <3>2. PICK pos : pos = [j \in 1 .. 1 |-> b]
      OBVIOUS
    <3>3. /\ pos[1] = b /\ pos[Len(<< >>) + 1] = b
          /\ \A j \in 1 .. Len(<< >>) + 1 : Position(c, pos[j])'
          /\ \A j \in 1 .. Len(<< >>) : Follows(c, pos[j], << >>[j], pos[j + 1])
      BY <1>12, <3>2
    <3>4. Spans(c, << >>, b, b)'
      BY <3>3 DEF Spans
    <3>. QED
      BY <1>11, <3>1, <3>4
  <2>3. \A j \in 0 .. n + 1 : j = n + 1 \/ j \in 0 .. n
    BY <1>3
  <2>. QED
    BY <2>1, <2>2, <2>3
<1>14. \A j \in 0 .. n : Skips(c, t[j], f[j + 1])'
  <2>1. ASSUME NEW j \in 0 .. n - 1 PROVE Skips(c, t[j], f[j + 1])'
    <3>1. Skips(c, to[j], from[j + 1])
      BY <1>3 DEF StreamInv
    <3>2. j \in 0 .. n /\ j + 1 \in 0 .. n
      BY <1>3
    <3>3. \A q, r : Skips(c, q, r) => Skips(c, q, r)'
      BY <1>3, <1>4, StreamStays
    <3>. QED
      BY <1>11, <3>1, <3>2, <3>3
  <2>2. Skips(c, t[n], f[n + 1])'
    <3>1. t[n] = w /\ f[n + 1] = b
      BY <1>3, <1>11
    <3>. QED
      BY <1>8, <3>1 DEF Skips
  <2>3. \A j \in 0 .. n : j = n \/ j \in 0 .. n - 1
    BY <1>3
  <2>. QED
    BY <2>1, <2>2, <2>3
<1>15. WriterAt(c, b)'
  <2>1. b.noisy <=> chunk'[c] # << >> /\ Last(chunk'[c]).origin = NoOrigin
    BY <1>5, <1>8
  <2>. QED
    BY <1>3, <1>4, <1>8, <2>1 DEF WriterAt
<1>16. Before(c, b, b) /\ Covered(c, b, b)'
  <2>1. b.k \in Nat
    BY <1>3, <1>8 DEF Position
  <2>. QED
    BY <1>5, <2>1 DEF Before, Covered
<1>17. Len(kiss_in') + 1 = n + 1 /\ (n + 1) - 1 = n
  BY <1>3, <1>5
<1>18. StreamInv(c, f, t)'
  BY <1>11, <1>13, <1>14, <1>15, <1>16, <1>17 DEF StreamInv
<1>19. DecoderInv(c, f[0])'
  <2>1. f[0] = from[0] /\ 0 \in 0 .. n
    BY <1>3, <1>11
  <2>2. Position(c, from[0])
    BY <1>3, <2>1, WriterFacts DEF UplinkInv
  <2>3. DecoderInv(c, from[0])'
    BY <1>3, <1>4, <2>2, DamageKeepsDecoderInv
  <2>. QED
    BY <2>1, <2>3
<1>. QED
  BY <1>6, <1>18, <1>19 DEF UplinkInv

\* The main thread takes the next chunk.
LEMMA TakeChunkStep ==
    ASSUME NEW c \in Clients, UplinkInv(c), TakeChunk
    PROVE  UplinkInv(c)'
<1>1. /\ kiss_in \in Seq(Seq(LinkBytes)) /\ data \in Seq(LinkBytes)
      /\ chunk \in [Clients -> Seq(LinkBytes)] /\ DOMAIN todo = Clients /\ DOMAIN walk = Clients
  BY DEF UplinkInv, StreamTypes
<1>2. PICK from, to, n, p, w : Placed(c, from, to, n, p, w)
  BY Places
<1>3. /\ StreamInv(c, from, to) /\ DecoderInv(c, from[0]) /\ upsets \in Nat
      /\ w = to[n] /\ n = Len(kiss_in) + 1 /\ n \in Nat \ {0}
  BY <1>2 DEF Placed
<1>4. /\ data = << >> /\ kiss_in # << >> /\ data' = Head(kiss_in) /\ kiss_in' = Tail(kiss_in)
      /\ UNCHANGED <<todo, walk, chunk, decoder, delivered, closed, damaged, upsets>>
  BY DEF TakeChunk, streamVars
<1>5. /\ Len(kiss_in) \in Nat \ {0} /\ Len(kiss_in') = n - 2
      /\ kiss_in' \in Seq(Seq(LinkBytes)) /\ data' = kiss_in[1] /\ data' \in Seq(LinkBytes)
      /\ \A j \in 1 .. n - 2 : kiss_in'[j] = kiss_in[j + 1]
  <2>1. Len(kiss_in) \in Nat \ {0}
    BY <1>1, <1>4, EmptySeq, LenProperties
  <2>2. /\ kiss_in' \in Seq(Seq(LinkBytes)) /\ Len(kiss_in') = Len(kiss_in) - 1
        /\ data' = kiss_in[1] /\ data' \in Seq(LinkBytes)
        /\ \A j \in 1 .. Len(kiss_in) - 1 : kiss_in'[j] = kiss_in[j + 1]
    BY <1>1, <1>4, HeadTailProperties
  <2>. QED
    BY <1>3, <2>1, <2>2
<1>6. StreamTypes(c)'
  BY <1>1, <1>4, <1>5 DEF StreamTypes
<1>7. n - 1 \in Nat \ {0} /\ n - 1 = Len(kiss_in') + 1
  BY <1>3, <1>5
<1>8. PICK f : f = [j \in 0 .. n - 1 |-> from[j + 1]]
  OBVIOUS
<1>9. PICK t : t = [j \in 0 .. n - 1 |-> to[j + 1]]
  OBVIOUS
<1>10. \A j \in 0 .. n - 1 : f[j] = from[j + 1] /\ t[j] = to[j + 1] /\ j + 1 \in 0 .. n
  BY <1>3, <1>8, <1>9
<1>11. \A j \in 0 .. n - 1 : Seg(c, j)' = Seg(c, j + 1)
  <2>1. ASSUME NEW j \in 0 .. n - 1, j = 0 PROVE Seg(c, j)' = Seg(c, j + 1)
    <3>1. Seg(c, 0)' = data' /\ Seg(c, 1) = kiss_in[1]
      BY <1>5 DEF Seg
    <3>. QED
      BY <1>5, <2>1, <3>1
  <2>2. ASSUME NEW j \in 1 .. n - 2 PROVE Seg(c, j)' = Seg(c, j + 1)
    <3>1. j # 0 /\ j <= Len(kiss_in') /\ j + 1 # 0 /\ j + 1 <= Len(kiss_in)
      BY <1>3, <1>5
    <3>. QED
      BY <1>5, <3>1 DEF Seg
  <2>3. Seg(c, n - 1)' = Seg(c, (n - 1) + 1)
    <3>1. n - 1 # 0 /\ ~(n - 1 <= Len(kiss_in')) /\ (n - 1) + 1 # 0
          /\ ~((n - 1) + 1 <= Len(kiss_in))
      BY <1>3, <1>5, <1>7
    <3>. QED
      BY <1>4, <3>1 DEF Seg
  <2>4. \A j \in 0 .. n - 1 : j = 0 \/ j \in 1 .. n - 2 \/ j = n - 1
    BY <1>3
  <2>. QED
    BY <2>1, <2>2, <2>3, <2>4
<1>12. \A j \in 0 .. n - 1 : Spans(c, Seg(c, j), f[j], t[j])'
  <2>1. TAKE j \in 0 .. n - 1
  <2>2. PICK s : s = Seg(c, j + 1)
    OBVIOUS
  <2>3. Spans(c, s, from[j + 1], to[j + 1])
    BY <1>3, <1>10, <2>2 DEF StreamInv
  <2>4. Spans(c, s, from[j + 1], to[j + 1])'
    BY <1>3, <1>4, <2>3, StreamStays
  <2>. QED
    BY <1>10, <1>11, <2>2, <2>4
<1>13. \A j \in 0 .. (n - 1) - 1 : Skips(c, t[j], f[j + 1])'
  <2>1. TAKE j \in 0 .. (n - 1) - 1
  <2>2. j \in 0 .. n - 1 /\ j + 1 \in 0 .. n - 1
    BY <1>3
  <2>3. Skips(c, to[j + 1], from[(j + 1) + 1])
    BY <1>3, <2>2 DEF StreamInv
  <2>4. Skips(c, to[j + 1], from[(j + 1) + 1])'
    BY <1>3, <1>4, <2>3, StreamStays
  <2>. QED
    BY <1>10, <2>2, <2>4
<1>14. WriterAt(c, to[n])' /\ Before(c, from[n], to[n]) /\ Covered(c, from[n], to[n])'
  BY <1>3, <1>4 DEF StreamInv, WriterAt, Covered
<1>15. f[n - 1] = from[n] /\ t[n - 1] = to[n] /\ f[0] = from[1]
  <2>1. (n - 1) + 1 = n /\ n - 1 \in 0 .. n - 1 /\ 0 \in 0 .. n - 1 /\ 0 + 1 = 1
    BY <1>3, <1>7
  <2>. QED
    BY <1>10, <2>1
<1>16. StreamInv(c, f, t)'
  BY <1>7, <1>12, <1>13, <1>14, <1>15 DEF StreamInv
<1>17. DecoderInv(c, from[1])
  <2>1. Position(c, from[0]) /\ Position(c, from[1]) /\ Position(c, to[0])
    <3>1. 0 \in 0 .. n /\ 1 \in 0 .. n
      BY <1>3
    <3>. QED
      BY <1>3, <3>1, WriterFacts DEF UplinkInv
  <2>2. from[0] = to[0]
    <3>1. Spans(c, Seg(c, 0), from[0], to[0])
      <4>1. 0 \in 0 .. n
        BY <1>3
      <4>. QED
        BY <1>3, <4>1 DEF StreamInv
    <3>2. Spans(c, << >>, from[0], to[0])
      BY <1>4, <3>1 DEF Seg
    <3>. QED
      BY <3>2, EmptySpan
  <2>3. Skips(c, from[0], from[1])
    <3>1. 0 \in 0 .. n - 1 /\ 0 + 1 = 1
      BY <1>3
    <3>. QED
      BY <1>3, <2>2, <3>1 DEF StreamInv
  <2>. QED
    BY <1>3, <2>1, <2>3, SkipKeepsDecoderInv
<1>18. DecoderInv(c, f[0])'
  <2>1. Position(c, from[1])
    <3>1. 1 \in 0 .. n
      BY <1>3
    <3>. QED
      BY <1>3, <3>1, WriterFacts DEF UplinkInv
  <2>2. DecoderInv(c, from[1])'
    BY <1>3, <1>4, <1>17, <2>1, DamageKeepsDecoderInv
  <2>. QED
    BY <1>15, <2>2
<1>. QED
  BY <1>6, <1>16, <1>18 DEF UplinkInv

\* A byte reaches the decoder.
LEMMA FeedByteStep ==
    ASSUME NEW c \in Clients, UplinkInv(c), FeedByte
    PROVE  UplinkInv(c)'
<1>1. /\ kiss_in \in Seq(Seq(LinkBytes)) /\ data \in Seq(LinkBytes)
      /\ chunk \in [Clients -> Seq(LinkBytes)] /\ DOMAIN todo = Clients /\ DOMAIN walk = Clients
  BY DEF UplinkInv, StreamTypes
<1>2. PICK from, to, n, p, w : Placed(c, from, to, n, p, w)
  BY Places
<1>3. /\ StreamInv(c, from, to) /\ DecoderInv(c, from[0]) /\ upsets \in Nat
      /\ n = Len(kiss_in) + 1 /\ n \in Nat \ {0}
  BY <1>2 DEF Placed
<1>4. PICK x : x = Head(data)
  OBVIOUS
<1>5. /\ data # << >> /\ data' = Tail(data) /\ Feeds(x)
      /\ UNCHANGED <<todo, walk, chunk, kiss_in, damaged, upsets>>
  BY <1>4 DEF FeedByte, Feeds, FrameOf, streamVars
<1>6. data' \in Seq(LinkBytes)
  BY <1>1, <1>5, HeadTailProperties
<1>7. StreamTypes(c)'
  BY <1>1, <1>5, <1>6 DEF StreamTypes
<1>8. 0 \in 0 .. n
  BY <1>3
<1>9. Spans(c, data, from[0], to[0])
  <2>1. Spans(c, Seg(c, 0), from[0], to[0])
    BY <1>3, <1>8 DEF StreamInv
  <2>. QED
    BY <2>1 DEF Seg
<1>10. PICK r : /\ Follows(c, from[0], x, r) /\ Position(c, from[0]) /\ Position(c, r)
                /\ Spans(c, Tail(data), r, to[0])
  BY <1>1, <1>4, <1>5, <1>9, SpanTail
<1>11. DecoderInv(c, r)'
  BY <1>3, <1>5, <1>10, ByteKeepsDecoderInv
<1>12. PICK f : f = [j \in 0 .. n |-> IF j = 0 THEN r ELSE from[j]]
  OBVIOUS
<1>13. f[0] = r /\ \A j \in 1 .. n : f[j] = from[j]
  BY <1>3, <1>12
<1>14. \A j \in 0 .. n : Spans(c, Seg(c, j), f[j], to[j])'
  <2>1. ASSUME NEW j \in 1 .. n PROVE Spans(c, Seg(c, j), f[j], to[j])'
    <3>1. PICK s : s = Seg(c, j)
      OBVIOUS
    <3>2. Spans(c, s, from[j], to[j])
      BY <1>3, <3>1 DEF StreamInv
    <3>3. Spans(c, s, from[j], to[j])'
      BY <1>3, <1>5, <3>2, StreamStays
    <3>4. Seg(c, j)' = s
      BY <1>5, <3>1 DEF Seg
    <3>. QED
      BY <1>13, <3>3, <3>4
  <2>2. Spans(c, Seg(c, 0), f[0], to[0])'
    <3>1. PICK s : s = Tail(data)
      OBVIOUS
    <3>2. Spans(c, s, r, to[0])'
      BY <1>3, <1>5, <1>10, <3>1, StreamStays
    <3>3. Seg(c, 0)' = s
      BY <1>5, <3>1 DEF Seg
    <3>. QED
      BY <1>13, <3>2, <3>3
  <2>3. \A j \in 0 .. n : j = 0 \/ j \in 1 .. n
    BY <1>3
  <2>. QED
    BY <2>1, <2>2, <2>3
<1>15. \A j \in 0 .. n - 1 : Skips(c, to[j], f[j + 1])'
  <2>1. TAKE j \in 0 .. n - 1
  <2>2. Skips(c, to[j], from[j + 1]) /\ j + 1 \in 1 .. n
    BY <1>3 DEF StreamInv
  <2>3. Skips(c, to[j], from[j + 1])'
    BY <1>3, <1>5, <2>2, StreamStays
  <2>. QED
    BY <1>13, <2>2, <2>3
<1>16. WriterAt(c, to[n])' /\ Before(c, f[n], to[n]) /\ Covered(c, f[n], to[n])'
  <2>1. f[n] = from[n]
    BY <1>3, <1>13
  <2>2. WriterAt(c, to[n])' /\ Before(c, from[n], to[n]) /\ Covered(c, from[n], to[n])'
    BY <1>3, <1>5 DEF StreamInv, WriterAt, Covered
  <2>. QED
    BY <2>1, <2>2
<1>17. StreamInv(c, f, to)'
  BY <1>3, <1>5, <1>14, <1>15, <1>16 DEF StreamInv
<1>. QED
  BY <1>7, <1>11, <1>13, <1>17 DEF UplinkInv

\* At the beginning.
LEMMA UplinkStarts ==
    ASSUME NEW c \in Clients, UplinkInit
    PROVE  UplinkInv(c)
<1>1. /\ todo = Frames /\ walk = [d \in Clients |-> Opening] /\ chunk = [d \in Clients |-> << >>]
      /\ kiss_in = << >> /\ data = << >> /\ decoder = NewDecoder
      /\ delivered = << >> /\ closed = {} /\ damaged = {} /\ upsets = 0
  BY DEF UplinkInit
<1>2. Frames[c] \in Seq({Frames[c][k] : k \in 1 .. Num(c)}) /\ Num(c) \in Nat
      /\ DOMAIN Frames = Clients /\ Len(Frames[c]) = Num(c) /\ DOMAIN Frames[c] = 1 .. Num(c)
  <2>1. Num(c) \in Nat /\ DOMAIN Frames[c] = 1 .. Num(c)
    BY FrameFacts
  <2>2. DOMAIN Frames = Clients
    BY UplinkAssumption
  <2>3. PICK S : S = {Frames[c][k] : k \in 1 .. Num(c)}
    OBVIOUS
  <2>4. Frames[c] = [k \in 1 .. Num(c) |-> Frames[c][k]]
    <3>1. Frames[c] \in Seq([id : Nat \ {0}, payload : Seq(0 .. 255)])
      BY UplinkAssumption
    <3>. QED
      BY <2>1, <3>1 DEF Num
  <2>5. Frames[c] \in Seq(S)
    BY <2>1, <2>3, <2>4, IsASeq
  <2>. QED
    BY <2>1, <2>2, <2>3, <2>5 DEF Num
<1>3. PICK b : b = At(1, Opening, 0, FALSE)
  OBVIOUS
<1>4. b.k = 1 /\ b.w = Opening /\ b.u = 0 /\ b.noisy = FALSE
  BY <1>3 DEF At
<1>5. Position(c, b)
  <2>1. b.noisy \in BOOLEAN
    BY <1>4
  <2>2. b.k \in 1 .. Num(c) + 1 /\ b.u \in Nat /\ b.u <= upsets
    BY <1>1, <1>2, <1>4
  <2>. QED
    BY <1>4, <2>1, <2>2 DEF Position, WalkIn
<1>6. PICK f : f = [j \in 0 .. 1 |-> b]
  OBVIOUS
<1>7. f[0] = b /\ f[1] = b
  BY <1>6
<1>8. ~Mid(c, b)
  BY <1>4 DEF Mid
<1>9. StreamTypes(c)
  <2>1. << >> \in Seq(Seq(LinkBytes)) /\ << >> \in Seq(LinkBytes)
    BY EmptySeq
  <2>. QED
    BY <1>1, <1>2, <2>1 DEF StreamTypes
<1>10. StreamInv(c, f, f)
  <2>1. Len(kiss_in) + 1 = 1
    BY <1>1, EmptySeq
  <2>2. Seg(c, 0) = << >> /\ Seg(c, 1) = << >>
    BY <1>1, EmptySeq DEF Seg
  <2>3. \A j \in 0 .. 1 : Spans(c, Seg(c, j), f[j], f[j])
    BY <1>5, <1>7, <2>2, EmptySpan
  <2>4. \A j \in 0 .. 1 - 1 : Skips(c, f[j], f[j + 1])
    <3>1. Skips(c, b, b)
      BY <1>4 DEF Skips
    <3>. QED
      BY <1>7, <3>1
  <2>5. WriterAt(c, f[1])
    <3>1. b.noisy <=> chunk[c] # << >> /\ Last(chunk[c]).origin = NoOrigin
      BY <1>1, <1>4
    <3>2. \A i \in 1 .. Num(c) : todo[c][i] = Frames[c][Num(c) - Num(c) + i]
      BY <1>1, <1>2
    <3>3. b.k + Num(c) = Num(c) + 1 /\ b.w = walk[c] /\ b.u = upsets
      BY <1>1, <1>2, <1>4
    <3>. QED
      BY <1>1, <1>2, <1>7, <3>1, <3>2, <3>3 DEF WriterAt
  <2>6. Before(c, f[1], f[1]) /\ Covered(c, f[1], f[1])
    BY <1>1, <1>4, <1>7 DEF Before, Covered
  <2>. QED
    BY <2>1, <2>3, <2>4, <2>5, <2>6 DEF StreamInv
<1>11. DecoderInv(c, b)
  <2>1. decoder.buf = << >> /\ decoder.in_frame = FALSE /\ decoder.escape = FALSE
        /\ decoder.overflow = FALSE
    BY <1>1 DEF NewDecoder, Decoder
  <2>2. DecoderOK(decoder)
    BY <1>1, <2>1, EmptySeq, BufSizeAssumption DEF DecoderOK, NewDecoder, Decoder
  <2>3. delivered \in Seq(Seq(LinkBytes)) /\ upsets \in Nat /\ Len(delivered) = 0
        /\ DOMAIN delivered = {}
    BY <1>1, EmptySeq
  <2>4. \A k \in 1 .. Num(c) : ~(k < b.k)
    BY <1>4
  <2>5. Lost(c, b) = {} /\ Passed(c, b.k) = {}
    BY <2>4 DEF Lost, Passed
  <2>6. Paid(c, b)
    <3>1. ~(b.noisy \/ Owes(c, b))
      BY <1>4, <1>8, <2>1 DEF Owes
    <3>. QED
      BY <1>4, <2>5, <3>1, FS_EmptySet DEF Paid
  <2>7. ExactlyPassed(c, b)
    BY <1>1, <2>3, <2>5, FS_EmptySet DEF ExactlyPassed
  <2>8. StepOrSilence(c, b) /\ HoldsDebris(c, b)
    BY <1>8, <2>1 DEF StepOrSilence, HoldsDebris
  <2>9. DeliveredOK(c, b) /\ ClosedBehind(c, b)
    BY <1>1, <2>3, <2>4 DEF DeliveredOK, ClosedBehind
  <2>. QED
    BY <2>2, <2>3, <2>6, <2>7, <2>8, <2>9 DEF DecoderInv
<1>12. DecoderInv(c, f[0])
  BY <1>7, <1>11
<1>. QED
  BY <1>9, <1>10, <1>12 DEF UplinkInv

\* Nothing happens.
LEMMA UplinkRests ==
    ASSUME NEW c \in Clients, UplinkInv(c), UNCHANGED uplinkVars
    PROVE  UplinkInv(c)'
<1>1. StreamTypes(c)
  BY DEF UplinkInv
<1>2. PICK from, to, n, p, w : Placed(c, from, to, n, p, w)
  BY Places
<1>3. /\ StreamInv(c, from, to) /\ DecoderInv(c, from[0]) /\ upsets \in Nat
      /\ n - 1 = Len(kiss_in) /\ Spans(c, chunk[c], p, w) /\ Skips(c, to[n - 1], p)
      /\ WriterAt(c, w) /\ Before(c, p, w) /\ Covered(c, p, w)
  BY <1>2 DEF Placed
<1>4. UNCHANGED <<todo, walk, chunk, kiss_in, data, decoder, delivered, closed, damaged, upsets>>
  BY DEF uplinkVars, streamVars
<1>5. StreamTypes(c)' /\ WriterAt(c, w)' /\ Covered(c, p, w)'
  BY <1>1, <1>3, <1>4 DEF StreamTypes, WriterAt, Covered
<1>6. Spans(c, chunk[c], p, w)'
  <2>1. PICK s : s = chunk[c]
    OBVIOUS
  <2>2. Spans(c, s, p, w)'
    BY <1>3, <1>4, <2>1, StreamStays
  <2>. QED
    BY <1>4, <2>1, <2>2
<1>7. Skips(c, to[Len(kiss_in)], p)'
  <2>1. Skips(c, to[n - 1], p)'
    BY <1>3, <1>4, StreamStays
  <2>. QED
    BY <1>3, <1>4, <2>1
<1>. QED
  BY <1>1, <1>3, <1>4, <1>5, <1>6, <1>7, WriterStep

\* With one client.
AloneInv == \A c \in Clients : Clients = {c} => UplinkInv(c)

LEMMA AloneInvariance == UplinkSpec => []AloneInv
<1>1. UplinkInit => AloneInv
  BY UplinkStarts DEF AloneInv
<1>2. AloneInv /\ [UplinkNext]_uplinkVars => AloneInv'
  <2>. SUFFICES ASSUME NEW c \in Clients, Clients = {c}, UplinkInv(c), [UplinkNext]_uplinkVars
                PROVE  UplinkInv(c)'
    BY DEF AloneInv
  <2>1. CASE UNCHANGED uplinkVars
    BY <2>1, UplinkRests
  <2>2. CASE ClientByte(c)
    BY <2>2, ClientByteStep
  <2>3. CASE Reconnect(c)
    BY <2>3, ReconnectStep
  <2>4. CASE Forward(c)
    BY <2>4, ForwardStep
  <2>5. CASE Drop(c)
    BY <2>5, DropStep
  <2>6. CASE \E v \in Noise : NoiseByte(c, v)
    BY <2>6, NoiseByteStep
  <2>7. CASE TakeChunk
    BY <2>7, TakeChunkStep
  <2>8. CASE FeedByte
    BY <2>8, FeedByteStep
  <2>. QED
    BY <2>1, <2>2, <2>3, <2>4, <2>5, <2>6, <2>7, <2>8 DEF UplinkNext
<1>. QED
  BY <1>1, <1>2, PTL DEF UplinkSpec

LEMMA OneClient ==
    ASSUME Cardinality(Clients) = 1, AloneInv
    PROVE  \E c \in Clients : /\ Clients = {c} /\ upsets \in Nat
                              /\ \E p : Position(c, p) /\ DecoderInv(c, p)
<1>1. PICK c : Clients = {c}
  BY UplinkAssumption, FS_Singleton
<1>2. c \in Clients /\ UplinkInv(c)
  BY <1>1 DEF AloneInv
<1>3. PICK from, to, n, p, w : Placed(c, from, to, n, p, w)
  BY <1>2, Places
<1>4. /\ StreamInv(c, from, to) /\ DecoderInv(c, from[0]) /\ upsets \in Nat
      /\ n = Len(kiss_in) + 1 /\ n \in Nat \ {0}
  BY <1>3 DEF Placed
<1>5. Position(c, from[0])
  <2>1. 0 \in 0 .. n
    BY <1>4
  <2>. QED
    BY <1>2, <1>4, <2>1, WriterFacts DEF UplinkInv
<1>. QED
  BY <1>1, <1>2, <1>4, <1>5

LEMMA ItsFrames ==
    ASSUME NEW c \in Clients, Clients = {c}, NEW f \in AllFrames
    PROVE  \E k \in 1 .. Num(c) : f = Frames[c][k]
<1>1. PICK F : F \in {{Frames[d][k] : k \in DOMAIN Frames[d]} : d \in Clients} /\ f \in F
  BY DEF AllFrames
<1>2. PICK d \in Clients : f \in {Frames[d][k] : k \in DOMAIN Frames[d]}
  BY <1>1
<1>3. d = c
  OBVIOUS
<1>4. PICK k \in DOMAIN Frames[c] : f = Frames[c][k]
  BY <1>2, <1>3
<1>. QED
  BY <1>4, FrameFacts

\* What one client sends, and nothing upsets, comes out of the decoder as it
\* went in, however the reads cut it: each frame that fits, at its place.
THEOREM LosslessExact == UplinkSpec => []LosslessIsExact
<1>1. AloneInv => LosslessIsExact
  <2>. SUFFICES ASSUME AloneInv, upsets = 0, Cardinality(Clients) = 1, NEW c \in Clients
                PROVE  LET passed == {k \in DOMAIN Frames[c] :
                                        Frames[c][k].id \in closed /\ Fits(Frames[c][k])}
                           place(k) == Cardinality({l \in passed : l <= k})
                       IN /\ Len(delivered) = Cardinality(passed)
                          /\ \A k \in passed : Values(delivered[place(k)]) = Frames[c][k].payload
    BY DEF LosslessIsExact
  <2>1. PICK p : Position(c, p) /\ DecoderInv(c, p)
    BY OneClient
  <2>2. ClosedBehind(c, p) /\ damaged = {} /\ Len(delivered) = Cardinality(Passed(c, p.k))
        /\ \A j \in Passed(c, p.k) :
             Values(delivered[Place(Passed(c, p.k), j)]) = Frames[c][j].payload
    BY <2>1 DEF DecoderInv, ExactlyPassed
  <2>3. DOMAIN Frames[c] = 1 .. Num(c)
        /\ \A k, l \in 1 .. Num(c) : Frames[c][k].id = Frames[c][l].id => k = l
    BY FrameFacts
  <2>4. \A k \in 1 .. Num(c) : k < p.k <=> Frames[c][k].id \in closed
    BY <2>2, <2>3 DEF ClosedBehind
  <2>5. Passed(c, p.k) = {k \in DOMAIN Frames[c] :
                            Frames[c][k].id \in closed /\ Fits(Frames[c][k])}
    BY <2>3, <2>4 DEF Passed
  <2>. QED
    BY <2>2, <2>5 DEF Place
<1>. QED
  BY <1>1, AloneInvariance, PTL

\* A lost chunk, noise or a broken connection costs a client that is alone at
\* most one frame besides those it damages.
THEOREM UpsetCostsOne == UplinkSpec => []OneFramePerUpset
<1>1. AloneInv => OneFramePerUpset
  <2>. DEFINE missed == {f \in Intact : Fits(f) /\ ~DeliveredWhole(f)}
  <2>. SUFFICES ASSUME AloneInv, Cardinality(Clients) = 1
                PROVE  Cardinality(missed) <= upsets
    BY DEF OneFramePerUpset
  <2>1. PICK c \in Clients : /\ Clients = {c} /\ upsets \in Nat
                             /\ \E p : Position(c, p) /\ DecoderInv(c, p)
    BY OneClient
  <2>2. PICK p : Position(c, p) /\ DecoderInv(c, p)
    BY <2>1
  <2>3. ClosedBehind(c, p) /\ Paid(c, p) /\ p.u \in Nat /\ p.u <= upsets
    BY <2>2 DEF DecoderInv, Position
  <2>4. DOMAIN Frames[c] = 1 .. Num(c)
        /\ \A k, l \in 1 .. Num(c) : Frames[c][k].id = Frames[c][l].id => k = l
    BY FrameFacts
  <2>5. PICK L : L = Lost(c, p)
    OBVIOUS
  <2>6. IsFiniteSet(L) /\ Cardinality(L) \in Nat /\ Cardinality(L) <= p.u
    BY <2>3, <2>5, LostFinite DEF Paid
  <2>7. PICK T : T = {Frames[c][k] : k \in L}
    OBVIOUS
  <2>8. missed \subseteq T
    <3>1. ASSUME NEW f \in missed PROVE f \in T
      <4>1. f \in AllFrames /\ f.id \in closed /\ f.id \notin damaged /\ Fits(f) /\ ~DeliveredWhole(f)
        BY <3>1 DEF Intact
      <4>2. PICK k \in 1 .. Num(c) : f = Frames[c][k]
        BY <2>1, <4>1, ItsFrames
      <4>3. k < p.k
        BY <2>3, <2>4, <4>1, <4>2 DEF ClosedBehind
      <4>4. k \in L
        BY <2>5, <4>1, <4>2, <4>3 DEF Lost
      <4>. QED
        BY <2>7, <4>2, <4>4
    <3>. QED
      BY <3>1
  <2>9. IsFiniteSet(T) /\ Cardinality(T) <= Cardinality(L)
    <3>1. [k \in L |-> Frames[c][k]] \in Surjection(L, T)
      BY <2>7 DEF Surjection
    <3>. QED
      BY <2>6, <3>1, FS_Surjection
  <2>10. Cardinality(missed) <= Cardinality(T)
    BY <2>8, <2>9, FS_Subset
  <2>11. IsFiniteSet(missed) /\ Cardinality(missed) \in Nat /\ Cardinality(T) \in Nat
    BY <2>8, <2>9, FS_Subset, FS_CardinalityType
  <2>. HIDE DEF missed
  <2>. QED
    BY <2>1, <2>3, <2>6, <2>9, <2>10, <2>11
<1>. QED
  BY <1>1, AloneInvariance, PTL

\* Of a client that is alone, no part of a frame longer than the decoder's
\* buffer is handed on, unless the frame was damaged.
THEOREM TooLongNeverSeen == UplinkSpec => []TooLongVanishes
<1>1. AloneInv => TooLongVanishes
  <2>. SUFFICES ASSUME AloneInv, Cardinality(Clients) = 1, NEW f \in Intact, ~Fits(f),
                       NEW i \in DOMAIN delivered
                PROVE  f.id \notin Sources(delivered[i])
    BY DEF TooLongVanishes
  <2>1. PICK c \in Clients : /\ Clients = {c} /\ upsets \in Nat
                             /\ \E p : Position(c, p) /\ DecoderInv(c, p)
    BY OneClient
  <2>2. PICK p : DeliveredOK(c, p)
    BY <2>1 DEF DecoderInv
  <2>3. /\ DOMAIN Frames[c] = 1 .. Num(c) /\ \A k \in 1 .. Num(c) : Frames[c][k].id # 0
        /\ \A k, l \in 1 .. Num(c) : Frames[c][k].id = Frames[c][l].id => k = l
    BY FrameFacts
  <2>4. PICK k \in 1 .. Num(c) : f = Frames[c][k]
    BY <2>1, ItsFrames DEF Intact
  <2>5. f.id \notin Debris
    BY <2>3, <2>4 DEF Intact, Debris
  <2>6. CASE \A m \in DOMAIN delivered[i] : delivered[i][m].origin.id \in Debris
    BY <2>5, <2>6 DEF Sources
  <2>7. ASSUME NEW l \in 1 .. Num(c), Fits(Frames[c][l]),
               Sources(delivered[i]) = {Frames[c][l].id}
        PROVE  f.id \notin Sources(delivered[i])
    BY <2>3, <2>4, <2>7
  <2>. QED
    BY <2>2, <2>6, <2>7 DEF DeliveredOK
<1>. QED
  BY <1>1, AloneInvariance, PTL

-----------------------------------------------------------------------------
(* The audio threads of the terminal UI. *)

TuiTypeOK ==
    /\ ui \in {"top", "check", "wait", "join", "lastjoin", "cleanup", "exited", "failed"}
    /\ processing \in Threads \cup {None} /\ joining \in Threads \cup {None}
    /\ start_requested \in BOOLEAN
    /\ dialog \in {"none", "quit", "notice", "picker"}
    /\ thread \in [Threads -> {"unborn", "running", "reporting", "ending", "finished"}]

\* A thread is waited for in the two joins only, and then none is shown as
\* running.
JoinsOne ==
    /\ joining # None <=> ui \in {"join", "lastjoin"}
    /\ joining # None => processing = None
    /\ ui = "exited" => processing = None

\* A request to start is answered in the next round of the loop, before
\* anything else: no thread runs then.  The file picker, which makes such a
\* request, is not open while one runs.
StartsAlone ==
    /\ start_requested => ui = "top" /\ processing = None /\ dialog # "picker"
    /\ dialog = "picker" => processing = None

\* Two threads never use the sound card, nor report into the channel, at once.
\* While the UI runs this follows from the rest; it still holds of a thread that
\* a failed terminal has left behind.
OneAlive == \A t, u \in Threads : Alive(t) /\ Alive(u) => t = u

TuiInv == TuiTypeOK /\ JoinsOne /\ StartsAlone /\ NoOrphan /\ OneAlive

\* None is not the number of a thread.
LEMMA NoneIsNone == None \notin Threads
  BY DEF None, Threads

LEMMA InitTuiInv == TuiInit => TuiInv
  BY NoneIsNone DEF TuiInit, TuiInv, TuiTypeOK, JoinsOne, StartsAlone, NoOrphan, OneAlive, Alive

-----------------------------------------------------------------------------
(* The audio threads. *)

\* A step of a thread that was started leaves it alive or finishes it.
LEMMA ThreadKeepsTuiInv ==
    ASSUME TuiInv, NEW t \in Threads, DecodeFrame(t) \/ Thread(t)
    PROVE  TuiInv'
<1>. USE NoneIsNone DEF TuiInv, TuiTypeOK, JoinsOne, StartsAlone, NoOrphan, OneAlive, Alive, uiVars
<1>1. CASE DecodeFrame(t)
  BY <1>1 DEF DecodeFrame
<1>2. CASE LeaveLoop(t)
  BY <1>2 DEF LeaveLoop
<1>3. CASE SendDone(t)
  BY <1>3 DEF SendDone
<1>4. CASE Finish(t)
  BY <1>4 DEF Finish
<1>. QED
  BY <1>1, <1>2, <1>3, <1>4 DEF Thread

\* The event handler task changes nothing of what TuiInv is about.
LEMMA HandlerKeepsTuiInv ==
    ASSUME TuiInv, Drain \/ PollTimeout \/ \E k \in Keys : PollKey(k)
    PROVE  TuiInv'
<1>1. UNCHANGED <<uiVars, threadVars>>
  BY DEF Drain, PollTimeout, PollKey
<1>. QED
  BY <1>1 DEF TuiInv, TuiTypeOK, JoinsOne, StartsAlone, NoOrphan, OneAlive, Alive, uiVars, threadVars

-----------------------------------------------------------------------------
(* The loop of the UI. *)

\* A new thread is started only while no thread is alive.
LEMMA TopKeepsTuiInv ==
    ASSUME TuiInv, Top
    PROVE  TuiInv'
<1>. USE NoneIsNone DEF TuiInv, TuiTypeOK, JoinsOne, StartsAlone, NoOrphan, OneAlive, Alive
<1>1. CASE start_requested /\ \E t \in Threads : StartAudio(t)
  BY <1>1 DEF Top, StartAudio, Unborn
<1>2. CASE start_requested /\ StartFails
  BY <1>2 DEF Top, StartFails
<1>3. CASE ~start_requested
  BY <1>3 DEF Top
<1>. QED
  BY <1>1, <1>2, <1>3 DEF Top

\* A thread that is forgotten here has finished, or the UI has failed.
LEMMA CheckKeepsTuiInv ==
    ASSUME TuiInv, Check
    PROVE  TuiInv'
<1>. USE NoneIsNone DEF TuiInv, TuiTypeOK, JoinsOne, StartsAlone, NoOrphan, OneAlive, Alive
<1>1. UNCHANGED <<thread, joining, start_requested, dialog>> /\ ui = "check" /\ joining = None
  BY DEF Check, threadVars
<1>2. CASE processing' = Reaped /\ ui' \in {"cleanup", "wait"}
  BY <1>1, <1>2 DEF Reaped
<1>3. CASE processing' = None /\ ui' = "failed"
  BY <1>1, <1>3
<1>. QED
  BY <1>2, <1>3 DEF Check

LEMMA WakeKeepsTuiInv ==
    ASSUME TuiInv, Wake
    PROVE  TuiInv'
  BY DEF Wake, threadVars, TuiInv, TuiTypeOK, JoinsOne, StartsAlone, NoOrphan, OneAlive, Alive

\* The thread that was shown as running is the one that is waited for.
LEMMA CleanupKeepsTuiInv ==
    ASSUME TuiInv, Cleanup
    PROVE  TuiInv'
  BY NoneIsNone DEF Cleanup, TuiInv, TuiTypeOK, JoinsOne, StartsAlone, NoOrphan, OneAlive, Alive

LEMMA JoinedKeepsTuiInv ==
    ASSUME TuiInv, NEW from, NEW to, Joined(from, to),
           <<from, to>> \in {<<"join", "top">>, <<"lastjoin", "exited">>}
    PROVE  TuiInv'
  BY NoneIsNone
  DEF Joined, threadVars, TuiInv, TuiTypeOK, JoinsOne, StartsAlone, NoOrphan, OneAlive, Alive

-----------------------------------------------------------------------------
(* The events. *)

LEMMA AudioDoneKeepsTuiInv ==
    ASSUME TuiInv, ui = "wait", AudioDone, UNCHANGED thread
    PROVE  TuiInv'
  BY NoneIsNone DEF AudioDone, TuiInv, TuiTypeOK, JoinsOne, StartsAlone, NoOrphan, OneAlive, Alive

\* Whatever the dialog, a key that asks for a start does so while no thread
\* runs, and leaves no picker open.
LEMMA KeyStartsAlone ==
    ASSUME TuiInv, ui = "wait", NEW k, HandleKey(k)
    PROVE  /\ dialog' \in {"none", "quit", "notice", "picker"}
           /\ start_requested' \in BOOLEAN
           /\ start_requested' => processing = None /\ dialog' # "picker"
           /\ dialog' = "picker" => processing = None
<1>. USE DEF TuiInv, TuiTypeOK, StartsAlone
<1>1. ~start_requested /\ dialog \in {"none", "quit", "notice", "picker"}
  OBVIOUS
<1>2. CASE dialog = "none"
  <2>1. MainKey(k)
    BY <1>2 DEF HandleKey
  <2>2. CASE ToggleProcessing
    <3>1. CASE processing = None /\ start_requested' = TRUE /\ UNCHANGED dialog
      BY <1>2, <3>1
    <3>2. CASE UNCHANGED start_requested /\ (dialog' = "notice" \/ UNCHANGED dialog)
      BY <1>1, <1>2, <3>2
    <3>. QED
      BY <2>2, <3>1, <3>2 DEF ToggleProcessing
  <2>3. CASE UNCHANGED start_requested
             /\ \/ dialog' = "quit"
                \/ processing = None /\ dialog' = "picker"
                \/ dialog' = "notice"
                \/ UNCHANGED dialog
    BY <1>1, <1>2, <2>3
  <2>. QED
    BY <2>1, <2>2, <2>3 DEF MainKey
<1>3. CASE dialog = "quit"
  <2>1. QuitDialogKey(k)
    BY <1>3 DEF HandleKey
  <2>. QED
    BY <1>1, <1>3, <2>1 DEF QuitDialogKey, Closes
<1>4. CASE dialog = "notice"
  <2>1. NoticeKey(k)
    BY <1>4 DEF HandleKey
  <2>. QED
    BY <1>1, <1>4, <2>1 DEF NoticeKey, Closes
<1>5. CASE dialog = "picker"
  <2>1. PickerKey(k)
    BY <1>5 DEF HandleKey
  <2>2. CASE Closes(k) /\ start_requested' = (start_requested \/ k = "enter")
    <3>1. start_requested' <=> k = "enter"
      BY <1>1, <2>2
    <3>. QED
      BY <1>1, <1>5, <2>2, <3>1 DEF Closes
  <2>3. CASE UNCHANGED <<dialog, start_requested>>
    BY <1>1, <1>5, <2>3
  <2>. QED
    BY <2>1, <2>2, <2>3 DEF PickerKey
<1>. QED
  BY <1>1, <1>2, <1>3, <1>4, <1>5

LEMMA HandleKeyKeepsTuiInv ==
    ASSUME TuiInv, ui = "wait", NEW k, HandleKey(k), UNCHANGED thread
    PROVE  TuiInv'
<1>1. ui' = "top" /\ UNCHANGED <<processing, joining, thread>>
  BY DEF HandleKey
<1>. QED
  BY <1>1, KeyStartsAlone DEF TuiInv, TuiTypeOK, JoinsOne, StartsAlone, NoOrphan, OneAlive, Alive

LEMMA HandleEventKeepsTuiInv ==
    ASSUME TuiInv, HandleEvent
    PROVE  TuiInv'
<1>1. ui = "wait" /\ UNCHANGED thread
  BY DEF HandleEvent
<1>2. CASE HandleKey(Head(events))
  BY <1>1, <1>2, HandleKeyKeepsTuiInv
<1>3. CASE AudioDone
  BY <1>1, <1>3, AudioDoneKeepsTuiInv
<1>4. CASE ui' = "top" /\ UNCHANGED <<processing, start_requested, dialog, joining>>
  BY <1>1, <1>4 DEF TuiInv, TuiTypeOK, JoinsOne, StartsAlone, NoOrphan, OneAlive, Alive
<1>. QED
  BY <1>2, <1>3, <1>4 DEF HandleEvent

-----------------------------------------------------------------------------
LEMMA NextTuiInv == TuiInv /\ [TuiNext]_tuiVars => TuiInv'
<1>. SUFFICES ASSUME TuiInv, [TuiNext]_tuiVars PROVE TuiInv'
  OBVIOUS
<1>1. CASE UNCHANGED tuiVars
  BY <1>1 DEF tuiVars, uiVars, threadVars, TuiInv, TuiTypeOK, JoinsOne, StartsAlone, NoOrphan, OneAlive, Alive
<1>2. CASE UiStep
  BY <1>2, TopKeepsTuiInv, CheckKeepsTuiInv, CleanupKeepsTuiInv, JoinedKeepsTuiInv DEF UiStep
<1>3. CASE Wake \/ HandleEvent
  BY <1>3, WakeKeepsTuiInv, HandleEventKeepsTuiInv
<1>4. CASE Drain \/ PollTimeout \/ \E k \in Keys : PollKey(k)
  BY <1>4, HandlerKeepsTuiInv
<1>5. CASE \E t \in Threads : DecodeFrame(t) \/ Thread(t)
  BY <1>5, ThreadKeepsTuiInv
<1>. QED
  BY <1>1, <1>2, <1>3, <1>4, <1>5 DEF TuiNext

LEMMA TuiInvariance == TuiSpec => []TuiInv
  BY InitTuiInv, NextTuiInv, PTL DEF TuiSpec

\* Unless the terminal has failed, a thread that runs is the one the UI shows as
\* running or the one it waits for, for any number of threads and any order of keys, ends of files and
\* reports.
THEOREM NoThreadLost == TuiSpec => []NoOrphan
<1>1. TuiInv => NoOrphan
  BY DEF TuiInv
<1>. QED
  BY <1>1, TuiInvariance, PTL

\* Two threads never use the sound card, nor report into the channel, at once,
\* also after the terminal has failed.
THEOREM OneThreadAtATime == TuiSpec => []OneAlive
<1>1. TuiInv => OneAlive
  BY DEF TuiInv
<1>. QED
  BY <1>1, TuiInvariance, PTL

\* When the user has quit and the UI has cleaned up, no audio thread is left.
\* A failed terminal may leave one, which dies with the process.
NoneLeftBehind == ui = "exited" => \A t \in Threads : ~Alive(t)

THEOREM ExitLeavesNone == TuiSpec => []NoneLeftBehind
<1>1. TuiInv => NoneLeftBehind
  BY NoneIsNone DEF TuiInv, JoinsOne, NoOrphan, NoneLeftBehind
<1>. QED
  BY <1>1, TuiInvariance, PTL
-----------------------------------------------------------------------------
(* What the UI waits for in its two joins. *)

\* The joins are answered: the thread that is waited for at the end of the
\* program has been told to stop, and so has the one that is waited for when an
\* AudioDone comes in, unless it has left its loop already, or unless another
\* had run and finished before it.  So a UI that starts its thread once never
\* hangs; the one way into a hang is a report that is read after the restart.
WaitsAreAnswered ==
    /\ ui = "lastjoin" => stop[joining]
    /\ ui = "join" /\ thread[joining] = "running" /\ ~stop[joining] =>
         \E t \in Threads : t < joining /\ thread[t] = "finished"

\* The threads run one after another.
OneByOne ==
    \A t, u \in Threads : t < u /\ thread[u] # "unborn" => thread[t] = "finished"

\* A report of an end comes from a thread that has left its loop.
Reports(q) == \E i \in DOMAIN q : q[i] = "done"
ReportsAreTrue ==
    Reports(async) \/ Reports(events) =>
        \E t \in Threads : thread[t] \in {"ending", "finished"}

WaitTypeOK ==
    /\ stop \in [Threads -> BOOLEAN]
    /\ async \in Seq({"frame", "done"}) /\ events \in Seq(Keys \cup {"frame", "done"})

WaitInv == WaitTypeOK /\ OneByOne /\ ReportsAreTrue /\ WaitsAreAnswered

LEMMA InitWaitInv == TuiInit => WaitInv
  BY DEF TuiInit, WaitInv, WaitTypeOK, OneByOne, ReportsAreTrue, Reports, WaitsAreAnswered

\* A thread that goes on only moves forward.
LEMMA ThreadKeepsWaitInv ==
    ASSUME TuiInv, WaitInv, NEW t \in Threads, DecodeFrame(t) \/ Thread(t)
    PROVE  WaitInv'
<1>1. thread \in [Threads -> {"unborn", "running", "reporting", "ending", "finished"}]
  BY DEF TuiInv, TuiTypeOK
<1>2. UNCHANGED <<ui, joining, stop, events>>
  BY DEF DecodeFrame, Thread, LeaveLoop, SendDone, Finish, uiVars
<1>3. /\ \A u \in Threads \ {t} : thread'[u] = thread[u]
      /\ thread[t] \notin {"unborn", "finished"} /\ thread'[t] # "unborn"
      /\ thread'[t] = "running" => thread[t] = "running"
      /\ thread[t] = "ending" => thread'[t] \in {"ending", "finished"}
  BY <1>1 DEF DecodeFrame, Thread, LeaveLoop, SendDone, Finish
<1>4. \/ UNCHANGED async
      \/ async' = Append(async, "frame")
      \/ async' = Append(async, "done") /\ thread'[t] = "ending"
  BY <1>1 DEF DecodeFrame, Thread, LeaveLoop, SendDone, Finish
<1>5. WaitTypeOK'
  <2>1. async' \in Seq({"frame", "done"})
    BY <1>4 DEF WaitInv, WaitTypeOK
  <2>. QED
    BY <1>2, <2>1 DEF WaitInv, WaitTypeOK
<1>6. OneByOne'
  BY <1>3 DEF WaitInv, OneByOne
<1>7. ReportsAreTrue'
  <2>1. ASSUME NEW u \in Threads, thread[u] \in {"ending", "finished"}
        PROVE  ReportsAreTrue'
    <3>1. thread'[u] \in {"ending", "finished"}
      BY <1>3, <2>1
    <3>. QED
      BY <3>1 DEF ReportsAreTrue
  <2>2. CASE async' = Append(async, "done") /\ thread'[t] = "ending"
    BY <2>2 DEF ReportsAreTrue
  <2>3. CASE async' = Append(async, "frame") \/ UNCHANGED async
    <3>1. Reports(async') => Reports(async)
      BY <2>3 DEF WaitInv, WaitTypeOK, Reports
    <3>. QED
      BY <1>2, <2>1, <3>1 DEF WaitInv, ReportsAreTrue, Reports
  <2>. QED
    BY <1>4, <2>2, <2>3
<1>8. WaitsAreAnswered'
  BY <1>2, <1>3 DEF WaitInv, WaitsAreAnswered, TuiInv, JoinsOne, TuiTypeOK
<1>. QED
  BY <1>5, <1>6, <1>7, <1>8 DEF WaitInv

\* The handler moves reports and adds keys, which report nothing.
LEMMA HandlerKeepsWaitInv ==
    ASSUME WaitInv, Drain \/ PollTimeout \/ \E k \in Keys : PollKey(k)
    PROVE  WaitInv'
<1>1. UNCHANGED <<ui, joining, thread, stop>>
  BY DEF Drain, PollTimeout, PollKey, uiVars, threadVars
<1>2. /\ async' \in Seq({"frame", "done"}) /\ events' \in Seq(Keys \cup {"frame", "done"})
      /\ Reports(async') \/ Reports(events') => Reports(async) \/ Reports(events)
  <2>1. CASE UNCHANGED <<async, events>>
    BY <2>1 DEF WaitInv, WaitTypeOK, Reports
  <2>2. CASE async # << >> /\ events' = Append(events, Head(async)) /\ async' = Tail(async)
    BY <2>2 DEF WaitInv, WaitTypeOK, Reports
  <2>3. ASSUME NEW k \in Keys, events' = Append(events, k), UNCHANGED async
        PROVE  /\ async' \in Seq({"frame", "done"})
               /\ events' \in Seq(Keys \cup {"frame", "done"})
               /\ Reports(async') \/ Reports(events') => Reports(async) \/ Reports(events)
    BY <2>3 DEF WaitInv, WaitTypeOK, Reports, Keys
  <2>. QED
    BY <2>1, <2>2, <2>3 DEF Drain, PollTimeout, PollKey
<1>3. WaitTypeOK' /\ ReportsAreTrue'
  BY <1>1, <1>2 DEF WaitInv, WaitTypeOK, ReportsAreTrue, Reports
<1>. QED
  BY <1>1, <1>3 DEF WaitInv, OneByOne, WaitsAreAnswered

\* The UI starts the next thread only when the one before it has finished.
LEMMA TopKeepsWaitInv ==
    ASSUME TuiInv, WaitInv, Top
    PROVE  WaitInv'
<1>1. UNCHANGED <<events, async, stop>> /\ ui' = "check"
  BY DEF Top
<1>2. WaitTypeOK' /\ WaitsAreAnswered'
  BY <1>1 DEF WaitInv, WaitTypeOK, WaitsAreAnswered
<1>3. CASE UNCHANGED thread
  BY <1>1, <1>2, <1>3 DEF WaitInv, OneByOne, ReportsAreTrue, Reports
<1>4. ASSUME start_requested, NEW t \in Threads, StartAudio(t)
      PROVE  WaitInv'
  <2>1. /\ thread \in [Threads -> {"unborn", "running", "reporting", "ending", "finished"}]
        /\ thread' = [thread EXCEPT ![t] = "running"] /\ thread[t] = "unborn"
        /\ \A u \in Threads : thread[u] = "unborn" => t <= u
    BY <1>4 DEF TuiInv, TuiTypeOK, StartAudio, Unborn
  <2>2. \A u \in Threads : thread[u] \in {"unborn", "finished"}
    <3>1. processing = None /\ joining = None /\ ui # "failed"
      BY <1>4 DEF TuiInv, StartsAlone, JoinsOne
    <3>. QED
      BY <2>1, <3>1, NoneIsNone DEF TuiInv, NoOrphan, OneAlive, Alive
  <2>3. OneByOne'
    <3>. SUFFICES ASSUME NEW u \in Threads, NEW v \in Threads, u < v,
                         thread'[v] # "unborn"
                  PROVE  thread'[u] = "finished"
      BY DEF OneByOne
    <3>0. t \in Int /\ u \in Int /\ v \in Int
      BY TuiAssumption DEF Threads
    <3>1. CASE v = t
      <4>1. thread[u] # "unborn" /\ u # t
        BY <2>1, <3>0, <3>1
      <4>. QED
        BY <2>1, <2>2, <4>1
    <3>2. CASE v # t
      <4>1. thread[u] = "finished"
        BY <2>1, <3>2 DEF WaitInv, OneByOne
      <4>. QED
        BY <2>1, <4>1
    <3>. QED
      BY <3>1, <3>2
  <2>4. ReportsAreTrue'
    BY <1>1, <2>1 DEF WaitInv, ReportsAreTrue, Reports
  <2>. QED
    BY <1>2, <2>3, <2>4 DEF WaitInv
<1>. QED
  BY <1>3, <1>4 DEF Top, StartFails

\* Check, Wake and the two joins change neither a thread nor a queue.
LEMMA RoundKeepsWaitInv ==
    ASSUME WaitInv,
           Check \/ Wake \/ Joined("join", "top") \/ Joined("lastjoin", "exited")
    PROVE  WaitInv'
<1>1. UNCHANGED <<events, async, stop, thread>> /\ ui' \notin {"join", "lastjoin"}
  BY DEF Check, Wake, Joined, threadVars
<1>. QED
  BY <1>1 DEF WaitInv, WaitTypeOK, OneByOne, ReportsAreTrue, Reports, WaitsAreAnswered

\* At the end the thread is told to stop before it is waited for.
LEMMA CleanupKeepsWaitInv ==
    ASSUME TuiInv, WaitInv, Cleanup
    PROVE  WaitInv'
<1>1. UNCHANGED <<events, async, thread>> /\ ui' # "join"
  BY DEF Cleanup
<1>2. stop' \in [Threads -> BOOLEAN] /\ (ui' = "lastjoin" => stop'[joining'])
  BY DEF Cleanup, WaitInv, WaitTypeOK, TuiInv, TuiTypeOK
<1>. QED
  BY <1>1, <1>2 DEF WaitInv, WaitTypeOK, OneByOne, ReportsAreTrue, Reports, WaitsAreAnswered

\* A report met while a thread runs came from one before it.
LEMMA ReportFromBefore ==
    ASSUME TuiInv, WaitInv, ui = "wait", Reports(events),
           NEW p \in Threads, processing = p, thread[p] = "running"
    PROVE  \E t \in Threads : t < p /\ thread[t] = "finished"
<1>1. PICK t \in Threads : thread[t] \in {"ending", "finished"}
  BY DEF WaitInv, ReportsAreTrue
<1>2. thread[t] = "finished" /\ t # p
  <2>1. joining = None
    BY DEF TuiInv, JoinsOne
  <2>. QED
    BY <1>1, <2>1, NoneIsNone DEF TuiInv, NoOrphan, OneAlive, Alive
<1>3. ~(p < t)
  BY <1>2 DEF WaitInv, OneByOne
<1>4. t \in Int /\ p \in Int
  BY TuiAssumption DEF Threads
<1>. QED
  BY <1>2, <1>3, <1>4

LEMMA StopKeepsType ==
    ASSUME TuiInv, WaitInv, NEW k, HandleKey(k)
    PROVE  stop' \in [Threads -> BOOLEAN]
<1>1. CASE UNCHANGED stop
  BY <1>1 DEF WaitInv, WaitTypeOK
<1>2. CASE ToggleProcessing
  BY <1>1, <1>2 DEF ToggleProcessing, WaitInv, WaitTypeOK, TuiInv, TuiTypeOK
<1>3. dialog \in {"none", "quit", "notice", "picker"}
  BY DEF TuiInv, TuiTypeOK
<1>. QED
  BY <1>1, <1>2, <1>3 DEF HandleKey, MainKey, QuitDialogKey, NoticeKey, PickerKey

LEMMA HandleEventKeepsWaitInv ==
    ASSUME TuiInv, WaitInv, HandleEvent
    PROVE  WaitInv'
<1>1. /\ ui = "wait" /\ events # << >> /\ events' = Tail(events)
      /\ UNCHANGED <<async, thread>>
  BY DEF HandleEvent
<1>2. events' \in Seq(Keys \cup {"frame", "done"}) /\ (Reports(events') => Reports(events))
  BY <1>1 DEF WaitInv, WaitTypeOK, Reports
<1>3. OneByOne' /\ ReportsAreTrue'
  BY <1>1, <1>2 DEF WaitInv, OneByOne, ReportsAreTrue, Reports
<1>4. CASE ui' = "top" /\ stop' \in [Threads -> BOOLEAN]
  BY <1>1, <1>2, <1>3, <1>4 DEF WaitInv, WaitTypeOK, WaitsAreAnswered
<1>5. ASSUME NEW k, HandleKey(k) PROVE WaitInv'
  BY <1>4, <1>5, StopKeepsType DEF HandleKey
<1>6. CASE Head(events) = "done" /\ AudioDone
  <2>1. UNCHANGED stop /\ joining' = processing
    BY <1>6 DEF AudioDone
  <2>2. Reports(events)
    BY <1>1, <1>6 DEF Reports, WaitInv, WaitTypeOK
  <2>3. CASE processing = None
    BY <1>4, <1>6, <2>1, <2>3 DEF AudioDone, WaitInv, WaitTypeOK
  <2>4. CASE processing # None
    <3>1. processing \in Threads /\ ui' = "join"
      BY <1>6, <2>4 DEF AudioDone, TuiInv, TuiTypeOK
    <3>2. thread[processing] = "running" =>
            \E t \in Threads : t < processing /\ thread[t] = "finished"
      BY <1>1, <2>2, <3>1, ReportFromBefore
    <3>3. WaitsAreAnswered'
      BY <1>1, <2>1, <3>1, <3>2 DEF WaitsAreAnswered
    <3>. QED
      BY <1>1, <1>2, <1>3, <2>1, <3>3 DEF WaitInv, WaitTypeOK
  <2>. QED
    BY <2>3, <2>4
<1>7. CASE ui' = "top" /\ UNCHANGED stop
  BY <1>4, <1>7 DEF WaitInv, WaitTypeOK
<1>. QED
  BY <1>5, <1>6, <1>7 DEF HandleEvent

LEMMA NextWaitInv == TuiInv /\ WaitInv /\ [TuiNext]_tuiVars => WaitInv'
<1>. SUFFICES ASSUME TuiInv, WaitInv, [TuiNext]_tuiVars PROVE WaitInv'
  OBVIOUS
<1>1. CASE UNCHANGED tuiVars
  BY <1>1 DEF tuiVars, uiVars, threadVars, WaitInv, WaitTypeOK, OneByOne,
              ReportsAreTrue, Reports, WaitsAreAnswered
<1>2. CASE UiStep
  BY <1>2, TopKeepsWaitInv, RoundKeepsWaitInv, CleanupKeepsWaitInv DEF UiStep
<1>3. CASE Wake \/ HandleEvent
  BY <1>3, RoundKeepsWaitInv, HandleEventKeepsWaitInv
<1>4. CASE Drain \/ PollTimeout \/ \E k \in Keys : PollKey(k)
  BY <1>4, HandlerKeepsWaitInv
<1>5. CASE \E t \in Threads : DecodeFrame(t) \/ Thread(t)
  BY <1>5, ThreadKeepsWaitInv
<1>. QED
  BY <1>1, <1>2, <1>3, <1>4, <1>5 DEF TuiNext

\* For any number of threads, keys and frames: the UI waits for a thread that
\* was told to stop or is leaving by itself, or else it has been restarted.
\* QuitIsHeeded and StopIsHeeded, the liveness properties, rest on it, as does
\* the hang that UiKeepsRunning shows.
THEOREM HangNeedsRestart == TuiSpec => []WaitsAreAnswered /\ []OneByOne
<1>1. WaitInv => WaitsAreAnswered /\ OneByOne
  BY DEF WaitInv
<1>. QED
  BY <1>1, InitWaitInv, NextWaitInv, TuiInvariance, PTL DEF TuiSpec
=============================================================================
