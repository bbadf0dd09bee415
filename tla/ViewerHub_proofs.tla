---------------------------- MODULE ViewerHub_proofs ----------------------------
(***************************************************************************)
(* The places of the WebSocket hub are counted right, what a page shows is *)
(* the list its socket began with and the feed since then, and a socket    *)
(* that is open falls silent only when it lagged: for any number of pages, *)
(* sockets and packets and any sizes of the lists and of the channel.      *)
(***************************************************************************)
EXTENDS ViewerHub, FiniteSetTheorems, SequenceTheorems, WellFoundedInduction, TLAPS

HandlerState ==
    {"none", "upgraded", "refused", "counted", "greeting", "dropped", "serving", "returned"}
Message == Event \cup [type : {"Init"}, id : Seq(Nat)]

TypeOK ==
    /\ stored \in Nat /\ sent \in Seq(Event)
    /\ connections \in Int
    /\ handler \in [Sockets -> HandlerState]
    /\ forwarder \in [Sockets -> {"none", "running", "ended"}]
    /\ listener \in [Sockets -> {"none", "running", "ended"}]
    /\ snapshot \in [Sockets -> Seq(Nat)]
    /\ next \in [Sockets -> Nat \ {0}] /\ joined \in [Sockets -> Nat]
    /\ wire \in [Sockets -> Seq(Message)]
    /\ link \in [Sockets -> {"none", "open", "closed"}]
    /\ socket \in [Pages -> Sockets \cup {None}]
    /\ shown \in [Pages -> Seq(Nat)]
    /\ greeted \in SUBSET Sockets

\* How far a socket's tasks are, its link and its messages go together.
Greeting == {"none", "upgraded", "counted", "greeting"}
Life(s) ==
    /\ link[s] = "none" => handler[s] = "none"
    /\ handler[s] \in Greeting =>
         /\ forwarder[s] = "none" /\ listener[s] = "none"
         /\ s \notin greeted /\ wire[s] = << >>
    /\ handler[s] \in {"refused", "dropped"} => link[s] = "closed"
    /\ Len(snapshot[s]) <= RecentLimit
Lives == \A s \in Sockets : Life(s)

\* Two pages never share a socket, and a page's socket is open.
PagesApart ==
    /\ \A p \in Pages : socket[p] # None => link[socket[p]] = "open"
    /\ \A p, q \in Pages : socket[p] # None /\ socket[p] = socket[q] => p = q

\* What is on the wire to a page: the last events before the one its task
\* takes next, without a gap, and as long as it has not arrived, before them,
\* the first message.
Queued(s) ==
    LET n == Len(wire[s])
    IN /\ joined[s] < next[s] /\ next[s] <= Len(sent) + 1
       /\ IF s \in greeted THEN n <= next[s] - 1 - joined[s]
          ELSE n = next[s] - joined[s] /\ wire[s][1] = InitMessage(snapshot[s])
       /\ \A k \in 1 .. n : (s \in greeted \/ k > 1) => wire[s][k] = sent[next[s] - 1 - n + k]
Wires ==
    \A s \in Sockets :
        link[s] = "open" /\ handler[s] \in {"serving", "returned"} => Queued(s)

IInv ==
    /\ TypeOK /\ Lives /\ SlotsAccounted /\ SilenceOnlyByLag
    /\ PagesApart /\ Wires /\ ShowsSnapshotThenFeed

-----------------------------------------------------------------------------
(* Sequences. *)

\* Every set of numbers that is not empty has a least one: what the two
\* inductions below rest on.
LEMMA Least ==
    ASSUME NEW T \in SUBSET Nat, T # {}
    PROVE  \E n \in T : \A m \in T : ~(m < n)
<1>1. IsWellFoundedOn(OpToRel(<, Nat), Nat)
  BY NatLessThanWellFounded
<1>2. \E x \in T : \A y \in T : ~(<<y, x>> \in OpToRel(<, Nat))
  BY <1>1, WFMin
<1>. QED
  BY <1>2 DEF OpToRel

\* The function PacketsOf is defined by.
Step(events, f, n) ==
    IF n = 0 THEN << >>
    ELSE IF events[n].type = "Packet" THEN <<events[n].id>> \o f[n - 1]
    ELSE f[n - 1]
Walks(events, f, n) == f = [k \in 0 .. n |-> Step(events, f, k)]

LEMMA WalkExists ==
    ASSUME NEW events, NEW n \in Nat
    PROVE  \E f : Walks(events, f, n)
<1>. DEFINE T == {m \in Nat : ~\E f : Walks(events, f, m)}
<1>1. ASSUME T # {} PROVE FALSE
  <2>1. PICK m \in T : \A k \in T : ~(k < m)
    BY <1>1, Least
  <2>2. m # 0
    <3>1. Walks(events, [k \in 0 .. 0 |-> << >>], 0)
      BY DEF Walks, Step
    <3>. QED
      BY <2>1, <3>1
  <2>3. m - 1 \in Nat /\ m - 1 \notin T
    BY <2>1, <2>2
  <2>4. PICK f : Walks(events, f, m - 1)
    BY <2>3
  <2>. DEFINE g == [k \in 0 .. m |-> IF k = m THEN Step(events, f, m) ELSE f[k]]
  <2>5. Walks(events, g, m)
    <3>1. \A k \in 0 .. m : g[k] = Step(events, g, k)
      <4>. SUFFICES ASSUME NEW k \in 0 .. m PROVE g[k] = Step(events, g, k)
        OBVIOUS
      <4>1. k # 0 => g[k - 1] = f[k - 1]
        OBVIOUS
      <4>2. Step(events, g, k) = Step(events, f, k)
        BY <4>1 DEF Step
      <4>3. k # m => f[k] = Step(events, f, k)
        BY <2>4 DEF Walks
      <4>. QED
        BY <4>2, <4>3
    <3>. QED
      BY <3>1 DEF Walks
  <2>. QED
    BY <2>1, <2>5
<1>. QED
  BY <1>1

\* Two of them agree as far as both go and their events do.
LEMMA WalksAgree ==
    ASSUME NEW a, NEW b, NEW f, NEW g, NEW m \in Nat, NEW n \in Nat, m <= n,
           Walks(a, f, m), Walks(b, g, n), \A k \in 1 .. m : a[k] = b[k]
    PROVE  \A k \in 0 .. m : f[k] = g[k]
<1>. DEFINE T == {k \in 0 .. m : f[k] # g[k]}
<1>1. ASSUME T # {} PROVE FALSE
  <2>0. T \in SUBSET Nat
    OBVIOUS
  <2>1. PICK k \in T : \A j \in T : ~(j < k)
    <3>. HIDE DEF T
    <3>. QED
      BY <1>1, <2>0, Least
  <2>2. k # 0 => f[k - 1] = g[k - 1]
    BY <2>1
  <2>3. k \in 0 .. m /\ k \in 0 .. n
    OBVIOUS
  <2>4. f[k] = Step(a, f, k) /\ g[k] = Step(b, g, k)
    <3>1. \A h, e, i : Walks(e, h, i) => \A j \in 0 .. i : h[j] = Step(e, h, j)
      BY DEF Walks
    <3>. QED
      BY <2>3, <3>1
  <2>5. Step(a, f, k) = Step(b, g, k)
    BY <2>2, <2>3 DEF Step
  <2>. QED
    BY <2>1, <2>4, <2>5
<1>. QED
  BY <1>1

LEMMA PacketsWalk ==
    ASSUME NEW S, NEW events \in Seq(S)
    PROVE  \E f : Walks(events, f, Len(events)) /\ PacketsOf(events) = f[Len(events)]
<1>. DEFINE f == CHOOSE f : Walks(events, f, Len(events))
<1>1. Walks(events, f, Len(events))
  BY WalkExists
<1>2. PacketsOf(events) = f[Len(events)]
  BY DEF PacketsOf, Walks, Step
<1>. QED
  BY <1>1, <1>2

\* What PacketsOf means: nothing of nothing, and a packet more in front.
LEMMA PacketsOfNone == PacketsOf(<< >>) = << >>
<1>1. PICK f : Walks(<< >>, f, 0) /\ PacketsOf(<< >>) = f[0]
  <2>1. << >> \in Seq({}) /\ Len(<< >>) = 0
    OBVIOUS
  <2>. QED
    BY <2>1, PacketsWalk
<1>. QED
  BY <1>1 DEF Walks, Step

LEMMA PacketsOfMore ==
    ASSUME NEW S, NEW events \in Seq(S), NEW e \in S
    PROVE  PacketsOf(Append(events, e)) =
             IF e.type = "Packet" THEN <<e.id>> \o PacketsOf(events) ELSE PacketsOf(events)
<1>. DEFINE more == Append(events, e)
            n == Len(events)
<1>1. /\ more \in Seq(S) /\ Len(more) = n + 1 /\ n \in Nat
      /\ more[n + 1] = e /\ \A k \in 1 .. n : events[k] = more[k]
  OBVIOUS
<1>. HIDE DEF more
<1>2. PICK f : Walks(events, f, n) /\ PacketsOf(events) = f[n]
  BY PacketsWalk
<1>3. PICK g : Walks(more, g, n + 1) /\ PacketsOf(more) = g[n + 1]
  BY <1>1, PacketsWalk
<1>4. f[n] = g[n]
  BY <1>1, <1>2, <1>3, WalksAgree
<1>5. g[n + 1] = Step(more, g, n + 1)
  <2>1. n + 1 \in 1 .. n + 1
    BY <1>1
  <2>2. \A k \in 1 .. n + 1 : g[k] = Step(more, g, k)
    BY <1>3 DEF Walks
  <2>. QED
    BY <2>1, <2>2
<1>. QED
  BY <1>1, <1>2, <1>3, <1>4, <1>5 DEF Step, more

\* The numbers of packets.
LEMMA PacketsOfType ==
    ASSUME NEW events \in Seq(Event)
    PROVE  PacketsOf(events) \in Seq(Nat)
<1>1. PICK f : Walks(events, f, Len(events)) /\ PacketsOf(events) = f[Len(events)]
  BY PacketsWalk
<1>. DEFINE T == {k \in 0 .. Len(events) : f[k] \notin Seq(Nat)}
<1>2. ASSUME T # {} PROVE FALSE
  <2>1. T \in SUBSET Nat
    OBVIOUS
  <2>2. PICK k \in T : \A j \in T : ~(j < k)
    <3>. HIDE DEF T
    <3>. QED
      BY <1>2, <2>1, Least
  <2>3. f[k] = Step(events, f, k)
    BY <1>1, <2>2 DEF Walks
  <2>4. k # 0 => f[k - 1] \in Seq(Nat)
    BY <2>2
  <2>5. k # 0 => events[k].id \in Nat
    <3>1. k # 0 => k \in 1 .. Len(events)
      BY <2>2
    <3>2. k # 0 => events[k] \in Event
      BY <3>1
    <3>. QED
      BY <3>2 DEF Event
  <2>6. Step(events, f, k) \in Seq(Nat)
    BY <2>4, <2>5 DEF Step
  <2>. QED
    BY <2>2, <2>3, <2>6
<1>. QED
  BY <1>1, <1>2

-----------------------------------------------------------------------------
(* The places. *)

Counted == {s \in Sockets : handler[s] \in Serving \cup {"dropped"}}

LEMMA SocketFacts ==
    /\ None \notin Sockets /\ IsFiniteSet(Sockets)
    /\ \A S \in SUBSET Sockets : IsFiniteSet(S) /\ Cardinality(S) \in Nat
<1>1. IsFiniteSet(Sockets)
  BY HubAssumption, FS_Interval DEF Sockets
<1>2. \A S \in SUBSET Sockets : IsFiniteSet(S) /\ Cardinality(S) \in Nat
  BY <1>1, FS_Subset, FS_CardinalityType
<1>3. None \notin Sockets
  BY HubAssumption DEF Sockets, None
<1>. QED
  BY <1>1, <1>2, <1>3

LEMMA CountedSame ==
    ASSUME SlotsAccounted, UNCHANGED connections, Counted' = Counted
    PROVE  SlotsAccounted'
  BY DEF SlotsAccounted, Counted

LEMMA CountedMore ==
    ASSUME SlotsAccounted, NEW s \in Sockets, s \notin Counted,
           connections' = connections + 1, Counted' = Counted \cup {s}
    PROVE  SlotsAccounted'
<1>1. IsFiniteSet(Counted)
  BY SocketFacts DEF Counted
<1>. QED
  BY <1>1, FS_AddElement DEF SlotsAccounted, Counted

LEMMA CountedLess ==
    ASSUME SlotsAccounted, NEW s \in Sockets, s \in Counted,
           connections' = connections - 1, Counted' = Counted \ {s}
    PROVE  SlotsAccounted'
<1>1. IsFiniteSet(Counted)
  BY SocketFacts DEF Counted
<1>. QED
  BY <1>1, FS_RemoveElement DEF SlotsAccounted, Counted

-----------------------------------------------------------------------------
(* What a page shows. *)

\* The feed goes on as long as nothing that has arrived is touched.
LEMMA ShowsSame ==
    ASSUME ShowsSnapshotThenFeed, UNCHANGED <<shown, greeted>>,
           \A p \in Pages : socket'[p] \in greeted =>
               /\ socket'[p] = socket[p]
               /\ snapshot'[socket[p]] = snapshot[socket[p]]
               /\ Arrived(socket[p])' = Arrived(socket[p])
    PROVE  ShowsSnapshotThenFeed'
  BY DEF ShowsSnapshotThenFeed

\* FirstN of a list.
LEMMA FirstNFacts ==
    ASSUME NEW S, NEW list \in Seq(S), NEW n \in Nat
    PROVE  /\ FirstN(list, n) \in Seq(S)
           /\ Len(FirstN(list, n)) = IF n < Len(list) THEN n ELSE Len(list)
           /\ \A k \in 1 .. Len(FirstN(list, n)) : FirstN(list, n)[k] = list[k]
           /\ Len(list) <= n => FirstN(list, n) = list
  BY DEF FirstN

\* Cutting a list before something is put in front of it does not matter.
LEMMA CutInFront ==
    ASSUME NEW S, NEW list \in Seq(S), NEW n \in Nat, NEW e \in S
    PROVE  FirstN(<<e>> \o FirstN(list, n), n) = FirstN(<<e>> \o list, n)
<1>. DEFINE a == <<e>> \o FirstN(list, n)
            b == <<e>> \o list
<1>1. /\ a \in Seq(S) /\ Len(a) = 1 + Len(FirstN(list, n)) /\ a[1] = e
      /\ \A k \in 2 .. Len(a) : a[k] = FirstN(list, n)[k - 1]
  BY FirstNFacts
<1>2. /\ b \in Seq(S) /\ Len(b) = 1 + Len(list) /\ b[1] = e
      /\ \A k \in 2 .. Len(b) : b[k] = list[k - 1]
  OBVIOUS
<1>. HIDE DEF a, b
<1>3. /\ FirstN(a, n) \in Seq(S) /\ Len(FirstN(a, n)) = IF n < Len(a) THEN n ELSE Len(a)
      /\ \A k \in 1 .. Len(FirstN(a, n)) : FirstN(a, n)[k] = a[k]
  BY <1>1, FirstNFacts
<1>4. /\ FirstN(b, n) \in Seq(S) /\ Len(FirstN(b, n)) = IF n < Len(b) THEN n ELSE Len(b)
      /\ \A k \in 1 .. Len(FirstN(b, n)) : FirstN(b, n)[k] = b[k]
  BY <1>2, FirstNFacts
<1>5. Len(FirstN(a, n)) = Len(FirstN(b, n))
  <2>1. Len(FirstN(list, n)) = IF n < Len(list) THEN n ELSE Len(list)
    BY FirstNFacts
  <2>2. PICK x, y, z : x = Len(FirstN(a, n)) /\ y = Len(FirstN(b, n)) /\ z = Len(list)
    OBVIOUS
  <2>3. /\ z \in Nat /\ Len(a) = 1 + (IF n < z THEN n ELSE z) /\ Len(b) = 1 + z
        /\ x = IF n < Len(a) THEN n ELSE Len(a)
        /\ y = IF n < Len(b) THEN n ELSE Len(b)
    BY <1>1, <1>2, <1>3, <1>4, <2>1, <2>2
  <2>4. x = y
    BY <2>3
  <2>. QED
    BY <2>2, <2>4
<1>6. \A k \in 1 .. Len(FirstN(a, n)) : a[k] = b[k]
  <2>1. /\ FirstN(list, n) \in Seq(S)
        /\ \A k \in 1 .. Len(FirstN(list, n)) : FirstN(list, n)[k] = list[k]
        /\ Len(FirstN(list, n)) <= Len(list)
    BY FirstNFacts
  <2>2. Len(FirstN(a, n)) <= Len(a) /\ Len(FirstN(a, n)) \in Nat /\ Len(a) \in Nat
    BY <1>1, <1>3
  <2>3. ASSUME NEW k \in 1 .. Len(FirstN(a, n)), k # 1 PROVE a[k] = b[k]
    <3>1. k \in 2 .. Len(a) /\ k - 1 \in 1 .. Len(FirstN(list, n)) /\ k \in 2 .. Len(b)
      BY <1>1, <1>2, <2>1, <2>2, <2>3
    <3>. QED
      BY <1>1, <1>2, <2>1, <3>1
  <2>4. a[1] = b[1]
    BY <1>1, <1>2
  <2>. QED
    BY <2>3, <2>4
<1>7. FirstN(a, n) = FirstN(b, n)
  BY <1>3, <1>4, <1>5, <1>6, SeqEqual
<1>. QED
  BY <1>7 DEF a, b

-----------------------------------------------------------------------------
LEMMA InitIInv == Init => IInv
<1>. SUFFICES ASSUME Init PROVE IInv
  OBVIOUS
<1>1. TypeOK
  BY SocketFacts DEF Init, LogInit, TypeOK, HandlerState
<1>2. Lives /\ PagesApart /\ Wires /\ SilenceOnlyByLag
  BY HubAssumption DEF Init, Lives, Life, Greeting, PagesApart, Wires, SilenceOnlyByLag
<1>3. SlotsAccounted
  <2>1. {s \in Sockets : handler[s] \in Serving \cup {"dropped"}} = {}
    BY DEF Init, Serving
  <2>. QED
    BY <2>1, FS_EmptySet DEF Init, SlotsAccounted
<1>4. ShowsSnapshotThenFeed
  BY DEF Init, ShowsSnapshotThenFeed
<1>. QED
  BY <1>1, <1>2, <1>3, <1>4 DEF IInv

\* An event more: what has been sent stays.
LEMMA SentGrows ==
    ASSUME TypeOK, Feed
    PROVE  /\ stored' \in Nat /\ sent' \in Seq(Event) /\ Len(sent) <= Len(sent')
           /\ \A k \in 1 .. Len(sent) : sent'[k] = sent[k]
<1>1. \A i \in Nat : Packet(i) \in Event /\ StationUpdate \in Event
  BY DEF Packet, StationUpdate, Event
<1>2. \A e \in Event : /\ Append(sent, e) \in Seq(Event)
                       /\ Len(sent) <= Len(Append(sent, e))
                       /\ \A k \in 1 .. Len(sent) : Append(sent, e)[k] = sent[k]
  BY DEF TypeOK
<1>3. stored \in Nat /\ sent \in Seq(Event)
  BY DEF TypeOK
<1>4. CASE Store
  BY <1>3, <1>4 DEF Store
<1>5. CASE Update
  BY <1>1, <1>2, <1>3, <1>5 DEF Update
<1>6. ASSUME NEW i \in 1 .. stored, Publish(i)
      PROVE  UNCHANGED stored /\ sent' = Append(sent, Packet(i)) /\ Packet(i) \in Event
  BY <1>1, <1>3, <1>6 DEF Publish
<1>. QED
  BY <1>2, <1>3, <1>4, <1>5, <1>6 DEF Feed, LogNext

\* What was cut out of a list is the same when the list goes on.
LEMMA SameCut ==
    ASSUME NEW S, NEW s \in Seq(S), NEW t \in Seq(S), Len(s) <= Len(t),
           \A k \in 1 .. Len(s) : t[k] = s[k],
           NEW m \in Nat \ {0}, NEW n \in Int, n <= Len(s)
    PROVE  SubSeq(t, m, n) = SubSeq(s, m, n)
  OBVIOUS

\* A cut that goes one further.
LEMMA CutGrows ==
    ASSUME NEW S, NEW s \in Seq(S), NEW n \in Nat, NEW m \in 1 .. n + 1, n + 1 <= Len(s)
    PROVE  /\ SubSeq(s, m, n) \in Seq(S)
           /\ SubSeq(s, m, n + 1) = Append(SubSeq(s, m, n), s[n + 1])
<1>1. SubSeq(s, m, n) \in Seq(S) /\ Len(SubSeq(s, m, n)) = n - m + 1
  OBVIOUS
<1>2. SubSeq(s, m, n + 1) \in Seq(S) /\ Len(SubSeq(s, m, n + 1)) = n - m + 2
  OBVIOUS
<1>3. \A k \in 1 .. n - m + 1 : SubSeq(s, m, n + 1)[k] = SubSeq(s, m, n)[k]
  OBVIOUS
<1>4. SubSeq(s, m, n + 1)[n - m + 2] = s[n + 1]
  OBVIOUS
<1>. DEFINE a == SubSeq(s, m, n)
            b == SubSeq(s, m, n + 1)
<1>5. s[n + 1] \in S
  OBVIOUS
<1>. HIDE DEF a, b
<1>6. /\ Append(a, s[n + 1]) \in Seq(S) /\ Len(Append(a, s[n + 1])) = Len(b)
      /\ \A k \in 1 .. Len(b) : Append(a, s[n + 1])[k] = b[k]
  BY <1>1, <1>2, <1>3, <1>4, <1>5 DEF a, b
<1>7. Append(a, s[n + 1]) = b
  BY <1>2, <1>6, SeqEqual DEF b
<1>. QED
  BY <1>1, <1>7 DEF a, b

\* The two for the lists and the events of the model.
LEMMA CutPackets ==
    \A list \in Seq(Nat), e \in Nat :
        FirstN(<<e>> \o FirstN(list, MaxShown), MaxShown) = FirstN(<<e>> \o list, MaxShown)
  BY CutInFront, HubAssumption

LEMMA SentCut ==
    ASSUME sent \in Seq(Event)
    PROVE  \A m, n \in Int :
             m >= 1 /\ m <= n + 1 /\ n + 1 <= Len(sent) =>
                 /\ SubSeq(sent, m, n) \in Seq(Event)
                 /\ SubSeq(sent, m, n + 1) = Append(SubSeq(sent, m, n), sent[n + 1])
<1>. SUFFICES ASSUME NEW m \in Int, NEW n \in Int, m >= 1, m <= n + 1, n + 1 <= Len(sent)
              PROVE  /\ SubSeq(sent, m, n) \in Seq(Event)
                     /\ SubSeq(sent, m, n + 1) = Append(SubSeq(sent, m, n), sent[n + 1])
  OBVIOUS
<1>1. n \in Nat /\ m \in 1 .. n + 1
  OBVIOUS
<1>. QED
  BY <1>1, CutGrows

LEMMA Joined ==
    \A a, b, c \in Seq(Nat) : a \o (b \o c) = (a \o b) \o c
<1>. SUFFICES ASSUME NEW a \in Seq(Nat), NEW b \in Seq(Nat), NEW c \in Seq(Nat)
              PROVE  a \o (b \o c) = (a \o b) \o c
  OBVIOUS
<1>1. (a \o b) \o c = a \o (b \o c)
  BY ConcatAssociative
<1>. QED
  BY <1>1, Zenon

LEMMA OldestGrows ==
    ASSUME NEW a \in Nat, NEW b \in Nat, a <= b, Len(sent) = a, Len(sent') = b
    PROVE  Oldest <= Oldest'
  BY HubAssumption DEF Oldest

LEMMA FeedKeepsIInv ==
    ASSUME IInv, Feed
    PROVE  IInv'
<1>1. UNCHANGED hubVars /\ UNCHANGED <<serverVars, pageVars, wire, link>>
  BY DEF Feed, hubVars
<1>. USE DEF IInv
<1>2. TypeOK'
  BY <1>1, SentGrows DEF TypeOK, serverVars, pageVars
<1>3. Lives' /\ PagesApart' /\ SlotsAccounted'
  BY <1>1 DEF Lives, Life, PagesApart, SlotsAccounted, serverVars, pageVars
<1>4. SilenceOnlyByLag'
  <2>1. Oldest <= Oldest' /\ Oldest \in Int /\ Oldest' \in Int
    BY SentGrows, <1>2, OldestGrows, HubAssumption DEF TypeOK, Oldest
  <2>. QED
    BY <1>1, <2>1 DEF SilenceOnlyByLag, TypeOK, serverVars, pageVars
<1>5. Wires'
  <2>. SUFFICES ASSUME NEW s \in Sockets, link[s] = "open",
                       handler[s] \in {"serving", "returned"}
                PROVE  Queued(s)'
    BY <1>1 DEF Wires, serverVars
  <2>1. Queued(s) /\ next[s] \in Nat /\ joined[s] \in Nat /\ wire[s] \in Seq(Message)
    BY DEF Wires, TypeOK
  <2>2. \A k \in 1 .. Len(wire[s]) : (s \in greeted \/ k > 1) =>
            next[s] - 1 - Len(wire[s]) + k \in 1 .. Len(sent)
    <3>1. /\ Len(wire[s]) \in Nat /\ Len(sent) \in Nat
          /\ joined[s] < next[s] /\ next[s] <= Len(sent) + 1
          /\ s \in greeted => Len(wire[s]) <= next[s] - 1 - joined[s]
          /\ s \notin greeted => Len(wire[s]) = next[s] - joined[s]
      BY <2>1 DEF Queued, TypeOK
    <3>2. \A n, j, w, l \in Nat :
              j < n /\ n <= l + 1 =>
                  /\ w <= n - 1 - j => \A k \in 1 .. w : n - 1 - w + k \in 1 .. l
                  /\ w = n - j => \A k \in 1 .. w : k > 1 => n - 1 - w + k \in 1 .. l
      OBVIOUS
    <3>. QED
      BY <2>1, <3>1, <3>2
  <2>3. /\ next'[s] = next[s] /\ joined'[s] = joined[s] /\ wire'[s] = wire[s]
        /\ snapshot'[s] = snapshot[s] /\ greeted' = greeted
    BY <1>1 DEF serverVars, pageVars
  <2>4. /\ next[s] <= Len(sent') + 1
        /\ \A k \in 1 .. Len(sent) : sent'[k] = sent[k]
    <3>1. Len(sent) \in Nat /\ Len(sent') \in Nat
      BY SentGrows DEF TypeOK
    <3>2. next[s] <= Len(sent) + 1
      BY <2>1 DEF Queued
    <3>. QED
      BY <2>1, <3>1, <3>2, SentGrows
  <2>. QED
    BY <2>1, <2>2, <2>3, <2>4 DEF Queued
<1>6. ShowsSnapshotThenFeed'
  <2>1. ASSUME NEW p \in Pages, socket[p] \in greeted
        PROVE  Arrived(socket[p])' = Arrived(socket[p])
    <3>. DEFINE s == socket[p]
    <3>1. s \in Sockets /\ link[s] = "open" /\ handler[s] \in {"serving", "returned"}
      BY <2>1, SocketFacts DEF PagesApart, Lives, Life, TypeOK, Greeting, HandlerState
    <3>2. Queued(s) /\ next[s] \in Nat /\ joined[s] \in Nat /\ Len(wire[s]) \in Nat
      BY <3>1 DEF Wires, TypeOK
    <3>3. /\ joined[s] + 1 \in Nat \ {0} /\ next[s] - 1 - Len(wire[s]) \in Nat
          /\ next[s] - 1 - Len(wire[s]) <= Len(sent)
      BY <3>2, <2>1 DEF Queued, TypeOK
    <3>4. next'[s] = next[s] /\ joined'[s] = joined[s] /\ wire'[s] = wire[s]
      BY <1>1 DEF serverVars
    <3>5. \A m \in Nat \ {0}, n \in Nat :
              n <= Len(sent) => SubSeq(sent', m, n) = SubSeq(sent, m, n)
      <4>1. PICK more \in Seq(Event) :
               /\ more = sent' /\ Len(sent) <= Len(more)
               /\ \A k \in 1 .. Len(sent) : more[k] = sent[k]
        BY SentGrows
      <4>2. sent \in Seq(Event)
        BY DEF TypeOK
      <4>3. \A m \in Nat \ {0}, n \in Int :
               n <= Len(sent) => SubSeq(more, m, n) = SubSeq(sent, m, n)
        BY <4>1, <4>2, SameCut
      <4>. QED
        BY <4>1, <4>3
    <3>6. Arrived(s)' = SubSeq(sent', joined[s] + 1, next[s] - 1 - Len(wire[s]))
      BY <1>1, <3>4 DEF Arrived, pageVars
    <3>. QED
      BY <3>3, <3>5, <3>6 DEF Arrived
  <2>. QED
    BY <1>1, <2>1, ShowsSame DEF serverVars, pageVars
<1>. QED
  BY <1>2, <1>3, <1>4, <1>5, <1>6

-----------------------------------------------------------------------------
(* The pages. *)

\* A socket whose first message has arrived at its page.
LEMMA Attached ==
    ASSUME IInv, NEW p \in Pages, socket[p] \in Sockets,
           socket[p] \in greeted \/ wire[socket[p]] # << >>
    PROVE  /\ link[socket[p]] = "open" /\ handler[socket[p]] \in {"serving", "returned"}
           /\ Queued(socket[p])
<1>. DEFINE s == socket[p]
<1>1. s # None /\ link[s] = "open"
  BY SocketFacts DEF IInv, PagesApart
<1>2. handler[s] \in {"serving", "returned"}
  BY <1>1 DEF IInv, Lives, Life, Greeting, TypeOK, HandlerState
<1>. QED
  BY <1>1, <1>2 DEF IInv, Wires

\* A socket that is being opened is new.
LEMMA ConnectKeepsIInv ==
    ASSUME IInv, NEW p \in Pages, NEW s \in Sockets, Connect(p, s)
    PROVE  IInv'
<1>. USE DEF IInv
<1>1. /\ link[s] = "none" /\ handler[s] = "none" /\ s \notin greeted
      /\ forwarder[s] = "none" /\ listener[s] = "none" /\ wire[s] = << >>
      /\ \A q \in Pages : socket[q] # s
  BY SocketFacts DEF Connect, Lives, Life, Greeting, PagesApart
<1>2. /\ socket' = [socket EXCEPT ![p] = s] /\ link' = [link EXCEPT ![s] = "open"]
      /\ UNCHANGED <<logVars, serverVars, shown, greeted, wire>>
  BY DEF Connect
<1>3. TypeOK'
  BY <1>2 DEF TypeOK, logVars, serverVars
<1>4. Lives'
  BY <1>1, <1>2 DEF Lives, Life, TypeOK, serverVars
<1>5. SlotsAccounted'
  BY <1>2 DEF SlotsAccounted, serverVars
<1>6. SilenceOnlyByLag'
  BY <1>1, <1>2 DEF SilenceOnlyByLag, TypeOK, Oldest, serverVars, logVars
<1>7. PagesApart'
  BY <1>1, <1>2, SocketFacts DEF PagesApart, TypeOK
<1>8. Wires'
  BY <1>1, <1>2 DEF Wires, Queued, TypeOK, serverVars, logVars
<1>9. ShowsSnapshotThenFeed'
  <2>1. \A q \in Pages : socket'[q] \in greeted => socket'[q] = socket[q]
    BY <1>1, <1>2 DEF TypeOK
  <2>. QED
    BY <1>2, <2>1, ShowsSame DEF Arrived, serverVars, logVars
<1>. QED
  BY <1>3, <1>4, <1>5, <1>6, <1>7, <1>8, <1>9

LEMMA CloseKeepsIInv ==
    ASSUME IInv, NEW p \in Pages, Close(p)
    PROVE  IInv'
<1>. USE DEF IInv
<1>. DEFINE s == socket[p]
<1>1. /\ s \in Sockets /\ s # None /\ link[s] = "open"
      /\ \A q \in Pages \ {p} : socket[q] # s
  BY DEF Close, PagesApart, TypeOK
<1>2. /\ link' = [link EXCEPT ![s] = "closed"] /\ wire' = [wire EXCEPT ![s] = << >>]
      /\ socket' = [socket EXCEPT ![p] = None]
      /\ UNCHANGED <<logVars, serverVars, shown, greeted>>
  BY DEF Close
<1>. HIDE DEF s
<1>3. TypeOK'
  BY <1>1, <1>2 DEF TypeOK, logVars, serverVars
<1>4. Lives'
  BY <1>1, <1>2 DEF Lives, Life, TypeOK, serverVars
<1>5. SlotsAccounted'
  BY <1>2 DEF SlotsAccounted, serverVars
<1>6. SilenceOnlyByLag'
  BY <1>1, <1>2 DEF SilenceOnlyByLag, TypeOK, Oldest, serverVars, logVars
<1>7. PagesApart'
  BY <1>1, <1>2 DEF PagesApart, TypeOK
<1>8. Wires'
  BY <1>1, <1>2 DEF Wires, Queued, TypeOK, serverVars, logVars
<1>9. ShowsSnapshotThenFeed'
  <2>1. \A q \in Pages : socket'[q] \in greeted =>
            socket'[q] = socket[q] /\ wire'[socket[q]] = wire[socket[q]]
    BY <1>1, <1>2, SocketFacts DEF TypeOK, s
  <2>. QED
    BY <1>2, <2>1, ShowsSame DEF Arrived, serverVars, logVars
<1>. QED
  BY <1>3, <1>4, <1>5, <1>6, <1>7, <1>8, <1>9

\* The message a page handles is the first of its socket or the event that
\* follows the last one that arrived.
LEMMA MessageIsNext ==
    ASSUME IInv, NEW p \in Pages, HandleWsEvent(p)
    PROVE  LET s == socket[p]
               m == Head(wire[s])
               last == next[s] - 1 - Len(wire[s])
           IN /\ s \in Sockets /\ Queued(s) /\ last \in Int
              /\ s \notin greeted => m = InitMessage(snapshot[s]) /\ last + 1 = joined[s]
              /\ s \in greeted => /\ last + 1 \in joined[s] + 1 .. Len(sent)
                                  /\ m = sent[last + 1] /\ m \in Event
<1>. DEFINE s == socket[p]
            m == Head(wire[s])
            last == next[s] - 1 - Len(wire[s])
<1>1. s \in Sockets /\ wire[s] # << >>
  BY DEF HandleWsEvent, IInv, TypeOK
<1>2. Queued(s)
  BY <1>1, Attached
<1>3. /\ wire[s] \in Seq(Message) /\ Len(wire[s]) \in Nat \ {0} /\ m = wire[s][1]
      /\ next[s] \in Nat /\ joined[s] \in Nat /\ sent \in Seq(Event) /\ Len(sent) \in Nat
  BY <1>1 DEF IInv, TypeOK
<1>4. s \notin greeted => m = InitMessage(snapshot[s]) /\ last + 1 = joined[s]
  BY <1>2, <1>3 DEF Queued
<1>5. s \in greeted => /\ last + 1 \in joined[s] + 1 .. Len(sent)
                       /\ m = sent[last + 1]
  <2>1. s \in greeted => wire[s][1] = sent[next[s] - 1 - Len(wire[s]) + 1]
    BY <1>2, <1>3 DEF Queued
  <2>2. s \in greeted => Len(wire[s]) <= next[s] - 1 - joined[s]
    BY <1>2 DEF Queued
  <2>3. next[s] <= Len(sent) + 1
    BY <1>2 DEF Queued
  <2>4. s \in greeted => last + 1 \in joined[s] + 1 .. Len(sent)
    <3>1. \A n, j \in Nat, w \in Nat \ {0}, l \in Nat : w <= n - 1 - j /\ n <= l + 1 =>
              n - 1 - w + 1 \in j + 1 .. l
      OBVIOUS
    <3>. QED
      BY <1>3, <2>2, <2>3, <3>1
  <2>. QED
    BY <1>3, <2>1, <2>4
<1>6. last \in Int
  BY <1>3
<1>7. s \in greeted => m \in Event
  <2>. HIDE DEF last
  <2>. QED
    BY <1>3, <1>5, <1>6
<1>. QED
  BY <1>1, <1>2, <1>4, <1>5, <1>6, <1>7

\* What is left on the wire ends where it did.
LEMMA TailIsQueued ==
    ASSUME NEW w \in Seq(Message), w # << >>, NEW n \in Int,
           \A k \in 2 .. Len(w) : w[k] = sent[n - 1 - Len(w) + k]
    PROVE  \A k \in 1 .. Len(Tail(w)) : Tail(w)[k] = sent[n - 1 - Len(Tail(w)) + k]
<1>1. /\ Len(w) \in Nat \ {0} /\ Len(Tail(w)) = Len(w) - 1
      /\ \A k \in 1 .. Len(Tail(w)) : Tail(w)[k] = w[k + 1]
  OBVIOUS
<1>. SUFFICES ASSUME NEW k \in 1 .. Len(Tail(w))
              PROVE  Tail(w)[k] = sent[n - 1 - Len(Tail(w)) + k]
  OBVIOUS
<1>2. k + 1 \in 2 .. Len(w)
  BY <1>1
<1>3. w[k + 1] = sent[n - 1 - Len(w) + (k + 1)]
  BY <1>2
<1>4. n - 1 - Len(w) + (k + 1) = n - 1 - Len(Tail(w)) + k
  BY <1>1
<1>. QED
  BY <1>1, <1>3, <1>4

LEMMA HandleKeepsIInv ==
    ASSUME IInv, NEW p \in Pages, HandleWsEvent(p)
    PROVE  IInv'
<1>. USE DEF IInv
<1>. DEFINE s == socket[p]
            m == Head(wire[s])
            last == next[s] - 1 - Len(wire[s])
<1>1. /\ s \in Sockets /\ Queued(s) /\ last \in Int
      /\ s \notin greeted => m = InitMessage(snapshot[s]) /\ last + 1 = joined[s]
      /\ s \in greeted => /\ last + 1 \in joined[s] + 1 .. Len(sent)
                          /\ m = sent[last + 1] /\ m \in Event
  BY MessageIsNext
<1>2. /\ link[s] = "open" /\ wire[s] # << >> /\ handler[s] \in {"serving", "returned"}
      /\ \A q \in Pages \ {p} : socket[q] # s
  BY <1>1, Attached, SocketFacts DEF HandleWsEvent, PagesApart
<1>3. /\ wire' = [wire EXCEPT ![s] = Tail(@)]
      /\ UNCHANGED <<logVars, serverVars, socket, link>>
  BY DEF HandleWsEvent
<1>4. /\ wire[s] \in Seq(Message) /\ wire'[s] = Tail(wire[s])
      /\ Len(wire'[s]) = Len(wire[s]) - 1 /\ Len(wire[s]) \in Nat \ {0}
      /\ \A k \in 1 .. Len(wire'[s]) : wire'[s][k] = wire[s][k + 1]
      /\ next[s] \in Nat /\ joined[s] \in Nat /\ snapshot[s] \in Seq(Nat)
      /\ sent \in Seq(Event) /\ Len(sent) \in Nat
  BY <1>1, <1>2, <1>3 DEF TypeOK
\* What the message does.
<1>5. ASSUME s \notin greeted
      PROVE  /\ shown' = [shown EXCEPT ![p] = snapshot[s]]
             /\ greeted' = greeted \cup {s}
  <2>1. m.type = "Init" /\ m.id = snapshot[s]
    BY <1>1, <1>5 DEF InitMessage
  <2>. QED
    BY <2>1 DEF HandleWsEvent
<1>6. ASSUME s \in greeted
      PROVE  /\ greeted' = greeted /\ m.id \in Nat
             /\ m.type = "Packet"
                  => shown' = [shown EXCEPT ![p] = FirstN(<<m.id>> \o @, MaxShown)]
             /\ m.type # "Packet" => UNCHANGED shown
  <2>1. m.type \in {"StationUpdate", "Packet"} /\ m.id \in Nat
    BY <1>1, <1>6 DEF Event
  <2>2. m.type # "Packet" => shown' = [shown EXCEPT ![p] = @]
    BY <2>1 DEF HandleWsEvent
  <2>3. m.type = "Packet"
          => shown' = [shown EXCEPT ![p] = FirstN(<<m.id>> \o @, MaxShown)]
    BY DEF HandleWsEvent
  <2>4. m.type # "Init" => greeted' = greeted
    BY DEF HandleWsEvent
  <2>. QED
    BY <2>1, <2>2, <2>3, <2>4 DEF TypeOK
<1>. HIDE DEF s, m, last
<1>7. greeted' = greeted \cup {s}
  BY <1>5, <1>6
<1>8. TypeOK'
  <2>1. shown' \in [Pages -> Seq(Nat)]
    <3>1. shown[p] \in Seq(Nat) /\ MaxShown \in Nat
      BY HubAssumption DEF TypeOK
    <3>2. m.id \in Nat => FirstN(<<m.id>> \o shown[p], MaxShown) \in Seq(Nat)
      <4>1. ASSUME m.id \in Nat PROVE <<m.id>> \o shown[p] \in Seq(Nat)
        BY <3>1, <4>1
      <4>. QED
        BY <3>1, <4>1, FirstNFacts
    <3>. QED
      BY <1>4, <1>5, <1>6, <3>2 DEF TypeOK
  <2>. QED
    BY <1>1, <1>3, <1>4, <1>7, <2>1 DEF TypeOK, logVars, serverVars
<1>9. Lives'
  BY <1>1, <1>2, <1>3, <1>7 DEF Lives, Life, Greeting, TypeOK, serverVars
<1>10. SlotsAccounted' /\ PagesApart'
  BY <1>3 DEF SlotsAccounted, PagesApart, serverVars
<1>11. SilenceOnlyByLag'
  BY <1>3 DEF SilenceOnlyByLag, Oldest, serverVars, logVars
<1>12. Queued(s)'
  <2>1. s \in greeted' /\ Len(wire'[s]) <= next[s] - 1 - joined[s]
    BY <1>1, <1>4, <1>7 DEF Queued
  <2>2. \A k \in 1 .. Len(wire'[s]) :
            wire'[s][k] = sent[next[s] - 1 - Len(wire'[s]) + k]
    <3>1. \A k \in 2 .. Len(wire[s]) : wire[s][k] = sent[next[s] - 1 - Len(wire[s]) + k]
      <4>1. \A k \in 1 .. Len(wire[s]) :
               s \in greeted \/ k > 1 => wire[s][k] = sent[next[s] - 1 - Len(wire[s]) + k]
        BY <1>1 DEF Queued
      <4>2. \A k \in 2 .. Len(wire[s]) : k \in 1 .. Len(wire[s]) /\ k > 1
        BY <1>4
      <4>. QED
        BY <4>1, <4>2
    <3>2. wire[s] # << >> /\ wire[s] \in Seq(Message) /\ next[s] \in Int /\ wire'[s] = Tail(wire[s])
      BY <1>2, <1>4
    <3>3. PICK v, n : v = wire[s] /\ n = next[s]
      OBVIOUS
    <3>4. v \in Seq(Message) /\ v # << >> /\ n \in Int
          /\ \A k \in 2 .. Len(v) : v[k] = sent[n - 1 - Len(v) + k]
      BY <3>1, <3>2, <3>3
    <3>5. \A k \in 1 .. Len(Tail(v)) : Tail(v)[k] = sent[n - 1 - Len(Tail(v)) + k]
      BY <3>4, TailIsQueued
    <3>. QED
      BY <3>2, <3>3, <3>5
  <2>3. joined[s] < next[s] /\ next[s] <= Len(sent) + 1
    BY <1>1 DEF Queued
  <2>4. UNCHANGED <<next, joined, snapshot, sent>> /\ s' = s
    BY <1>3 DEF serverVars, logVars, s
  <2>. QED
    BY <2>1, <2>2, <2>3, <2>4 DEF Queued
<1>13. Wires'
  <2>1. UNCHANGED <<next, joined, snapshot, sent, handler, link>>
    BY <1>3 DEF serverVars, logVars
  <2>2. ASSUME NEW r \in Sockets, r # s, Queued(r)
        PROVE  Queued(r)'
    <3>1. wire'[r] = wire[r] /\ (r \in greeted' <=> r \in greeted)
      BY <1>3, <1>7, <2>2 DEF TypeOK
    <3>. QED
      BY <2>1, <2>2, <3>1 DEF Queued
  <2>3. s' = s
    BY <1>3 DEF s
  <2>4. \A r \in Sockets :
            link'[r] = "open" /\ handler'[r] \in {"serving", "returned"} => Queued(r)
    BY <2>1 DEF Wires
  <2>5. Wires' = \A r \in Sockets :
            link'[r] = "open" /\ handler'[r] \in {"serving", "returned"} => Queued(r)'
    BY DEF Wires
  <2>6. ASSUME NEW r \in Sockets, Queued(r) PROVE Queued(r)'
    <3>1. CASE r = s
      BY <1>12, <2>3, <3>1 DEF Queued
    <3>. QED
      BY <2>2, <2>6, <3>1
  <2>. QED
    BY <2>4, <2>5, <2>6
\* What the page shows.
<1>14. next' = next /\ joined' = joined /\ snapshot' = snapshot /\ sent' = sent /\ socket' = socket
  BY <1>3 DEF serverVars, logVars
<1>15. ShowsSnapshotThenFeed'
  <2>1. ASSUME NEW q \in Pages, socket[q] \in greeted', q # p
        PROVE  shown'[q] = FirstN(PacketsOf(Arrived(socket[q]))' \o snapshot[socket[q]], MaxShown)
    <3>1. socket[q] # s /\ socket[q] \in greeted /\ wire'[socket[q]] = wire[socket[q]]
      BY <1>2, <1>3, <1>7, <2>1 DEF TypeOK
    <3>2. shown'[q] = shown[q]
      BY <1>5, <1>6, <2>1 DEF TypeOK
    <3>3. Arrived(socket[q])' = Arrived(socket[q])
      BY <1>14, <3>1 DEF Arrived
    <3>. QED
      BY <3>1, <3>2, <3>3 DEF ShowsSnapshotThenFeed
  <2>2. Arrived(s)' = SubSeq(sent, joined[s] + 1, last + 1)
    <3>1. next[s] - 1 - Len(wire'[s]) = last + 1
      BY <1>4 DEF last
    <3>2. Arrived(s)' = SubSeq(sent', joined'[s'] + 1, next'[s'] - 1 - Len(wire'[s']))
      BY DEF Arrived
    <3>3. s' = s
      BY <1>14 DEF s
    <3>. QED
      BY <1>14, <3>1, <3>2, <3>3
  <2>3. CASE s \notin greeted
    <3>1. Arrived(s)' = << >>
      BY <1>1, <1>4, <2>2, <2>3
    <3>2. << >> \o snapshot[s] = snapshot[s]
      BY <1>4
    <3>3. Len(snapshot[s]) <= MaxShown
      BY <1>1, <1>4, HubAssumption DEF Lives, Life
    <3>4. FirstN(snapshot[s], MaxShown) = snapshot[s]
      BY <1>4, <3>3, FirstNFacts, HubAssumption
    <3>5. shown'[p] = snapshot[s]
      BY <1>5, <2>3 DEF TypeOK
    <3>6. shown'[p] = FirstN(PacketsOf(Arrived(s)') \o snapshot[s], MaxShown)
      BY <3>1, <3>2, <3>4, <3>5, PacketsOfNone
    <3>. QED
      BY <1>14, <2>1, <3>6 DEF ShowsSnapshotThenFeed, s
  <2>4. CASE s \in greeted
    <3>. DEFINE before == Arrived(s)
    <3>1. before \in Seq(Event) /\ Arrived(s)' = Append(before, m)
      <4>1. last + 1 \in joined[s] + 1 .. Len(sent) /\ m = sent[last + 1]
        BY <1>1, <2>4
      <4>2. before = SubSeq(sent, joined[s] + 1, last)
        BY DEF Arrived, last
      <4>3. joined[s] + 1 \in 1 .. last + 1 /\ last + 1 \in 1 .. Len(sent)
        BY <1>1, <1>4, <4>1
      <4>4. joined[s] + 1 >= 1 /\ joined[s] + 1 <= last + 1 /\ last + 1 <= Len(sent)
        BY <1>1, <1>4, <4>3
      <4>5. joined[s] + 1 \in Int /\ last \in Int
        BY <1>1, <1>4
      <4>6. /\ SubSeq(sent, joined[s] + 1, last) \in Seq(Event)
            /\ SubSeq(sent, joined[s] + 1, last + 1)
                 = Append(SubSeq(sent, joined[s] + 1, last), sent[last + 1])
        BY <1>4, <4>4, <4>5, SentCut, Zenon
      <4>. QED
        BY <2>2, <4>1, <4>2, <4>6, Zenon
    <3>. HIDE DEF before
    <3>2. shown[p] = FirstN(PacketsOf(before) \o snapshot[s], MaxShown)
      BY <2>4 DEF ShowsSnapshotThenFeed, s, before
    <3>3. PacketsOf(before) \in Seq(Nat)
      BY <3>1, PacketsOfType
    <3>4. CASE m.type = "Packet"
      <4>1. PacketsOf(Arrived(s)') = <<m.id>> \o PacketsOf(before)
        BY <1>1, <2>4, <3>1, <3>4, PacketsOfMore
      <4>2. shown'[p] = FirstN(<<m.id>> \o shown[p], MaxShown)
        BY <1>6, <2>4, <3>4 DEF TypeOK
      <4>3. FirstN(<<m.id>> \o shown[p], MaxShown)
              = FirstN(<<m.id>> \o (PacketsOf(before) \o snapshot[s]), MaxShown)
        <5>1. PacketsOf(before) \o snapshot[s] \in Seq(Nat)
          BY <1>4, <3>3
        <5>. QED
          BY <1>6, <2>4, <3>2, <5>1, CutPackets
      <4>4. <<m.id>> \o (PacketsOf(before) \o snapshot[s])
              = (<<m.id>> \o PacketsOf(before)) \o snapshot[s]
        <5>1. <<m.id>> \in Seq(Nat)
          BY <1>6, <2>4
        <5>. QED
          BY <1>4, <3>3, <5>1, Joined
      <4>5. shown'[p] = FirstN(PacketsOf(Arrived(s)') \o snapshot[s], MaxShown)
        BY <4>1, <4>2, <4>3, <4>4
      <4>. QED
        BY <1>14, <2>1, <4>5 DEF ShowsSnapshotThenFeed, s
    <3>5. CASE m.type # "Packet"
      <4>1. PacketsOf(Arrived(s)') = PacketsOf(before)
        BY <1>1, <2>4, <3>1, <3>5, PacketsOfMore
      <4>2. shown'[p] = FirstN(PacketsOf(Arrived(s)') \o snapshot[s], MaxShown)
        BY <1>6, <2>4, <3>2, <3>5, <4>1
      <4>. QED
        BY <1>14, <2>1, <4>2 DEF ShowsSnapshotThenFeed, s
    <3>. QED
      BY <3>4, <3>5
  <2>. QED
    BY <2>3, <2>4
<1>. QED
  BY <1>8, <1>9, <1>10, <1>11, <1>13, <1>15

-----------------------------------------------------------------------------
(* The server. *)

\* The steps of one socket's tasks that send nothing and leave the pages
\* alone.
Quiet(s) ==
    /\ UNCHANGED <<logVars, pageVars, wire, link>>
    /\ \A r \in Sockets \ {s} :
           /\ handler'[r] = handler[r] /\ forwarder'[r] = forwarder[r]
           /\ listener'[r] = listener[r] /\ snapshot'[r] = snapshot[r]
           /\ next'[r] = next[r] /\ joined'[r] = joined[r]

\* What is said of the other sockets stays true.
LEMMA QuietKeeps ==
    ASSUME IInv, NEW s \in Sockets, Quiet(s), TypeOK', Life(s)',
           (link[s] = "open" /\ "ended" \in {forwarder'[s], listener'[s]}) => next'[s] < Oldest,
           link[s] = "open" /\ handler'[s] \in {"serving", "returned"} => Queued(s)',
           link[s] = "open" /\ s \in greeted => UNCHANGED <<snapshot, next, joined>>,
           SlotsAccounted'
    PROVE  IInv'
<1>. USE DEF IInv
<1>1. /\ sent' = sent /\ greeted' = greeted /\ wire' = wire /\ link' = link
      /\ socket' = socket /\ shown' = shown /\ stored' = stored /\ Oldest' = Oldest
  BY DEF Quiet, logVars, pageVars, Oldest
<1>2. Lives'
  <2>1. ASSUME NEW r \in Sockets \ {s} PROVE Life(r)'
    BY <1>1 DEF Quiet, Lives, Life, Greeting
  <2>. QED
    BY <2>1 DEF Lives
<1>3. SilenceOnlyByLag'
  BY <1>1 DEF Quiet, SilenceOnlyByLag
<1>4. PagesApart'
  BY <1>1 DEF PagesApart
<1>5. Wires'
  <2>1. ASSUME NEW r \in Sockets \ {s}, link[r] = "open", handler'[r] \in {"serving", "returned"}
        PROVE  Queued(r)'
    BY <1>1, <2>1 DEF Quiet, Wires, Queued
  <2>. QED
    BY <1>1, <2>1 DEF Wires
<1>6. ShowsSnapshotThenFeed'
  <2>1. ASSUME NEW p \in Pages, socket[p] \in greeted
        PROVE  snapshot'[socket[p]] = snapshot[socket[p]] /\ Arrived(socket[p])' = Arrived(socket[p])
    <3>1. socket[p] \in Sockets /\ link[socket[p]] = "open"
      BY <2>1, SocketFacts DEF TypeOK, PagesApart
    <3>. QED
      BY <1>1, <2>1, <3>1 DEF Quiet, Arrived
  <2>. QED
    BY <1>1, <2>1, ShowsSame
<1>. QED
  BY <1>2, <1>3, <1>4, <1>5, <1>6

LEMMA UpgradeKeepsIInv ==
    ASSUME IInv, NEW s \in Sockets, Upgrade(s)
    PROVE  IInv'
<1>. USE DEF IInv
<1>1. TypeOK' /\ Quiet(s)
  BY DEF Upgrade, TypeOK, Quiet, HandlerState, logVars, pageVars
<1>2. Life(s)' /\ handler'[s] = "upgraded"
  BY DEF Upgrade, Lives, Life, Greeting, TypeOK, pageVars
<1>3. SlotsAccounted'
  <2>1. Counted' = Counted
    BY <1>2 DEF Upgrade, TypeOK, Counted, Serving
  <2>. QED
    BY <2>1, CountedSame DEF Upgrade
<1>. QED
  BY <1>1, <1>2, <1>3, QuietKeeps DEF Upgrade, SilenceOnlyByLag

LEMMA EnterKeepsIInv ==
    ASSUME IInv, NEW s \in Sockets, Enter(s)
    PROVE  IInv'
<1>. USE DEF IInv
<1>1. TypeOK' /\ Quiet(s)
  BY DEF Enter, TypeOK, Quiet, HandlerState, logVars, pageVars
<1>2. Life(s)' /\ handler'[s] = "counted"
  BY DEF Enter, Lives, Life, Greeting, TypeOK, pageVars
<1>3. SlotsAccounted'
  <2>1. Counted' = Counted \cup {s} /\ s \notin Counted
    BY <1>2 DEF Enter, TypeOK, Counted, Serving
  <2>. QED
    BY <2>1, CountedMore DEF Enter
<1>. QED
  BY <1>1, <1>2, <1>3, QuietKeeps DEF Enter, SilenceOnlyByLag

LEMMA ReadRecentKeepsIInv ==
    ASSUME IInv, NEW s \in Sockets, ReadRecent(s)
    PROVE  IInv'
<1>. USE DEF IInv
<1>0. \A list \in {Recent, << >>} : list \in Seq(Nat) /\ Len(list) <= RecentLimit
  <2>1. [i \in 1 .. stored |-> stored + 1 - i] \in Seq(Nat)
    BY DEF TypeOK
  <2>2. Recent \in Seq(Nat) /\ Len(Recent) <= RecentLimit
    BY <2>1, FirstNFacts, HubAssumption DEF Recent
  <2>3. << >> \in Seq(Nat) /\ Len(<< >>) <= RecentLimit
    BY HubAssumption
  <2>. HIDE DEF Recent
  <2>. QED
    BY <2>2, <2>3
<1>1. TypeOK' /\ Quiet(s) /\ Len(snapshot'[s]) <= RecentLimit
  <2>1. PICK list \in {Recent, << >>} : snapshot' = [snapshot EXCEPT ![s] = list]
    BY DEF ReadRecent
  <2>. HIDE DEF Recent
  <2>. QED
    BY <1>0, <2>1 DEF ReadRecent, TypeOK, Quiet, HandlerState, logVars, pageVars
<1>2. Life(s)' /\ handler'[s] = "greeting" /\ s \notin greeted
  BY <1>1 DEF ReadRecent, Lives, Life, Greeting, TypeOK, pageVars
<1>3. SlotsAccounted'
  <2>1. Counted' = Counted
    BY <1>2 DEF ReadRecent, TypeOK, Counted, Serving
  <2>. QED
    BY <2>1, CountedSame DEF ReadRecent
<1>. QED
  BY <1>1, <1>2, <1>3, QuietKeeps DEF ReadRecent, SilenceOnlyByLag

LEMMA GreetFailsKeepsIInv ==
    ASSUME IInv, NEW s \in Sockets, GreetFails(s)
    PROVE  IInv'
<1>. USE DEF IInv
<1>1. TypeOK' /\ Quiet(s)
  BY DEF GreetFails, TypeOK, Quiet, HandlerState, logVars, pageVars
<1>2. Life(s)' /\ handler'[s] = "dropped"
  BY DEF GreetFails, Lives, Life, Greeting, TypeOK, pageVars
<1>3. SlotsAccounted'
  <2>1. Counted' = Counted
    BY <1>2 DEF GreetFails, TypeOK, Counted, Serving
  <2>. QED
    BY <2>1, CountedSame DEF GreetFails
<1>. QED
  BY <1>1, <1>2, <1>3, QuietKeeps DEF GreetFails, SilenceOnlyByLag

\* Whichever task ended, the place is given back once.
LEMMA LeaveKeepsIInv ==
    ASSUME IInv, NEW s \in Sockets, Leave(s)
    PROVE  IInv'
<1>. USE DEF IInv
<1>1. TypeOK' /\ Quiet(s)
  BY DEF Leave, FreesOne, TypeOK, Quiet, HandlerState, logVars, pageVars
<1>2. Life(s)' /\ handler'[s] = "returned"
  BY DEF Leave, Lives, Life, Greeting, TypeOK, pageVars
<1>3. SlotsAccounted'
  <2>1. Counted' = Counted \ {s} /\ s \in Counted
    BY <1>2 DEF Leave, TypeOK, Counted, Serving
  <2>. QED
    BY <2>1, CountedLess DEF Leave, FreesOne
<1>4. link[s] = "open" => Queued(s)'
  BY DEF Leave, Wires, Queued, logVars, pageVars
<1>. QED
  BY <1>1, <1>2, <1>3, <1>4, QuietKeeps DEF Leave, SilenceOnlyByLag

LEMMA ForwardFailsKeepsIInv ==
    ASSUME IInv, NEW s \in Sockets, ForwardFails(s)
    PROVE  IInv'
<1>. USE DEF IInv
<1>1. TypeOK' /\ Quiet(s)
  BY DEF ForwardFails, TypeOK, Quiet, logVars, pageVars
<1>2. Life(s)' /\ link[s] = "closed"
  BY DEF ForwardFails, Lives, Life, Greeting, TypeOK, pageVars
<1>3. SlotsAccounted'
  BY CountedSame DEF ForwardFails, Counted
<1>. QED
  BY <1>1, <1>2, <1>3, QuietKeeps

LEMMA LaggedKeepsIInv ==
    ASSUME IInv, NEW s \in Sockets, Lagged(s)
    PROVE  IInv'
<1>. USE DEF IInv, LagEnds
<1>1. TypeOK' /\ Quiet(s)
  BY DEF Lagged, TypeOK, Quiet, logVars, pageVars
<1>2. Life(s)'
  BY DEF Lagged, Lives, Life, Greeting, TypeOK, pageVars
<1>3. SlotsAccounted'
  BY CountedSame DEF Lagged, Counted
<1>4. next'[s] < Oldest
  BY DEF Lagged
<1>5. link[s] = "open" /\ handler'[s] \in {"serving", "returned"} => Queued(s)'
  BY DEF Lagged, Wires, Queued, logVars, pageVars
<1>. QED
  BY <1>1, <1>2, <1>3, <1>4, <1>5, QuietKeeps DEF Lagged

LEMMA ListenKeepsIInv ==
    ASSUME IInv, NEW s \in Sockets, Listen(s)
    PROVE  IInv'
<1>. USE DEF IInv
<1>1. TypeOK' /\ Quiet(s)
  BY DEF Listen, TypeOK, Quiet, logVars, pageVars
<1>2. Life(s)' /\ link[s] = "closed"
  BY DEF Listen, Lives, Life, Greeting, TypeOK, pageVars
<1>3. SlotsAccounted'
  BY CountedSame DEF Listen, Counted
<1>. QED
  BY <1>1, <1>2, <1>3, QuietKeeps DEF Listen

LEMMA UnavailableKeepsIInv ==
    ASSUME IInv, NEW s \in Sockets, Unavailable(s)
    PROVE  IInv'
<1>. USE DEF IInv
<1>1. /\ handler[s] = "none" /\ handler' = [handler EXCEPT ![s] = "refused"]
      /\ link' = [link EXCEPT ![s] = "closed"]
      /\ socket' = [p \in Pages |-> IF socket[p] = s THEN None ELSE socket[p]]
      /\ UNCHANGED <<logVars, connections, forwarder, listener, snapshot, next,
                     joined, shown, greeted, wire>>
  BY DEF Unavailable
<1>2. TypeOK'
  BY <1>1 DEF TypeOK, HandlerState, logVars
<1>3. Lives'
  BY <1>1 DEF Lives, Life, Greeting, TypeOK
<1>4. SlotsAccounted'
  <2>1. Counted' = Counted
    BY <1>1 DEF TypeOK, Counted, Serving
  <2>. QED
    BY <1>1, <2>1, CountedSame
<1>5. SilenceOnlyByLag'
  BY <1>1 DEF SilenceOnlyByLag, TypeOK, Oldest, logVars
<1>6. PagesApart'
  BY <1>1 DEF PagesApart, TypeOK
<1>7. Wires'
  BY <1>1 DEF Wires, Queued, TypeOK, logVars
<1>8. ShowsSnapshotThenFeed'
  <2>1. \A p \in Pages : socket'[p] \in greeted => socket'[p] = socket[p]
    BY <1>1, SocketFacts DEF TypeOK
  <2>. QED
    BY <1>1, <2>1, ShowsSame DEF Arrived, logVars
<1>. QED
  BY <1>2, <1>3, <1>4, <1>5, <1>6, <1>7, <1>8

\* The first message goes out and the subscription begins behind the last
\* event.
LEMMA GreetKeepsIInv ==
    ASSUME IInv, NEW s \in Sockets, Greet(s)
    PROVE  IInv'
<1>. USE DEF IInv
<1>1. /\ handler[s] = "greeting" /\ s \notin greeted /\ wire[s] = << >> /\ link[s] # "none"
      /\ snapshot[s] \in Seq(Nat) /\ Len(sent) \in Nat
  BY DEF Greet, Lives, Life, Greeting, TypeOK
<1>2. /\ handler' = [handler EXCEPT ![s] = "serving"]
      /\ forwarder' = [forwarder EXCEPT ![s] = "running"]
      /\ listener' = [listener EXCEPT ![s] = "running"]
      /\ next' = [next EXCEPT ![s] = Len(sent) + 1] /\ joined' = [joined EXCEPT ![s] = Len(sent)]
      /\ UNCHANGED <<logVars, connections, snapshot, pageVars, link>>
  BY DEF Greet
<1>3. /\ wire' \in [Sockets -> Seq(Message)]
      /\ \A r \in Sockets \ {s} : wire'[r] = wire[r]
      /\ link[s] = "open" => wire'[s] = <<InitMessage(snapshot[s])>>
  <2>1. InitMessage(snapshot[s]) \in Message
    BY <1>1 DEF InitMessage, Message
  <2>2. Append(<< >>, InitMessage(snapshot[s])) = <<InitMessage(snapshot[s])>>
    OBVIOUS
  <2>. QED
    BY <1>1, <2>1, <2>2 DEF Greet, TypeOK
<1>4. TypeOK'
  <2>1. next' \in [Sockets -> Nat \ {0}] /\ joined' \in [Sockets -> Nat]
    BY <1>1, <1>2 DEF TypeOK
  <2>. QED
    BY <1>2, <1>3, <2>1 DEF TypeOK, HandlerState, logVars, pageVars
<1>5. Lives'
  BY <1>1, <1>2, <1>3 DEF Lives, Life, Greeting, TypeOK, pageVars
<1>6. SlotsAccounted'
  <2>1. Counted' = Counted
    BY <1>1, <1>2 DEF TypeOK, Counted, Serving
  <2>. QED
    BY <1>2, <2>1, CountedSame
<1>7. SilenceOnlyByLag'
  BY <1>2 DEF SilenceOnlyByLag, TypeOK, Oldest, logVars
<1>8. PagesApart'
  BY <1>2 DEF PagesApart, pageVars
<1>9. Wires'
  <2>1. link[s] = "open" => Queued(s)'
    <3>. SUFFICES ASSUME link[s] = "open" PROVE Queued(s)'
      OBVIOUS
    <3>. DEFINE n == next'[s]
                b == Len(wire'[s])
                l == Len(sent)
    <3>1. /\ n = l + 1 /\ joined'[s] = l /\ l \in Nat /\ sent' = sent
          /\ snapshot' = snapshot /\ greeted' = greeted
      BY <1>1, <1>2 DEF TypeOK, logVars, pageVars
    <3>2. \A m : Len(<<m>>) = 1 /\ <<m>>[1] = m
      OBVIOUS
    <3>3. b = 1 /\ wire'[s][1] = InitMessage(snapshot[s])
      BY <1>3, <3>2
    <3>. HIDE DEF n, b, l
    <3>4. /\ l < n /\ n <= l + 1 /\ b = n - l /\ \A k \in 1 .. b : ~(k > 1)
      BY <3>1, <3>3
    <3>. QED
      BY <1>1, <3>1, <3>3, <3>4 DEF Queued, n, b, l
  <2>2. ASSUME NEW r \in Sockets \ {s}, link[r] = "open", handler'[r] \in {"serving", "returned"}
        PROVE  Queued(r)'
    <3>1. Queued(r)
      BY <1>2, <2>2 DEF Wires, TypeOK
    <3>2. /\ next'[r] = next[r] /\ joined'[r] = joined[r] /\ sent' = sent
          /\ snapshot' = snapshot /\ greeted' = greeted /\ wire'[r] = wire[r]
      BY <1>2, <1>3 DEF TypeOK, logVars, pageVars
    <3>. QED
      BY <3>1, <3>2 DEF Queued
  <2>. QED
    BY <1>2, <2>1, <2>2 DEF Wires
<1>10. ShowsSnapshotThenFeed'
  <2>1. ASSUME NEW p \in Pages, socket[p] \in greeted
        PROVE  Arrived(socket[p])' = Arrived(socket[p])
    <3>1. socket[p] \in Sockets \ {s}
      BY <1>1, <2>1 DEF TypeOK
    <3>. QED
      BY <1>2, <1>3, <3>1 DEF Arrived, TypeOK, logVars, pageVars
  <2>. QED
    BY <1>2, <2>1, ShowsSame DEF pageVars
<1>. QED
  BY <1>4, <1>5, <1>6, <1>7, <1>8, <1>9, <1>10

\* One event more on the wire.
LEMMA ForwardKeepsIInv ==
    ASSUME IInv, NEW s \in Sockets, Forward(s)
    PROVE  IInv'
<1>. USE DEF IInv
<1>1. /\ forwarder[s] = "running" /\ next[s] >= Oldest /\ next[s] \in 1 .. Len(sent)
      /\ next[s] \in Nat /\ joined[s] \in Nat /\ wire[s] \in Seq(Message)
      /\ Oldest \in Int /\ Len(sent) \in Nat
  BY HubAssumption DEF Forward, Due, Oldest, TypeOK
<1>2. /\ next' = [next EXCEPT ![s] = @ + 1]
      /\ UNCHANGED <<logVars, connections, handler, forwarder, listener, snapshot,
                     joined, pageVars, link>>
  BY DEF Forward
<1>3. /\ wire' \in [Sockets -> Seq(Message)]
      /\ \A r \in Sockets \ {s} : wire'[r] = wire[r]
      /\ link[s] = "open" => wire'[s] = Append(wire[s], sent[next[s]])
      /\ link[s] # "open" => wire'[s] = wire[s]
  <2>1. sent[next[s]] \in Message
    <3>1. sent[next[s]] \in Event
      BY <1>1 DEF TypeOK
    <3>. QED
      BY <3>1 DEF Message
  <2>. QED
    BY <1>1, <2>1 DEF Forward, TypeOK
<1>4. TypeOK'
  <2>1. next' \in [Sockets -> Nat \ {0}]
    BY <1>1, <1>2 DEF TypeOK
  <2>. QED
    BY <1>2, <1>3, <2>1 DEF TypeOK, logVars, pageVars
<1>5. Lives'
  BY <1>1, <1>2, <1>3 DEF Lives, Life, TypeOK, pageVars
<1>6. SlotsAccounted'
  BY <1>2, CountedSame DEF Counted
<1>7. SilenceOnlyByLag'
  <2>1. Oldest' = Oldest
    BY <1>2 DEF Oldest, logVars
  <2>2. ~(link[s] = "open" /\ "ended" \in {forwarder[s], listener[s]})
    BY <1>1 DEF SilenceOnlyByLag
  <2>. QED
    BY <1>2, <2>1, <2>2 DEF SilenceOnlyByLag, TypeOK
<1>8. PagesApart'
  BY <1>2 DEF PagesApart, pageVars
<1>9. Wires'
  <2>1. ASSUME link[s] = "open", handler[s] \in {"serving", "returned"} PROVE Queued(s)'
    <3>. DEFINE n == next[s]
                n1 == next'[s]
                a == Len(wire[s])
                b == Len(wire'[s])
    <3>1. Queued(s)
      BY <2>1 DEF Wires
    <3>2. /\ n1 = n + 1 /\ joined'[s] = joined[s] /\ sent' = sent
          /\ snapshot' = snapshot /\ greeted' = greeted
      BY <1>2 DEF TypeOK, logVars, pageVars
    <3>3. /\ a \in Nat /\ b = a + 1 /\ wire'[s][a + 1] = sent[n]
          /\ \A k \in 1 .. a : wire'[s][k] = wire[s][k]
      BY <1>1, <1>3, <2>1
    <3>4. /\ joined[s] < n
          /\ IF s \in greeted THEN a <= n - 1 - joined[s]
             ELSE a = n - joined[s] /\ wire[s][1] = InitMessage(snapshot[s])
          /\ \A k \in 1 .. a : (s \in greeted \/ k > 1) => wire[s][k] = sent[n - 1 - a + k]
      BY <3>1 DEF Queued
    <3>5. n \in 1 .. Len(sent) /\ Len(sent) \in Nat /\ joined[s] \in Nat
      BY <1>1
    <3>. HIDE DEF n, n1, a, b
    <3>6. /\ joined[s] < n1 /\ n1 <= Len(sent) + 1
          /\ s \in greeted => b <= n1 - 1 - joined[s]
          /\ s \notin greeted => b = n1 - joined[s] /\ a \in Nat \ {0}
      BY <3>2, <3>3, <3>4, <3>5
    <3>7. s \notin greeted => wire'[s][1] = InitMessage(snapshot[s])
      BY <3>3, <3>4, <3>6
    <3>8. ASSUME NEW k \in 1 .. b, s \in greeted \/ k > 1
          PROVE  wire'[s][k] = sent[n1 - 1 - b + k]
      <4>1. n1 - 1 - b + k = n - 1 - a + k
        BY <3>2, <3>3, <3>5
      <4>2. k = a + 1 => n - 1 - a + k = n
        BY <3>3, <3>5
      <4>3. k # a + 1 => k \in 1 .. a
        BY <3>3
      <4>. QED
        BY <3>3, <3>4, <3>8, <4>1, <4>2, <4>3
    <3>. QED
      BY <3>2, <3>6, <3>7, <3>8 DEF Queued, n1, b
  <2>2. ASSUME NEW r \in Sockets \ {s}, link[r] = "open", handler[r] \in {"serving", "returned"}
        PROVE  Queued(r)'
    <3>1. Queued(r)
      BY <1>2, <2>2 DEF Wires, TypeOK
    <3>2. /\ next'[r] = next[r] /\ joined'[r] = joined[r] /\ sent' = sent
          /\ snapshot' = snapshot /\ greeted' = greeted /\ wire'[r] = wire[r]
      BY <1>2, <1>3 DEF TypeOK, logVars, pageVars
    <3>. QED
      BY <3>1, <3>2 DEF Queued
  <2>. QED
    BY <1>2, <2>1, <2>2 DEF Wires
<1>10. ShowsSnapshotThenFeed'
  <2>1. ASSUME NEW p \in Pages, socket[p] \in greeted
        PROVE  Arrived(socket[p])' = Arrived(socket[p])
    <3>1. socket[p] \in Sockets /\ link[socket[p]] = "open"
      BY <2>1, SocketFacts DEF TypeOK, PagesApart
    <3>2. next'[socket[p]] - 1 - Len(wire'[socket[p]]) = next[socket[p]] - 1 - Len(wire[socket[p]])
      <4>1. CASE socket[p] = s
        <5>1. PICK n, a, n1, a1 : /\ n = next[s] /\ a = Len(wire[s])
                                  /\ n1 = next'[s] /\ a1 = Len(wire'[s])
          OBVIOUS
        <5>2. n1 = n + 1 /\ n \in Nat /\ a \in Nat
          BY <1>1, <1>2, <5>1 DEF TypeOK
        <5>3. a1 = a + 1
          BY <1>1, <1>2, <1>3, <3>1, <4>1, <5>1 DEF TypeOK
        <5>4. n1 - 1 - a1 = n - 1 - a
          BY <5>2, <5>3
        <5>. QED
          BY <4>1, <5>1, <5>4
      <4>2. CASE socket[p] # s
        BY <1>2, <1>3, <3>1, <4>2 DEF TypeOK
      <4>. QED
        BY <4>1, <4>2
    <3>. QED
      BY <1>2, <3>2 DEF Arrived, logVars, pageVars
  <2>. QED
    BY <1>2, <2>1, ShowsSame DEF pageVars
<1>. QED
  BY <1>4, <1>5, <1>6, <1>7, <1>8, <1>9, <1>10

-----------------------------------------------------------------------------
LEMMA NextIInv == IInv /\ [Next]_vars => IInv'
<1>. SUFFICES ASSUME IInv, [Next]_vars PROVE IInv'
  OBVIOUS
<1>1. CASE UNCHANGED vars
  BY <1>1 DEF vars, hubVars, serverVars, pageVars, logVars, IInv, TypeOK, Lives, Life,
              SlotsAccounted, SilenceOnlyByLag, Oldest, PagesApart, Wires, Queued,
              ShowsSnapshotThenFeed, Arrived
<1>2. CASE Feed
  BY <1>2, FeedKeepsIInv
<1>3. ASSUME NEW p \in Pages, HandleWsEvent(p) \/ Close(p) \/ \E s \in Sockets : Connect(p, s)
      PROVE  IInv'
  BY <1>3, HandleKeepsIInv, CloseKeepsIInv, ConnectKeepsIInv
<1>4. ASSUME NEW s \in Sockets, Serve(s)
      PROVE  IInv'
  BY <1>4, UpgradeKeepsIInv, UnavailableKeepsIInv, EnterKeepsIInv, ReadRecentKeepsIInv,
     GreetKeepsIInv, GreetFailsKeepsIInv, LeaveKeepsIInv DEF Serve
<1>5. ASSUME NEW s \in Sockets, Tasks(s)
      PROVE  IInv'
  BY <1>5, ForwardKeepsIInv, ForwardFailsKeepsIInv, LaggedKeepsIInv, ListenKeepsIInv DEF Tasks
<1>. QED
  BY <1>1, <1>2, <1>3, <1>4, <1>5 DEF Next

LEMMA Invariance == Spec => []IInv
  BY InitIInv, NextIInv, PTL DEF Spec

\* Each socket takes one place and gives it back once, whichever of its tasks
\* ends first, and only the sockets whose first message failed keep theirs.
THEOREM PlacesAreCounted == Spec => []SlotsAccounted
<1>1. IInv => SlotsAccounted
  BY DEF IInv
<1>. QED
  BY <1>1, Invariance, PTL

\* Nothing of the feed is missing from a page, doubled or out of order: what
\* it shows is its first list and the packets of the events that have arrived
\* since, whatever is published, sent, lost with a connection or overwritten
\* in the channel meanwhile.
THEOREM FeedIsWhole == Spec => []ShowsSnapshotThenFeed
<1>1. IInv => ShowsSnapshotThenFeed
  BY DEF IInv
<1>. QED
  BY <1>1, Invariance, PTL

\* While a connection is open its tasks end only because events were
\* overwritten before they were taken.
THEOREM SilentOnlyAfterLag == Spec => []SilenceOnlyByLag
<1>1. IInv => SilenceOnlyByLag
  BY DEF IInv
<1>. QED
  BY <1>1, Invariance, PTL
=============================================================================
