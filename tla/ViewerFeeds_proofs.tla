-------------------------- MODULE ViewerFeeds_proofs --------------------------
(***************************************************************************)
(* Theorems about the viewer's ingest side (ViewerIngest) and about the    *)
(* feeds and the configuration around it (ViewerFeeds).                    *)
(***************************************************************************)
EXTENDS ViewerFeeds, TLAPS

\* What a feed's task has left to do: all of a packet that is not stored yet,
\* or the rest of one that is; the rows it is past are there.
HasRow(t, id) == [table |-> t, id |-> id] \in Rows
Fresh(f) == task[f].id = 0 /\ task[f].todo = Program(task[f].kind)
Underway(f) ==
    /\ "packet" \notin task[f].todo
    /\ task[f].id \in DOMAIN packets
    /\ packets[task[f].id] = [source_type |-> f, kind |-> task[f].kind]
    /\ \A t \in task[f].kind \cap Histories : t \in task[f].todo \/ HasRow(t, task[f].id)
TaskOK(f) ==
    Busy(f) => /\ "publish" \in task[f].todo
               /\ Fresh(f) \/ Underway(f)

\* A packet that was sent is complete, and older than the one its feed is at.
EventOK(e) ==
    e.type = "Packet" =>
        /\ e.id \in DOMAIN packets
        /\ \A t \in packets[e.id].kind \cap Histories : HasRow(t, e.id)
        /\ LET f == packets[e.id].source_type
           IN Busy(f) /\ Underway(f) => e.id < task[f].id

IngestInv ==
    /\ IngestTypeOK
    /\ \A f \in Feeds : TaskOK(f)
    /\ \A i \in DOMAIN sent : EventOK(sent[i])
    /\ PublishedOnceInOrder

LEMMA ProgramInOrder ==
    ASSUME NEW kind PROVE Program(kind) \subseteq Statement
  BY DEF Program, Statement, Order, Histories

LEMMA IngestInitOK == IngestInit => IngestInv
  <1> SUFFICES ASSUME IngestInit PROVE IngestInv
    OBVIOUS
  <1>1. IngestTypeOK
    <2>1. NoTask \in [todo : SUBSET Statement, kind : Kinds \cup {{}}, id : Nat]
      BY DEF NoTask, Task
    <2>2. /\ packets \in Seq([source_type : Feeds, kind : Kinds \cup {{}}])
          /\ sent \in Seq(Log!Event)
      BY DEF IngestInit
    <2> QED
      BY <2>1, <2>2 DEF IngestInit, IngestTypeOK, Rows
  <1>2. \A f \in Feeds : ~Busy(f)
    BY DEF IngestInit, Busy, NoTask, Task
  <1> QED
    BY <1>1, <1>2 DEF IngestInit, IngestInv, TaskOK, PublishedOnceInOrder

LEMMA ElementOfSeq ==
    ASSUME NEW S, NEW s \in Seq(S) PROVE \A i \in DOMAIN s : s[i] \in S
  OBVIOUS

LEMMA PacketTypes ==
    ASSUME IngestTypeOK
    PROVE  \A i \in DOMAIN packets : /\ packets[i].source_type \in Feeds
                                     /\ packets[i] \in [source_type : Feeds, kind : Kinds \cup {{}}]
  <1>1. \A i \in DOMAIN packets : packets[i] \in [source_type : Feeds, kind : Kinds \cup {{}}]
    BY ElementOfSeq DEF IngestTypeOK
  <1> QED
    BY <1>1

LEMMA AtUnderway ==
    ASSUME NEW f \in Feeds, TaskOK(f), NEW s \in Statement \ {"packet"}, At(f, s)
    PROVE  Busy(f) /\ Underway(f)
  BY DEF TaskOK, At, Busy, Fresh, Program, Statement, Order

\* A step in which a task goes on with the packet it is at, and leaves behind no
\* statement whose row is missing.
LEMMA PastOK ==
    ASSUME IngestInv, NEW f \in Feeds, Busy(f), Underway(f),
           NEW done \in SUBSET (Statement \ {"packet"}), Past(f, done),
           packets' = packets, Rows \subseteq Rows',
           \A t \in done \cap task[f].kind \cap Histories : HasRow(t, task[f].id)',
           "publish" \in done => task[f].todo \subseteq done
    PROVE  /\ task' \in [Feeds -> [todo : SUBSET Statement, kind : Kinds \cup {{}}, id : Nat]]
           /\ \A g \in Feeds : TaskOK(g)'
           /\ \A e : EventOK(e) => EventOK(e)'
  <1> USE DEF IngestInv, IngestTypeOK
  <1>1. task' = [task EXCEPT ![f] = [todo |-> task[f].todo \ done, kind |-> task[f].kind,
                                     id |-> task[f].id]]
    BY DEF Past, Task
  <1>2. task' \in [Feeds -> [todo : SUBSET Statement, kind : Kinds \cup {{}}, id : Nat]]
    BY <1>1
  <1>3. Underway(f)'
    BY <1>1 DEF Underway, HasRow
  <1>4. TaskOK(f)'
    BY <1>1, <1>3 DEF TaskOK, Busy
  <1>5. ASSUME NEW g \in Feeds, g # f
        PROVE  TaskOK(g)' /\ (Busy(g) <=> Busy(g)') /\ (Underway(g)' => task'[g] = task[g])
    BY <1>1, <1>5 DEF TaskOK, Busy, Fresh, Underway, HasRow
  <1>6. ASSUME NEW e, EventOK(e) PROVE EventOK(e)'
    <2> SUFFICES ASSUME e.type = "Packet" PROVE EventOK(e)'
      BY DEF EventOK
    <2> DEFINE g == packets[e.id].source_type
    <2>1. e.id \in DOMAIN packets /\ g \in Feeds
      <3>1. e.id \in DOMAIN packets
        BY <1>6 DEF EventOK
      <3> QED
        BY <3>1, PacketTypes
    <2>2. CASE g = f
      BY <1>1, <1>6, <2>1, <2>2 DEF EventOK, HasRow
    <2>3. CASE g # f
      <3>1. task'[g] = task[g]
        BY <1>1, <2>1, <2>3
      <3>2. Busy(g)' /\ Underway(g)' => Busy(g) /\ "packet" \notin task[g].todo
        BY <3>1 DEF Busy, Underway
      <3>3. Busy(g) /\ "packet" \notin task[g].todo => Underway(g)
        BY <2>1, AtUnderway DEF TaskOK, Fresh, Program
      <3> QED
        BY <1>6, <2>1, <3>1, <3>2, <3>3 DEF EventOK, HasRow
    <2> QED
      BY <2>2, <2>3
  <1> QED
    BY <1>2, <1>4, <1>5, <1>6

\* A step that takes a task to a new packet, or to none.
LEMMA RenewedOK ==
    ASSUME IngestInv, NEW f \in Feeds, NEW t,
           task' = [task EXCEPT ![f] = t], t = NoTask \/ \E k \in Kinds : t = Task(Program(k), k, 0),
           packets' = packets, Rows' = Rows
    PROVE  /\ task' \in [Feeds -> [todo : SUBSET Statement, kind : Kinds \cup {{}}, id : Nat]]
           /\ \A g \in Feeds : TaskOK(g)'
           /\ \A e : EventOK(e) => EventOK(e)'
  <1> USE DEF IngestInv, IngestTypeOK
  <1>1. t \in [todo : SUBSET Statement, kind : Kinds \cup {{}}, id : Nat]
    BY ProgramInOrder DEF Task, NoTask
  <1>2. task' \in [Feeds -> [todo : SUBSET Statement, kind : Kinds \cup {{}}, id : Nat]]
    BY <1>1
  <1>3. TaskOK(f)' /\ ~(Busy(f)' /\ Underway(f)')
    BY DEF TaskOK, Busy, Fresh, Underway, Task, NoTask, Program
  <1>4. ASSUME NEW g \in Feeds, g # f
        PROVE  TaskOK(g)' /\ task'[g] = task[g]
    BY <1>4 DEF TaskOK, Busy, Fresh, Underway, HasRow
  <1>5. ASSUME NEW e, EventOK(e) PROVE EventOK(e)'
    <2> SUFFICES ASSUME e.type = "Packet" PROVE EventOK(e)'
      BY DEF EventOK
    <2>1. e.id \in DOMAIN packets
      BY <1>5 DEF EventOK
    <2>2. PICK g \in Feeds : g = packets[e.id].source_type
      BY <2>1, PacketTypes
    <2>3. /\ \A u \in packets[e.id].kind \cap Histories : HasRow(u, e.id)
          /\ Busy(g) /\ Underway(g) => e.id < task[g].id
      BY <1>5, <2>2 DEF EventOK
    <2>4. Busy(g)' /\ Underway(g)' => e.id < task'[g].id
      <3>1. CASE g = f
        BY <1>3, <3>1
      <3>2. CASE g # f
        <4>1. task'[g] = task[g]
          BY <1>4, <3>2
        <4>2. (Busy(g)' <=> Busy(g)) /\ (Underway(g)' <=> Underway(g))
          <5>1. \A u : HasRow(u, task[g].id)' <=> HasRow(u, task[g].id)
            BY <4>1 DEF HasRow
          <5> QED
            BY <4>1, <5>1 DEF Busy, Underway
        <4> QED
          BY <2>3, <4>1, <4>2
      <3> QED
        BY <3>1, <3>2
    <2>5. \A u \in packets[e.id].kind \cap Histories : HasRow(u, e.id)'
      BY <2>3 DEF HasRow
    <2> QED
      BY <2>1, <2>2, <2>4, <2>5 DEF EventOK
  <1> QED
    BY <1>2, <1>3, <1>4, <1>5

LEMMA InsertOK ==
    ASSUME IngestInv, NEW f \in Feeds, InsertPacket(f)
    PROVE  IngestInv' /\ Log!Store
  <1> USE DEF IngestInv, IngestTypeOK
  <1> DEFINE p == [source_type |-> f, kind |-> task[f].kind]
  <1>1. /\ task' = [task EXCEPT ![f] = [todo |-> task[f].todo \ {"packet"},
                                        kind |-> task[f].kind, id |-> Len(packets) + 1]]
        /\ packets' = Append(packets, p) /\ UNCHANGED <<station, sent>> /\ Rows' = Rows
        /\ "packet" \in task[f].todo
    BY DEF InsertPacket, At, Task, Rows
  <1>2. /\ Len(packets') = Len(packets) + 1 /\ DOMAIN packets' = 1 .. Len(packets) + 1
        /\ packets'[Len(packets) + 1] = p
        /\ \A i \in DOMAIN packets : i \in 1 .. Len(packets) /\ packets'[i] = packets[i]
        /\ packets' \in Seq([source_type : Feeds, kind : Kinds \cup {{}}])
    BY <1>1
  <1>3. IngestTypeOK'
    BY <1>1, <1>2
  <1>4. Busy(f) /\ Fresh(f) /\ "publish" \in task[f].todo
    BY <1>1 DEF TaskOK, Busy, Underway
  <1>5. TaskOK(f)'
    <2>1. /\ task'[f].id = Len(packets) + 1 /\ task'[f].kind = task[f].kind
          /\ task'[f].todo = task[f].todo \ {"packet"}
      BY <1>1
    <2>2. task[f].kind \cap Histories \subseteq task'[f].todo
      BY <2>1, <1>4 DEF Fresh, Program, Histories
    <2>3. Underway(f)'
      BY <1>2, <2>1, <2>2 DEF Underway
    <2> QED
      BY <1>4, <2>1, <2>3 DEF TaskOK
  <1>6. ASSUME NEW g \in Feeds, g # f
        PROVE  TaskOK(g)' /\ (Busy(g)' /\ Underway(g)' => Busy(g) /\ Underway(g)) /\ task'[g] = task[g]
    <2>1. task'[g] = task[g] /\ (Busy(g)' <=> Busy(g)) /\ (Fresh(g)' <=> Fresh(g))
      BY <1>1, <1>6 DEF Busy, Fresh
    <2>2. Underway(g) => Underway(g)'
      BY <1>1, <1>2, <2>1 DEF Underway, HasRow
    <2>3. Fresh(g) => "packet" \in task[g].todo
      BY DEF Fresh, Program
    <2> QED
      BY <2>1, <2>2, <2>3 DEF TaskOK, Underway
  <1>7. ASSUME NEW e, EventOK(e), e.type = "Packet" PROVE EventOK(e)'
    <2>1. e.id \in DOMAIN packets
      BY <1>7 DEF EventOK
    <2>2. PICK g \in Feeds : g = packets[e.id].source_type
      BY <2>1, PacketTypes
    <2>3. e.id \in 1 .. Len(packets) /\ packets'[e.id] = packets[e.id]
      BY <1>2, <2>1
    <2>4. Busy(g)' /\ Underway(g)' => e.id < task'[g].id
      <3>1. CASE g = f
        <4>1. task'[g].id = Len(packets) + 1
          BY <1>1, <3>1
        <4> QED
          BY <4>1, <2>3
      <3>2. CASE g # f
        <4>1. Busy(g) /\ Underway(g) => e.id < task[g].id
          BY <1>7, <2>2 DEF EventOK
        <4> QED
          BY <1>6, <3>2, <4>1
      <3> QED
        BY <3>1, <3>2
    <2> QED
      BY <1>1, <1>2, <1>7, <2>2, <2>3, <2>4 DEF EventOK, HasRow
  <1>8. \A i \in DOMAIN sent' : EventOK(sent[i])'
    <2> SUFFICES ASSUME NEW i \in DOMAIN sent' PROVE EventOK(sent[i])'
      OBVIOUS
    <2>1. PICK e : e = sent[i] /\ EventOK(e) /\ e = sent'[i]
      BY <1>1
    <2>2. EventOK(e)'
      BY <1>7, <2>1 DEF EventOK
    <2> QED
      BY <2>1, <2>2
  <1>9. PublishedOnceInOrder'
    <2> SUFFICES ASSUME NEW i \in DOMAIN sent, NEW j \in DOMAIN sent, i < j,
                        sent[i].type = "Packet", sent[j].type = "Packet",
                        packets'[sent[i].id].source_type = packets'[sent[j].id].source_type
                 PROVE  sent[i].id < sent[j].id
      BY <1>1 DEF PublishedOnceInOrder
    <2>1. EventOK(sent[i]) /\ EventOK(sent[j])
      OBVIOUS
    <2>2. sent[i].id \in DOMAIN packets /\ sent[j].id \in DOMAIN packets
      BY <2>1 DEF EventOK
    <2> QED
      BY <1>2, <2>2 DEF PublishedOnceInOrder
  <1> QED
    BY <1>1, <1>2, <1>3, <1>5, <1>6, <1>8, <1>9 DEF Log!Store

LEMMA PublishOK ==
    ASSUME IngestInv, NEW f \in Feeds, Publish(f)
    PROVE  /\ IngestInv'
           /\ \E id \in 1 .. Len(packets) : Log!Publish(id)
  <1> USE DEF IngestInv, IngestTypeOK
  <1>1. Busy(f) /\ Underway(f)
    BY AtUnderway DEF Publish, Statement, Order
  <1>2. PICK id \in DOMAIN packets :
          /\ id = task[f].id /\ packets[id] = [source_type |-> f, kind |-> task[f].kind]
          /\ \A t \in task[f].kind \cap Histories : t \in task[f].todo \/ HasRow(t, id)
    BY <1>1 DEF Underway
  <1>3. id \in 1 .. Len(packets) /\ id \in Nat
    OBVIOUS
  <1>4. PICK x \in Log!Event : x = Log!Packet(id) /\ x.type = "Packet" /\ x.id = id
    <2>1. Log!Packet(id) = [type |-> "Packet", id |-> id]
      BY DEF Log!Packet
    <2>2. Log!Packet(id) \in Log!Event
      BY <1>3, <2>1 DEF Log!Event
    <2> QED
      BY <2>1, <2>2
  <1>5. /\ sent' = Append(sent, x) /\ Past(f, {"publish"})
        /\ UNCHANGED <<packets, station>> /\ Rows' = Rows
    BY <1>2, <1>4 DEF Publish, Rows
  <1>6. /\ Len(sent') = Len(sent) + 1 /\ DOMAIN sent' = DOMAIN sent \cup {Len(sent) + 1}
        /\ \A i \in DOMAIN sent : i \in 1 .. Len(sent) /\ sent'[i] = sent[i]
        /\ sent'[Len(sent) + 1] = x /\ sent' \in Seq(Log!Event)
    BY <1>4, <1>5
  <1>7. task[f].todo \subseteq {"publish"}
    <2>1. \A r \in Statement : Order["publish"] <= Order[r] => r = "publish"
      BY DEF Statement, Order
    <2>2. task[f].todo \subseteq Statement
      OBVIOUS
    <2> QED
      BY <2>1, <2>2 DEF Publish, At
  <1>8. /\ task' \in [Feeds -> [todo : SUBSET Statement, kind : Kinds \cup {{}}, id : Nat]]
        /\ \A g \in Feeds : TaskOK(g)'
        /\ \A e : EventOK(e) => EventOK(e)'
    BY <1>1, <1>5, <1>7, PastOK DEF Statement, Order, Histories
  <1>9. \A i \in DOMAIN sent : EventOK(sent[i])
    OBVIOUS
  <1>10. ASSUME NEW i \in DOMAIN sent, sent[i].type = "Packet",
                packets[sent[i].id].source_type = f
         PROVE  sent[i].id < id
    BY <1>1, <1>2, <1>9, <1>10 DEF EventOK
  <1>11. EventOK(x)'
    <2>1. ~Busy(f)'
      BY <1>5, <1>7 DEF Past, Task, Busy
    <2>2. \A t \in packets[id].kind \cap Histories : HasRow(t, id)
      BY <1>2, <1>7 DEF Histories
    <2> QED
      BY <1>2, <1>4, <1>5, <2>1, <2>2 DEF EventOK, HasRow
  <1>12. \A i \in DOMAIN sent' : EventOK(sent[i])'
    <2> SUFFICES ASSUME NEW i \in DOMAIN sent' PROVE EventOK(sent[i])'
      OBVIOUS
    <2>1. PICK e : e = sent'[i]
      OBVIOUS
    <2>2. EventOK(e)'
      BY <1>6, <1>8, <1>9, <1>11, <2>1
    <2> QED
      BY <2>1, <2>2
  <1>13. PublishedOnceInOrder'
    <2> SUFFICES ASSUME NEW i \in DOMAIN sent', NEW j \in DOMAIN sent', i < j,
                        sent'[i].type = "Packet", sent'[j].type = "Packet",
                        packets[sent'[i].id].source_type = packets[sent'[j].id].source_type
                 PROVE  sent'[i].id < sent'[j].id
      BY <1>5 DEF PublishedOnceInOrder
    <2>1. i \in DOMAIN sent
      BY <1>6
    <2>2. CASE j \in DOMAIN sent
      BY <1>6, <2>1, <2>2 DEF PublishedOnceInOrder
    <2>3. CASE j = Len(sent) + 1
      <3>1. sent'[i] = sent[i] /\ sent'[j] = x
        BY <1>6, <2>1, <2>3
      <3>2. sent[i].type = "Packet" /\ packets[sent[i].id].source_type = f
        BY <1>2, <1>4, <3>1
      <3>3. sent[i].id < id
        BY <1>10, <2>1, <3>2
      <3> QED
        BY <1>4, <3>1, <3>3
    <2> QED
      BY <1>6, <2>2, <2>3
  <1>14. Log!Publish(id)
    <2>1. ASSUME NEW k \in DOMAIN sent, sent[k] = x PROVE FALSE
      <3>1. sent[k].type = "Packet" /\ sent[k].id = id /\ packets[id].source_type = f
        BY <1>2, <1>4, <2>1
      <3>2. id < id
        BY <1>10, <3>1
      <3> QED
        BY <1>3, <3>2
    <2> QED
      BY <1>4, <1>5, <2>1 DEF Log!Publish, Log!Published
  <1>15. IngestTypeOK'
    BY <1>5, <1>6, <1>8
  <1> QED
    BY <1>3, <1>8, <1>12, <1>13, <1>14, <1>15

\* A step that stores no packet and sends none.
LEMMA SilentOK ==
    ASSUME IngestInv, UNCHANGED <<packets, sent>>, station' \in BOOLEAN,
           Rows' \subseteq [table : Histories \cup {"path"}, id : Nat],
           task' \in [Feeds -> [todo : SUBSET Statement, kind : Kinds \cup {{}}, id : Nat]],
           \A g \in Feeds : TaskOK(g)',
           \A e : EventOK(e) => EventOK(e)'
    PROVE  IngestInv' /\ UNCHANGED Log!logVars
  <1>1. IngestTypeOK'
    BY DEF IngestInv, IngestTypeOK
  <1>2. \A i \in DOMAIN sent' : EventOK(sent[i])'
    <2> SUFFICES ASSUME NEW i \in DOMAIN sent' PROVE EventOK(sent[i])'
      OBVIOUS
    <2>1. PICK e : e = sent[i] /\ EventOK(e)
      BY DEF IngestInv
    <2> QED
      BY <2>1
  <1>3. PublishedOnceInOrder'
    BY DEF IngestInv, PublishedOnceInOrder
  <1> QED
    BY <1>1, <1>2, <1>3 DEF IngestInv, Log!logVars

LEMMA AnnounceOK ==
    ASSUME IngestInv, NEW f \in Feeds, Announce(f)
    PROVE  IngestInv' /\ Log!Update
  <1> USE DEF IngestInv, IngestTypeOK
  <1>1. PICK x \in Log!Event : x = Log!StationUpdate /\ x.type = "StationUpdate"
    <2>1. Log!StationUpdate = [type |-> "StationUpdate", id |-> 0]
      BY DEF Log!StationUpdate
    <2>2. Log!StationUpdate \in Log!Event
      BY <2>1 DEF Log!Event
    <2> QED
      BY <2>1, <2>2
  <1>2. /\ sent' = Append(sent, x) /\ Past(f, {"announce"})
        /\ UNCHANGED <<packets, station>> /\ Rows' = Rows
    BY <1>1 DEF Announce, Rows
  <1>3. Busy(f) /\ Underway(f)
    BY AtUnderway DEF Announce, Statement, Order
  <1>4. /\ task' \in [Feeds -> [todo : SUBSET Statement, kind : Kinds \cup {{}}, id : Nat]]
        /\ \A g \in Feeds : TaskOK(g)'
        /\ \A e : EventOK(e) => EventOK(e)'
    BY <1>2, <1>3, PastOK DEF Statement, Order, Histories
  <1>5. /\ DOMAIN sent' = DOMAIN sent \cup {Len(sent) + 1} /\ sent'[Len(sent) + 1] = x
        /\ \A i \in DOMAIN sent : sent'[i] = sent[i]
        /\ sent' \in Seq(Log!Event)
    BY <1>2
  <1>6. EventOK(x)'
    BY <1>1 DEF EventOK
  <1>7. \A i \in DOMAIN sent' : EventOK(sent[i])'
    <2> SUFFICES ASSUME NEW i \in DOMAIN sent' PROVE EventOK(sent[i])'
      OBVIOUS
    <2>1. PICK e : e = sent'[i]
      OBVIOUS
    <2>2. EventOK(e)'
      BY <1>4, <1>5, <1>6, <2>1
    <2> QED
      BY <2>1, <2>2
  <1>8. PublishedOnceInOrder'
    <2> SUFFICES ASSUME NEW i \in DOMAIN sent', NEW j \in DOMAIN sent', i < j,
                        sent'[i].type = "Packet", sent'[j].type = "Packet",
                        packets[sent'[i].id].source_type = packets[sent'[j].id].source_type
                 PROVE  sent'[i].id < sent'[j].id
      BY <1>2 DEF PublishedOnceInOrder
    <2>1. i \in DOMAIN sent /\ j \in DOMAIN sent
      BY <1>1, <1>5
    <2> QED
      BY <1>5, <2>1 DEF PublishedOnceInOrder
  <1>9. Log!Update
    BY <1>1, <1>2 DEF Log!Update
  <1> QED
    BY <1>2, <1>4, <1>5, <1>7, <1>8, <1>9

\* A step that only goes on with the packet, and may add a row.
LEMMA GoesOnOK ==
    ASSUME IngestInv, NEW f \in Feeds, NEW s \in Statement \ {"packet"}, At(f, s),
           NEW done \in SUBSET (Statement \ {"packet", "publish"}), Past(f, done),
           UNCHANGED <<packets, sent>>, station' \in BOOLEAN,
           Rows' \subseteq [table : Histories \cup {"path"}, id : Nat],
           Rows \subseteq Rows',
           \A t \in done \cap Histories : HasRow(t, task[f].id)'
    PROVE  IngestInv' /\ UNCHANGED Log!logVars
  <1>1. Busy(f) /\ Underway(f)
    BY AtUnderway DEF IngestInv
  <1> QED
    BY <1>1, PastOK, SilentOK

\* One step per action.
LEMMA IngestStepOK ==
    ASSUME IngestInv, [IngestNext]_ingestVars
    PROVE  IngestInv' /\ [Log!LogNext]_(Log!logVars)
  <1>1. ASSUME NEW f \in Feeds, NEW k \in Kinds, Receive(f, k)
        PROVE  IngestInv' /\ UNCHANGED Log!logVars
    BY <1>1, RenewedOK, SilentOK DEF Receive, IngestInv, IngestTypeOK, Rows
  <1>2. ASSUME NEW f \in Feeds, InsertPacket(f)
        PROVE  IngestInv' /\ Log!Store
    BY <1>2, InsertOK
  <1>3. ASSUME NEW f \in Feeds, UpsertStation(f)
        PROVE  IngestInv' /\ UNCHANGED Log!logVars
    <2>1. /\ At(f, "station") /\ Past(f, {"station"}) /\ station' \in BOOLEAN
          /\ UNCHANGED <<packets, sent>> /\ Rows' = Rows /\ {"station"} \cap Histories = {}
      BY <1>3 DEF UpsertStation, Histories, Rows
    <2> QED
      BY <2>1, GoesOnOK DEF Statement, Order, IngestInv, IngestTypeOK
  <1>4. ASSUME NEW f \in Feeds, InsertRow(f)
        PROVE  IngestInv' /\ UNCHANGED Log!logVars
    <2>1. PICK t \in Histories \cup {"path"} :
            /\ At(f, t) /\ Past(f, {t}) /\ UNCHANGED <<packets, station, sent>>
            /\ Rows' = Rows \cup {[table |-> t, id |-> task[f].id]}
      BY <1>4 DEF InsertRow, Rows
    <2>2. t \in Statement \ {"packet", "publish"}
      BY DEF Statement, Order, Histories
    <2>3. task[f].id \in Nat /\ station' \in BOOLEAN
      BY <2>1 DEF IngestInv, IngestTypeOK
    <2>4. Rows' \subseteq [table : Histories \cup {"path"}, id : Nat] /\ Rows \subseteq Rows'
      BY <2>1, <2>3 DEF IngestInv, IngestTypeOK
    <2>5. \A r \in {t} \cap Histories : HasRow(r, task[f].id)'
      <3>1. task'[f].id = task[f].id
        BY <2>1 DEF Past, Task, IngestInv, IngestTypeOK
      <3> QED
        BY <2>1, <3>1 DEF HasRow
    <2> QED
      BY <2>1, <2>2, <2>3, <2>4, <2>5, GoesOnOK
  <1>5. ASSUME NEW f \in Feeds, ReadStation(f) \/ Skip(f)
        PROVE  IngestInv' /\ UNCHANGED Log!logVars
    <2>1. PICK s \in {"read", "path"}, done \in {{"read"}, {"read", "announce"}, {"path"}} :
            /\ At(f, s) /\ Past(f, done) /\ UNCHANGED <<packets, station, sent>> /\ Rows' = Rows
      BY <1>5 DEF ReadStation, Skip, Rows
    <2>2. /\ s \in Statement \ {"packet"}
          /\ done \in SUBSET (Statement \ {"packet", "publish"}) /\ done \cap Histories = {}
      BY DEF Statement, Order, Histories
    <2> QED
      BY <2>1, <2>2, GoesOnOK DEF IngestInv, IngestTypeOK
  <1>6. ASSUME NEW f \in Feeds, Announce(f)
        PROVE  IngestInv' /\ Log!Update
    BY <1>6, AnnounceOK
  <1>7. ASSUME NEW f \in Feeds, Publish(f)
        PROVE  IngestInv' /\ \E id \in 1 .. Len(packets) : Log!Publish(id)
    BY <1>7, PublishOK
  <1>8. ASSUME NEW f \in Feeds, Fail(f) \/ Cancel(f)
        PROVE  IngestInv' /\ UNCHANGED Log!logVars
    BY <1>8, RenewedOK, SilentOK DEF Fail, Cancel, GivesUp, IngestInv, IngestTypeOK, Rows
  <1>9. ASSUME Cleanup \/ UNCHANGED ingestVars
        PROVE  IngestInv' /\ UNCHANGED Log!logVars
    <2>1. UNCHANGED <<packets, task, sent>> /\ station' \in BOOLEAN
      BY <1>9 DEF Cleanup, ingestVars, IngestInv, IngestTypeOK
    <2>2. Rows' = Rows
      BY <1>9 DEF Cleanup, ingestVars, Rows
    <2>3. \A g \in Feeds : TaskOK(g)'
      BY <2>1, <2>2 DEF IngestInv, TaskOK, Busy, Fresh, Underway, HasRow
    <2>4. \A e : EventOK(e) => EventOK(e)'
      BY <2>1, <2>2 DEF EventOK, Busy, Underway, HasRow
    <2> QED
      BY <2>1, <2>2, <2>3, <2>4, SilentOK DEF IngestInv, IngestTypeOK
  <1> QED
    BY <1>1, <1>2, <1>3, <1>4, <1>5, <1>6, <1>7, <1>8, <1>9
    DEF IngestNext, Ingest, Execute, Log!LogNext

-----------------------------------------------------------------------------
LEMMA IngestInvariant == IngestSpec => []IngestInv
  <1>1. IngestInv /\ [IngestNext]_ingestVars => IngestInv'
    BY IngestStepOK
  <1> QED
    BY <1>1, IngestInitOK, PTL DEF IngestSpec

\* A packet that browsers are told of is stored completely, for any number of
\* feeds and kinds of packets, whatever fails and wherever a task is dropped.
THEOREM NothingHalfStored == IngestSpec => []PublishedIsStored
  <1>1. IngestInv => PublishedIsStored
    BY DEF IngestInv, EventOK, PublishedIsStored, Stored, HasRow
  <1> QED
    BY <1>1, IngestInvariant, PTL

\* Each packet is announced at most once, each feed's in the order of storage.
THEOREM NothingTwice == IngestSpec => []PublishedOnceInOrder
  BY IngestInvariant, PTL DEF IngestInv

\* Every step of the ingest side is a step of the packet log or none.
THEOREM IngestIsLog == IngestSpec => ImplementsLog
  <1>1. IngestInit => Log!LogInit
    BY DEF IngestInit, Log!LogInit
  <1>2. IngestInv /\ [IngestNext]_ingestVars => [Log!LogNext]_(Log!logVars)
    BY IngestStepOK
  <1> QED
    BY <1>1, <1>2, IngestInvariant, PTL DEF IngestSpec, ImplementsLog, Log!LogSpec

-----------------------------------------------------------------------------
(* ViewerFeeds: the tasks are those of ViewerIngest, and a change of the      *)
(* configuration drops them where they are.                                   *)

\* Every step of the feeds is a step of the ingest side or none, so that what
\* holds of it holds with reconfigurations, lost connections and failed
\* statements.
THEOREM FeedsIngest == Spec => IngestSpec
  <1>1. Init => IngestInit
    BY DEF Init
  <1>2. [Next]_vars => [IngestNext]_ingestVars
    <2> SUFFICES ASSUME [Next]_vars PROVE [IngestNext]_ingestVars
      OBVIOUS
    <2>1. ASSUME NEW r \in Puts, Put(r) PROVE UNCHANGED ingestVars
      BY <2>1 DEF Put
    <2>2. ASSUME NEW f \in Feeds, Supervisor(f) PROVE [IngestNext]_ingestVars
      BY <2>2 DEF Supervisor, ReadConfig, Changed, IngestNext
    <2>3. ASSUME NEW f \in Feeds, Client(f) PROVE [IngestNext]_ingestVars
      BY <2>3 DEF Client, Connected, ConnectFails, LoggedIn, LoginFails, HandlePacket,
                  ConnectionEnds, Pause, IngestNext, Ingest
    <2>4. ASSUME NEW f \in Feeds, KeepaliveEnds(f) PROVE UNCHANGED ingestVars
      BY <2>4 DEF KeepaliveEnds
    <2> QED
      BY <2>1, <2>2, <2>3, <2>4 DEF Next, IngestNext, vars
  <1> QED
    BY <1>1, <1>2, PTL DEF Spec, IngestSpec

\* No task has seen more changes than there were, nor left behind more
\* connections than it has seen changes.
OrphansInv ==
    /\ version \in Nat /\ seen \in [Feeds -> Nat] /\ orphans \in [Feeds -> Nat]
    /\ \A f \in Feeds : orphans[f] <= seen[f] /\ seen[f] <= version

\* For any number of feeds, changes and lost connections, a feed leaves behind
\* one connection for each change of the configuration at most.
THEOREM OrphansBounded == Spec => []OrphansAreFew
  <1>1. Init => OrphansInv
    BY DEF Init, OrphansInv
  <1>2. OrphansInv /\ [Next]_vars => OrphansInv'
    <2> SUFFICES ASSUME OrphansInv, [Next]_vars PROVE OrphansInv'
      OBVIOUS
    <2> USE DEF OrphansInv
    <2>1. ASSUME NEW r \in Puts, Put(r) PROVE OrphansInv'
      BY <2>1 DEF Put, PutSave, PutFails, PutStore, PutNotify, supervisorVars, clientVars
    <2>2. ASSUME NEW f \in Feeds, ReadConfig(f) PROVE OrphansInv'
      BY <2>2 DEF ReadConfig, configVars
    <2>3. ASSUME NEW f \in Feeds, Changed(f) PROVE OrphansInv'
      <3>1. /\ seen' = [seen EXCEPT ![f] = version] /\ version' = version /\ seen[f] # version
            /\ \/ orphans' = [orphans EXCEPT ![f] = orphans[f] + 1]
               \/ orphans' = [orphans EXCEPT ![f] = orphans[f] + 0]
        BY <2>3 DEF Changed, LeavesKeepalive, configVars
      <3>2. seen[f] < version
        BY <3>1
      <3> QED
        BY <3>1, <3>2
    <2>4. ASSUME NEW f \in Feeds, Client(f) PROVE OrphansInv'
      BY <2>4 DEF Client, Connected, ConnectFails, LoggedIn, LoginFails, HandlePacket,
                  ConnectionEnds, AbortsKeepalive, Pause, configVars, supervisorVars, clientVars
    <2>5. ASSUME NEW f \in Feeds, KeepaliveEnds(f) PROVE OrphansInv'
      BY <2>5 DEF KeepaliveEnds, configVars, supervisorVars
    <2>6. ASSUME UNCHANGED <<configVars, supervisorVars, clientVars>> PROVE OrphansInv'
      BY <2>6 DEF configVars, supervisorVars, clientVars
    <2> QED
      BY <2>1, <2>2, <2>3, <2>4, <2>5, <2>6 DEF Next, Supervisor, vars
  <1>3. OrphansInv => OrphansAreFew
    BY DEF OrphansInv, OrphansAreFew
  <1> QED
    BY <1>1, <1>2, <1>3, PTL DEF Spec

\* As long as PUTs do not overlap, at most one is being handled; the file is
\* one step ahead of the memory.
Handled(r) == put[r].st \in {"saved", "stored"}
ConfigInv ==
    /\ DOMAIN put = Puts
    /\ ~overlapped =>
         /\ \A q, r \in Puts : Handled(q) /\ Handled(r) => q = r
         /\ \A r \in Puts : /\ PutAt(r, "saved") => file = put[r].config
                            /\ PutAt(r, "stored") => file = memory
         /\ (\A r \in Puts : ~Handled(r)) => file = memory

\* For any number of PUTs and configurations.
THEOREM FileFollows == Spec => []FileIsMemory
  <1>1. Init => ConfigInv
    BY DEF Init, ConfigInv, Handled, PutAt
  <1>2. ConfigInv /\ [Next]_vars => ConfigInv'
    <2> SUFFICES ASSUME ConfigInv, [Next]_vars PROVE ConfigInv'
      OBVIOUS
    <2> USE DEF ConfigInv, Handled, PutAt
    <2>1. ASSUME NEW r \in Puts, NEW c \in Configs, PutSave(r, c) PROVE ConfigInv'
      <3>1. /\ put' = [put EXCEPT ![r] = [st |-> "saved", config |-> c]] /\ file' = c
            /\ overlapped' = (overlapped \/ \E q \in Puts : put[q].st \in {"saved", "stored"})
        BY <2>1 DEF PutSave
      <3> SUFFICES ASSUME ~overlapped' PROVE ConfigInv'
        BY <3>1
      <3>2. \A q \in Puts : ~Handled(q)
        BY <3>1
      <3> QED
        BY <3>1, <3>2
    <2>2. ASSUME NEW r \in Puts, PutFails(r) PROVE ConfigInv'
      BY <2>2 DEF PutFails, PutGoes
    <2>3. ASSUME NEW r \in Puts, PutStore(r) PROVE ConfigInv'
      BY <2>3 DEF PutStore, PutGoes
    <2>4. ASSUME NEW r \in Puts, PutNotify(r) PROVE ConfigInv'
      BY <2>4 DEF PutNotify, PutGoes
    <2>5. ASSUME UNCHANGED configVars PROVE ConfigInv'
      BY <2>5 DEF configVars
    <2> QED
      BY <2>1, <2>2, <2>3, <2>4, <2>5
      DEF Next, Put, Supervisor, ReadConfig, Changed, Client, KeepaliveEnds, vars
  <1>3. ConfigInv => FileIsMemory
    BY DEF ConfigInv, FileIsMemory, PutsDone, Handled, PutAt
  <1> QED
    BY <1>1, <1>2, <1>3, PTL DEF Spec
===============================================================================
