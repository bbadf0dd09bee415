----------------------------- MODULE ViewerIngest -----------------------------
(***************************************************************************)
(* How the APRS viewer takes a packet in: aprs-viewer/src/server/ingest.rs *)
(* (process_raw_frame) over server/db.rs.                                  *)
(*                                                                         *)
(* Each feed (the TNC, APRS-IS) has one task, which takes its packets one  *)
(* after the other.  A packet is a number of SQL statements, each of them  *)
(* atomic and each an await, with no transaction around them; then it is   *)
(* sent to the browsers through a broadcast channel.  The statements of    *)
(* the two feeds interleave, any of them can fail, and a feed's task can   *)
(* be dropped at any await: the supervisor does so when the configuration  *)
(* changes (ViewerFeeds).                                                  *)
(*                                                                         *)
(* One station stands for all: the packets are about it.                   *)
(***************************************************************************)
EXTENDS Integers, Sequences, FiniteSets

CONSTANTS
    Feeds,         \* the tasks that call process_raw_frame
    Kinds,         \* the packets: what each one asks to be stored
    MaxPackets,    \* bound: packets stored
    MaxCleaned     \* bound: rows deleted for their age

\* A packet that parses as APRS concerns a station; only then can it hold a
\* weather report, a position or a message.  Any packet can have a path.
Histories == {"weather", "position", "message"}

ASSUME IngestAssumption ==
    /\ \A k \in Kinds : k \subseteq Histories \cup {"aprs", "path"}
    /\ \A k \in Kinds : k \cap Histories # {} => "aprs" \in k
    /\ MaxPackets \in Nat /\ MaxCleaned \in Nat

VARIABLES
    packets,       \* the table of packets, by id
    station,       \* the station has a row
    extra,         \* the rows of the other tables: which, of which packet
    cleaned,       \* history: those that were deleted for their age
    task,          \* each feed's task: what it has left to do
    sent           \* the events sent to the broadcast channel so far

ingestVars == <<packets, station, extra, cleaned, task, sent>>

\* The statements of process_raw_frame, in their order.
Order == [packet |-> 1, station |-> 2, weather |-> 3, position |-> 4, read |-> 5,
          announce |-> 6, message |-> 7, path |-> 8, publish |-> 9]
Statement == DOMAIN Order

\* The ones for a packet.
Program(kind) ==
    {"packet", "publish"} \cup (kind \cap (Histories \cup {"path"}))
      \cup (IF "aprs" \in kind THEN {"station", "read", "announce"} ELSE {})

Task(todo, kind, id) == [todo |-> todo, kind |-> kind, id |-> id]
NoTask == Task({}, {}, 0)

\* The events of PacketLog, which this module implements.
Log == INSTANCE PacketLog WITH stored <- Len(packets)

IngestInit ==
    /\ packets = << >> /\ station = FALSE /\ extra = {} /\ cleaned = {}
    /\ task = [f \in Feeds |-> NoTask]
    /\ sent = << >>

-----------------------------------------------------------------------------
Busy(f) == task[f].todo # {}
At(f, s) == s \in task[f].todo /\ \A r \in task[f].todo : Order[s] <= Order[r]
Past(f, done) == task' = [task EXCEPT ![f] = Task(@.todo \ done, @.kind, @.id)]

\* A frame that is a UI frame; any other is ignored.
Receive(f, kind) ==
    /\ ~Busy(f)
    /\ Len(packets) + Cardinality({g \in Feeds : At(g, "packet")}) < MaxPackets
    /\ task' = [task EXCEPT ![f] = Task(Program(kind), kind, 0)]
    /\ UNCHANGED <<packets, station, extra, cleaned, sent>>

\* insert_packet, which answers the new row's id.
InsertPacket(f) ==
    /\ At(f, "packet")
    /\ packets' = Append(packets, [source_type |-> f, kind |-> task[f].kind])
    /\ task' = [task EXCEPT ![f] = Task(@.todo \ {"packet"}, @.kind, Len(packets) + 1)]
    /\ UNCHANGED <<station, extra, cleaned, sent>>

\* upsert_station
UpsertStation(f) ==
    /\ At(f, "station")
    /\ station' = TRUE
    /\ Past(f, {"station"})
    /\ UNCHANGED <<packets, extra, cleaned, sent>>

\* insert_weather_history, insert_position_history, insert_message, and the
\* links of extract_and_store_rf_links.
InsertRow(f) ==
    \E t \in Histories \cup {"path"} :
        /\ At(f, t)
        /\ extra' = extra \cup {[table |-> t, id |-> task[f].id]}
        /\ Past(f, {t})
        /\ UNCHANGED <<packets, station, cleaned, sent>>

\* get_station_by_callsign; without a row nothing is announced.
ReadStation(f) ==
    /\ At(f, "read")
    /\ Past(f, IF station THEN {"read"} ELSE {"read", "announce"})
    /\ UNCHANGED <<packets, station, extra, cleaned, sent>>

\* The two sends.  The channel takes any number; what the receivers make of it
\* is their affair.
Announce(f) ==
    /\ At(f, "announce")
    /\ sent' = Append(sent, Log!StationUpdate)
    /\ Past(f, {"announce"})
    /\ UNCHANGED <<packets, station, extra, cleaned>>

\* (Faulty variant of the second: may send again.)
PublishAgain(f) ==
    /\ At(f, "publish")
    /\ sent' = Append(sent, Log!Packet(task[f].id))
    /\ Past(f, {"publish"}) \/ UNCHANGED task
    /\ UNCHANGED <<packets, station, extra, cleaned>>
Publish(f) ==
    /\ At(f, "publish")
    /\ sent' = Append(sent, Log!Packet(task[f].id))
    /\ Past(f, {"publish"})
    /\ UNCHANGED <<packets, station, extra, cleaned>>

\* A statement that fails ends the packet, by `?', ...  (Faulty variant: the
\* error is only logged.)
LogsOn(f, s) == Past(f, {s})
GivesUp(f, s) == task' = [task EXCEPT ![f] = NoTask]
Fail(f) ==
    /\ \E s \in Histories \cup {"packet", "station"} : At(f, s) /\ GivesUp(f, s)
    /\ UNCHANGED <<packets, station, extra, cleaned, sent>>

\* ... except that a failed read skips the announcement, and failed links are
\* skipped too.
Skip(f) ==
    /\ \/ At(f, "path") /\ Past(f, {"path"})
       \/ At(f, "read") /\ Past(f, {"read", "announce"})
    /\ UNCHANGED <<packets, station, extra, cleaned, sent>>

Cancel(f) ==
    /\ Busy(f)
    /\ task' = [task EXCEPT ![f] = NoTask]
    /\ UNCHANGED <<packets, station, extra, cleaned, sent>>

\* Every ten minutes the server deletes what is older than some hours: the
\* station, or rows of one of three tables, each with a statement of its own.
\* Packets and messages are kept.
Aging == {"position", "weather", "path"}
Cleanup ==
    /\ \/ station /\ station' = FALSE /\ UNCHANGED <<extra, cleaned>>
       \/ \E t \in Aging : \E old \in SUBSET {e \in extra : e.table = t} :
             /\ old # {} /\ Cardinality(cleaned \cup old) <= MaxCleaned
             /\ extra' = extra \ old /\ cleaned' = cleaned \cup old
             /\ UNCHANGED station
    /\ UNCHANGED <<packets, task, sent>>

Execute(f) ==
    \/ InsertPacket(f) \/ UpsertStation(f) \/ InsertRow(f)
    \/ ReadStation(f) \/ Announce(f) \/ Publish(f)

Ingest(f) ==
    \/ \E k \in Kinds : Receive(f, k)
    \/ Execute(f) \/ Fail(f) \/ Skip(f)

IngestNext == Cleanup \/ \E f \in Feeds : Ingest(f) \/ Cancel(f)
IngestSpec == IngestInit /\ [][IngestNext]_ingestVars

-----------------------------------------------------------------------------
\* The rows that were written.
Rows == extra \cup cleaned

IngestTypeOK ==
    /\ packets \in Seq([source_type : Feeds, kind : Kinds \cup {{}}])
    /\ station \in BOOLEAN
    /\ Rows \subseteq [table : Histories \cup {"path"}, id : Nat]
    /\ task \in [Feeds -> [todo : SUBSET Statement, kind : Kinds \cup {{}}, id : Nat]]
    /\ sent \in Seq(Log!Event)

Stored(id, tables) == \A t \in tables : [table |-> t, id |-> id] \in Rows

\* A packet that browsers are told of was stored completely, with all that its
\* kind asks for (of its links only those that could be stored), and nothing of
\* it is missing but what was deleted for its age: whatever fails or is cut short
\* leaves no half-stored packet on the pages.
PublishedIsStored ==
    \A i \in DOMAIN sent :
        sent[i].type = "Packet" =>
            /\ sent[i].id \in DOMAIN packets
            /\ Stored(sent[i].id, packets[sent[i].id].kind \cap Histories)

\* Browsers are told of a packet once, and of each feed's packets in the order
\* in which they were stored, though the two feeds' statements interleave.
PublishedOnceInOrder ==
    \A i, j \in DOMAIN sent :
        (/\ i < j /\ sent[i].type = "Packet" /\ sent[j].type = "Packet"
         /\ packets[sent[i].id].source_type = packets[sent[j].id].source_type)
            => sent[i].id < sent[j].id

\* The browser side's view of all this.
ImplementsLog == Log!LogSpec
=============================================================================
