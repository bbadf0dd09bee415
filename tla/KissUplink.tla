------------------------------ MODULE KissUplink ------------------------------
(***************************************************************************)
(* The way of a KISS frame from a client program to the transmit engine of *)
(* the desktop TNC: desktop/src/kiss_server.rs (the TX path of a client's  *)
(* task), the bounded channel kiss_in, and desktop/src/tx.rs (the loop of  *)
(* TxPipeline::poll, with the one KissDecoder of its engine).              *)
(*                                                                         *)
(* A client writes encoded frames into its TCP stream; its task reads the  *)
(* stream in chunks, cut anywhere, and hands each chunk to the channel or  *)
(* drops it when the channel is full; the main thread feeds the chunks of  *)
(* all clients, as they come, to the decoder.                              *)
(*                                                                         *)
(* Every byte carries its origin (the frame it belongs to), as a history   *)
(* that decides nothing.                                                   *)
(***************************************************************************)
EXTENDS KissDecoder

CONSTANTS
    Clients,
    Frames,         \* [Clients -> sequence of [id, payload]]: what each one sends
    READ_SIZE,      \* most bytes of one read (2048: read_buf)
    CHANNEL_SIZE,   \* chunks kiss_in holds (64)
    Noise,          \* bytes a client may send between two frames
    MaxUpsets       \* bound: losses, noise bytes and broken connections

\* The frames are those of encode_frame's callers: a command byte of port 0,
\* then data.  An id is the frame's alone; 0 is that of noise.
ASSUME UplinkAssumption ==
    /\ IsFiniteSet(Clients) /\ Noise \subseteq 0 .. 255
    /\ Frames \in [Clients -> Seq([id : Nat \ {0}, payload : Seq(0 .. 255)])]
    /\ \A c \in Clients : \A k \in DOMAIN Frames[c] :
         Frames[c][k].payload # << >> /\ ~Special(Frames[c][k].payload[1])
    /\ \A c, d \in Clients : \A k \in DOMAIN Frames[c], l \in DOMAIN Frames[d] :
         Frames[c][k].id = Frames[d][l].id => c = d /\ k = l

VARIABLES
    todo,        \* what each client has still to write, from the current frame on
    walk,        \* how far it is in that frame
    chunk,       \* the bytes its task's current read has returned
    kiss_in,     \* the channel
    data,        \* what is left of the chunk TxPipeline::poll took
    decoder,     \* TncEngine::kiss_decoder
    delivered,   \* history: the frames feed_byte returned
    closed,      \* history: the frames whose last byte was fed to the decoder
    damaged,     \* history: the frames some byte of which was lost
    upsets       \* history: lost chunks, noise bytes, broken connections

streamVars == <<todo, walk, chunk>>
uplinkVars == <<streamVars, kiss_in, data, decoder, delivered, closed, damaged, upsets>>

Origin(f, last) == [id |-> f.id, last |-> last]
NoOrigin == [id |-> 0, last |-> FALSE]
Last(s) == s[Len(s)]
OnLink(b, origin) == [byte |-> b, origin |-> origin]

UplinkInit ==
    /\ todo = Frames
    /\ walk = [c \in Clients |-> Opening]
    /\ chunk = [c \in Clients |-> << >>]
    /\ kiss_in = << >> /\ data = << >>
    /\ decoder = NewDecoder
    /\ delivered = << >> /\ closed = {} /\ damaged = {} /\ upsets = 0

-----------------------------------------------------------------------------
(* A client's stream, as its task's read sees it.  A read in progress may   *)
(* return any number of bytes up to READ_SIZE.                              *)
ReadByte(c, b, origin) ==
    /\ Len(chunk[c]) < READ_SIZE
    /\ chunk' = [chunk EXCEPT ![c] = Append(@, OnLink(b, origin))]

ClientByte(c) ==
    LET f == Head(todo[c])
        w == walk[c]
    IN /\ todo[c] # << >>
       /\ ReadByte(c, NextByte(f.payload, w), Origin(f, w.st = "close"))
       /\ walk' = [walk EXCEPT ![c] = NextWalk(f.payload, w)]
       /\ todo' = IF w.st = "close" THEN [todo EXCEPT ![c] = Tail(@)] ELSE todo
       /\ UNCHANGED <<kiss_in, data, decoder, delivered, closed, damaged, upsets>>

\* Line noise between two frames; a run of it in one read is one upset.
NoiseByte(c, b) ==
    /\ todo[c] # << >> /\ walk[c] = Opening
    /\ ReadByte(c, b, NoOrigin)
    /\ IF chunk[c] # << >> /\ Last(chunk[c]).origin = NoOrigin
       THEN UNCHANGED upsets
       ELSE upsets < MaxUpsets /\ upsets' = upsets + 1
    /\ UNCHANGED <<todo, walk, kiss_in, data, decoder, delivered, closed, damaged>>

\* The client closes its connection inside a frame: its task reads what was
\* written, then ends; a new connection goes on with the next frame.  The
\* decoder learns nothing of it.
Reconnect(c) ==
    /\ upsets < MaxUpsets
    /\ walk[c] # Opening /\ chunk[c] = << >>
    /\ walk' = [walk EXCEPT ![c] = Opening]
    /\ damaged' = damaged \cup {Head(todo[c]).id}
    /\ todo' = [todo EXCEPT ![c] = Tail(@)]
    /\ upsets' = upsets + 1
    /\ UNCHANGED <<chunk, kiss_in, data, decoder, delivered, closed>>

\* kiss_in.try_send: the chunk, or nothing of it.
Forward(c) ==
    /\ chunk[c] # << >>
    /\ Len(kiss_in) < CHANNEL_SIZE
    /\ kiss_in' = Append(kiss_in, chunk[c])
    /\ chunk' = [chunk EXCEPT ![c] = << >>]
    /\ UNCHANGED <<todo, walk, data, decoder, delivered, closed, damaged, upsets>>

Drop(c) ==
    /\ chunk[c] # << >>
    /\ Len(kiss_in) >= CHANNEL_SIZE
    /\ upsets < MaxUpsets
    /\ damaged' = damaged \cup {chunk[c][k].origin.id : k \in DOMAIN chunk[c]}
    /\ chunk' = [chunk EXCEPT ![c] = << >>]
    /\ upsets' = upsets + 1
    /\ UNCHANGED <<todo, walk, kiss_in, data, decoder, delivered, closed>>

-----------------------------------------------------------------------------
(* TxPipeline::poll on the main thread. *)
TakeChunk ==
    /\ data = << >> /\ kiss_in # << >>
    /\ data' = Head(kiss_in)
    /\ kiss_in' = Tail(kiss_in)
    /\ UNCHANGED <<streamVars, decoder, delivered, closed, damaged, upsets>>

FeedByte ==
    LET x == Head(data)
    IN /\ data # << >>
       /\ data' = Tail(data)
       /\ decoder' = feed_byte(decoder, x)
       /\ delivered' = IF Completes(decoder, x)
                       THEN Append(delivered, FrameOf(decoder)) ELSE delivered
       /\ closed' = IF x.origin.last THEN closed \cup {x.origin.id} ELSE closed
       /\ UNCHANGED <<streamVars, kiss_in, damaged, upsets>>

UplinkNext ==
    \/ \E c \in Clients :
         \/ ClientByte(c) \/ Reconnect(c) \/ Forward(c) \/ Drop(c)
         \/ \E b \in Noise : NoiseByte(c, b)
    \/ TakeChunk \/ FeedByte

UplinkSpec == UplinkInit /\ [][UplinkNext]_uplinkVars

-----------------------------------------------------------------------------
AllFrames == UNION {{Frames[c][k] : k \in DOMAIN Frames[c]} : c \in Clients}
Fits(f) == Len(f.payload) <= BUF_SIZE

\* The bytes of a delivered frame, and where they come from.
Values(d) == [k \in DOMAIN d |-> d[k].byte]
Sources(d) == {d[k].origin.id : k \in DOMAIN d}

\* Frame f was delivered whole, from its own bytes and no others.
DeliveredWhole(f) ==
    \E k \in DOMAIN delivered :
        Values(delivered[k]) = f.payload /\ Sources(delivered[k]) = {f.id}

Intact == {f \in AllFrames : f.id \in closed /\ f.id \notin damaged}

\* However its bytes are cut into chunks and whatever it escapes, a stream of
\* one client that nothing upsets comes out as the frames that went in: all of
\* them that fit, each at its place, and nothing else.
LosslessIsExact ==
    (upsets = 0 /\ Cardinality(Clients) = 1) =>
        \A c \in Clients :
            LET passed == {k \in DOMAIN Frames[c] :
                             Frames[c][k].id \in closed /\ Fits(Frames[c][k])}
                place(k) == Cardinality({l \in passed : l <= k})
            IN /\ Len(delivered) = Cardinality(passed)
               /\ \A k \in passed : Values(delivered[place(k)]) = Frames[c][k].payload

\* Whatever a lost chunk, a noise byte or a broken connection leaves in the
\* decoder, it costs at most one frame besides the ones it damaged: the
\* decoder falls back into step by itself.
OneFramePerUpset ==
    Cardinality(Clients) = 1 =>
        Cardinality({f \in Intact : Fits(f) /\ ~DeliveredWhole(f)}) <= upsets

\* A frame longer than the decoder's buffer disappears whole: no part of it,
\* nor a splice with what comes before or after, is handed on as a frame.  (With
\* several clients it may: their bytes meet in one decoder.)
TooLongVanishes ==
    Cardinality(Clients) = 1 =>
        \A f \in Intact : ~Fits(f) =>
            \A k \in DOMAIN delivered : f.id \notin Sources(delivered[k])
=============================================================================
