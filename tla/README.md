# packet-radio-rs: a TLA+ model

`packet-radio-rs` is a packet radio terminal node controller (TNC) in Rust: a
`no_std` core that demodulates AFSK and G3RUH audio, decodes AX.25, speaks KISS
to a host and modulates what the host wants sent; a desktop program around it
(terminal UI or headless, KISS over TCP); microcontroller programs; and an APRS
viewer (a web server that collects position reports from KISS and APRS-IS and
shows them in browsers). This directory holds TLA+ modules for the parts whose
difficulty lies in the order of events, the TLC configurations that check them,
and TLAPS proofs.

All paths below are relative to the repository (`core/src/tnc.rs`, ...).
`PROJECT.json` says, definition by definition, which lines a definition models.

## 1. Inventory

| Component | State | Operations | Hard part | What makes it correct |
|---|---|---|---|---|
| TNC engine, transmit (`core/src/tnc.rs`) | `TxQueue` ring, `TxState`, KISS parameters, KISS decoder | `feed_kiss`, `poll_tx` | a state machine advanced one symbol at a time, over buffers of any size, with a wrapping clock, parameters that change under way and a queue that fills | accepted frames are sent once, in order, whole and delimited; PTT on exactly while sending; slot times are waited out; nothing waits for ever |
| TNC engine, receive (`core/src/tnc.rs`) | `KissOutbox` byte ring | `poll_rx`, `read_kiss` | a ring whose full and empty states differ by one byte; writes that must be all or nothing | the bytes read are the encodings of the frames accepted, in order |
| KISS codec (`core/src/kiss/mod.rs`) | buffer, `in_frame`, `escape`, `overflow` | `feed_byte`, `encode_frame` | escapes and frames cut anywhere; resynchronisation; frames that do not fit | decode inverts encode; a loss costs a bounded number of frames |
| KISS TCP server (`desktop/src/kiss_server.rs`) | client count, broadcast of 64 frames, channel `kiss_in` of 64 chunks | accept, read, write, disconnect | one task per client; `select!` over both directions; `try_send` that drops | clients do not disturb each other; counts are given back |
| Transmit pipeline (`desktop/src/tx.rs`) | one engine for all clients | `poll` | an engine whose platform has no clock | what is queued is sent |
| Terminal UI (`desktop/src/tui/*`, `desktop/src/main.rs`) | `ProcessingState`, dialogs, event queue, audio threads with stop signals | keys, async events, ticks, start, reap, quit | three kinds of process, two queues, two ways of noticing that a thread has ended, blocking joins | no thread is lost; stop and quit are heeded; the UI stays alive |
| Headless processing (`desktop/src/headless.rs`, `processing.rs`) | demodulators, a ring of recent hashes | process a buffer | a duplicate window counted in buffers | each transmission is reported once |
| Multi-decoder (`core/src/modem/multi.rs`, `mod.rs`, `frame_output.rs`) | many demodulators, a duplicate ring, a bounded output | process samples | the ring outlives the output it points into; buffers cut transmissions; full outputs | each transmission is delivered once, in its best form |
| AX.25/HDLC framing (`core/src/ax25`) | shift register, frame buffer | feed bit, encode | bit stuffing, noise before a flag, a buffer that also holds the checksum | a frame heard cleanly is decoded exactly, whatever came before |
| 9600 baud line code (`modem/scrambler.rs`, `demod_9600.rs`, `tnc.rs`) | two shift registers, two levels | scramble, descramble, NRZI | a receiver that joins at any time and loses bits | in step after as many clean bits as the register is long |
| FX.25 (`core/src/fx25`) | blocks | encode, decode | Reed-Solomon arithmetic | decode inverts encode |
| Demodulators, modulators (`core/src/modem`) | filters, clocks | numeric | signal processing | statistical |
| APRS and NMEA parsers (`core/src/aprs`) | none | parse | text formats | |
| Viewer: ingest, database (`aprs-viewer/src/server/ingest.rs`, `db.rs`, `cleanup.rs`) | SQLite tables | store a packet, expire | several statements without a transaction, two feeds at once, cancelled at any `await` | browsers hear of what is stored completely, once |
| Viewer: APRS-IS and KISS clients (`aprs_is.rs`, `main.rs`) | connection, backoff, configuration watch | connect, read, reconfigure | futures dropped by `select!`, a detached keepalive task, racing PUTs | the last configuration takes effect; what is left behind is bounded |
| Viewer: WebSocket hub (`ws.rs`) | connection count, broadcast | upgrade, snapshot, forward | check and increment apart; early returns; three tasks per socket; lagging receivers | places are given back; a page shows its list and the feed from then on |
| Shared, reference, FCC crates; bench programs | | | sequential or harnesses | |

How they interact: the host's bytes come through a transport (serial, or TCP
and `kiss_in`) to `feed_kiss`, whose decoder fills `TxQueue`; the platform calls
`poll_tx`, which drains it to the modulator. In the other direction demodulated
frames go to `KissOutbox` (microcontrollers) or to a broadcast channel
(desktop), from which each client's task encodes them. In TUI mode, audio
threads report to the UI through a bounded channel that a task copies into the
UI's queue. In the viewer two supervised clients feed one database, whose packets a
broadcast channel takes to the sockets of the browsers; a PUT of the configuration
makes both supervisors drop their client and begin again.

The `hazards` of `PROJECT.json` list what is hard to test in this code, at its
line, with the properties aimed at it.

## 2. Modules

| Module | Models | Role |
|---|---|---|
| `TxQueue` | `struct TxQueue` | the ring as a value, with its meaning `Contents` |
| `TxService` | | abstract specification: what a TNC promises its host |
| `TncEngine` | `TncEngine::feed_kiss` from a complete command on, `poll_tx` | the detailed state machine; `INSTANCE TxService` with a refinement mapping |
| `KissDecoder` | `KissDecoder::feed_byte`, `encode_frame` | the codec as operators on values |
| `KissOutbox` | `struct KissOutbox` | the byte ring as a value, with its meaning `Waiting` |
| `TncReceive` | `poll_rx`, `read_kiss`, a host's decoder | composes the outbox, `encode_frame` and `KissDecoder` |
| `KissCodec` | `encode_frame` and `feed_byte`, joined by a link | says that decoding undoes encoding |
| `KissUplink` | client tasks, `kiss_in`, `TxPipeline::poll`'s first loop | composes the clients, the channel and one `KissDecoder` |
| `KissServer` | `run_bidirectional`: accepting, counting, the clients' tasks | the server between the broadcast of received frames and the clients' sockets |
| `TuiAudio` | `run_tui`, `App::handle_key` (what concerns the threads), `EventHandler`, `spawn_audio_thread` | UI, event task and audio threads |
| `HdlcDecoder` | `hdlc_encode`, `HdlcDecoder`, `crc16_ccitt` | framing as a walk and a value, bit by bit |
| `HdlcLink` | scrambler, descrambler, NRZI, `Fsk9600ModulateAdapter`, the bit path of `Demod9600Direwolf` | one station heard by another over a channel with noise and turned bits |
| `HostToAir` | `feed_kiss` to `begin_frame_tx`, their data | composes `KissCodec`, the queue of frames and `HdlcLink`: from one host's bytes to another station's frames |
| `DedupRing` | `DedupRing`, `FrameOutputBuffer` | the duplicate ring and the bounded output as values |
| `MultiDecoder` | `MultiDecoder::process_samples` | the decoders, run one after the other over each buffer |
| `PacketLog` | | abstract specification: what the viewer's ingest promises its browsers |
| `ViewerIngest` | `process_raw_frame` over `db.rs` | statement by statement, from both feeds; implements `PacketLog` |
| `ViewerFeeds` | `main.rs` (supervisors, `api_put_config`), `run_aprs_is_client`, `run_kiss_ingest` | composes the supervised clients with `ViewerIngest` |
| `ViewerHub` | `ws.rs`, `app.js` (connection and list) | the sockets and the pages, built on `PacketLog` |
| `TncEngine_proofs`, `TncReceive_proofs`, `KissDecoder_proofs`, `HostToAir_proofs`, `Desktop_proofs`, `ViewerFeeds_proofs`, `ViewerHub_proofs`, `MultiDecoder_proofs` | | theorems |
| `MCTncEngine`, `MCTncReceive`, `MCKissUplink`, `MCHostToAir`, `MCViewerIngest`, `MCViewerFeeds`, `MCMultiDecoder` | | values of the constants |

Definitions marked "Faulty variant" in the modules are mutated forms of the
definition that follows: no specification uses them. They show that each
property can fail.

### TncEngine

One call of `poll_tx` is a `loop` over `match tx_state`. The variable `room` is
the number of samples' symbols the caller's buffer still holds; `PollTx(n)`
starts a call, every arm of the `match` is an action guarded by `room > 0`, and
a `break` is `Return`. Between two iterations the clock and the channel may
change but the host may not interfere (`&mut self`), so `FeedKiss` needs
`room = 0`. What the code does in one iteration is one action: `EndPreamble` and
`EndTail` include `begin_frame_tx`, which dequeues and encodes. A frame's bits
are abstracted to their number (any member of `FrameBits`), a symbol to one
unit of room. `now_ms` is a counter modulo `ClockMod`; `SlotExpired` is the code's
wrapping comparison. `config` changes at any time between calls, while the
number of flags of a preamble or a tail is fixed when it starts
(`flags_total`). `given`, `sent`, `line` and `owed` are histories.

Left out: the truncation of an encoded frame at the 4096 bits of `tx_bits` (a
frame of `MAX_FRAME_LEN` bytes fits), the HDLC and FX.25 encodings, and
modulators that return no samples for a symbol (they make `poll_tx` return at
once).

### KissOutbox, TncReceive

`write` and `read` do in one step what the code does in a loop over bytes: the
cells at a distance less than the length from the tail change, the others stay.
`PollRx(f)` is the callback of `poll_rx` for one frame (and of
`poll_rx_with_handler`, which adds a handler outside the engine); the
demodulator is any sequence of frames. That a read may fall between two frames
found in one call of `poll_rx`, which `&mut self` rules out, only adds
behaviours. `Takes` is the success of `write_kiss_frame`, whose result the code
ignores. `ReadKiss(n)` is `read_kiss` with a buffer of `n` bytes; the bytes go
over a wire that loses nothing to a host that decodes as the repository's own
decoder does. `Encoding` is a constant so that the proofs need nothing of it; the
run gives it the value of `encode_frame`. `accepted`, `stream`, `handed` and
`delivered` are histories.

### KissDecoder, KissCodec, KissUplink

`KissCodec` writes one byte of `encode_frame` and feeds it to the decoder in one
step: whatever holds after every byte holds wherever reads and writes cut the
stream. The code's test of the output buffer's size is not part of it
(`TncReceive!Takes` has it). The command byte is written without an escape, which
for port 12 makes it a FEND; `PayloadAssumption` excludes that, and every caller
encodes port 0.

`feed_byte` is one CASE over the arms of the code's `match`; a byte is a record
whose other fields record where it came from. `KissUplink` lets a client write
byte by byte (`encode_frame` as a walk), its task read any prefix (`ReadByte`
then `Forward` or, if `kiss_in` is full, `Drop`), a connection break inside a
frame (`Reconnect`), and noise appear between frames (`NoiseByte`). All chunks
meet in one channel and one decoder. This is the headless program; in TUI mode
nobody receives from `kiss_in` (`main.rs:90`), so nothing is ever forwarded.

### KissServer

The accepting loop loads the count (`Accept`), compares it and either drops the
connection (`Refuse`) or increments, subscribes and spawns (`Admit`); in between,
tasks that end may decrement (`Leave`). A task is in its `select!`, in
`write_all` with a frame in hand, or past its loop. The broadcast channel is
tokio's: it keeps the newest `BROADCAST_SIZE` frames, and a receiver that comes
too late is told so once and goes on with the oldest (`Lagged`). Frames are their
numbers; a socket holds `SOCKET_SIZE` of them, and a write of one is not split
(`KissCodec` shows that it does not matter where a stream is cut). A read that
ends covers `Ok(0)` and errors, also when bytes were left. Left out: failures of
`bind` and `accept`, which change no state, and the end of the broadcast, which
lives as long as the server does. `ReadUp` here is `ReadByte` followed by
`Forward` or `Drop` in `KissUplink`: this module says when a task comes to read,
that one what becomes of the bytes.

### TuiAudio

The UI loop is `Top` (start request), `Check` (reap by `is_finished`, draw,
leave), then `HandleEvent` or `Wake`; `join` and `lastjoin` are places where the
UI blocks in `JoinHandle::join`. The event task alternates `Drain` and a poll
of the keyboard. An audio thread decodes (`try_send`, may lose the frame), leaves
its loop on stop or at the end of a file, sends `AudioDone` (blocking `send`),
and finishes. `spawn_audio_thread` waits for its thread to open the source, so
starting is one step that succeeds or fails. A tick carries nothing, so instead
of being queued it is the action `Wake`. A "notice" is the error dialog or a
packet's details, which both swallow all keys but Enter and Esc. `Check` may also fail to
draw: then `?` (`tui/mod.rs:862`) leaves `run_tui` without its cleanup (`ui = "failed"`), the
thread's handle is dropped and its stop signal is not set.

### HdlcDecoder, HdlcLink, HostToAir

Data is a sequence of bits in the order of the air. The encoder is a walk (flags,
the data and its checksum with a zero stuffed after five ones, a flag), the
decoder a value fed one bit at a time. `acc` holds `frame_buf`, `frame_len` and the
partial byte of the code as one sequence of bits, which what `feed_bit` does with
them cannot tell apart. The checksum is the code's CRC, bit by bit.

`HdlcLink!SendBit` is a whole bit: NRZI and scrambler of the sender, the channel, which
may turn it over, and `Hear`: descrambler, NRZI and `feed_bit` of the receiver.
Between transmissions the receiver hears `Noise`, any bits. The 9600 baud
demodulator decides once per bit here; its filters, gain control and clock are
outside. `clean` and `intact` are histories: how many bits came undisturbed, and
whether all did since the last flag before the frame and the bits before that in
which the receiver gets into step.

`HostToAir` takes what the KISS decoder delivers to the air: without its command byte and cut to
`MAX_FRAME_LEN` (`Cut`), into a queue of `TX_QUEUE_SIZE` frames (`Enqueue`), out of it when the
flags are sent (`begin_frame_tx`). A frame that finds the queue full is lost without a word, as in
the code (`tnc.rs:577`); `accepted` are the others, and `overrun` says whether the host ever
had more frames waiting than the queue takes. The engine has no lower limit on a frame's length, so
frames too short for a receiver (17 bytes with the checksum, in the code) are sent too, and heard
by nobody. The queue is a sequence here and the engine starts to send whenever it likes; the ring
and the channel access are `TncEngine`'s, with `ImplementsFifo` and `LineWellFormed`.

### DedupRing, MultiDecoder

`check` answers by the first entry of the array that is young enough and either of
the same content or close in time; `New`, `Replace` and `Duplicate` are the three arms of
`process_samples`. A decode is its content (right, or wrong in a way the checksum
did not show), its sample and its cost; decoders run one after the other over a
buffer, so that entries are not in order of time. `SampleIdx` is the count of samples as the
demodulators give it, 32 bits wide (`demod.rs:791`), which the ring compares without regard to the
wrap; what is heard is therefore a transmission in a turn of the count (`Hearing`).

An entry's slot is a place in the output of *its* buffer, and the ring outlives the output.
`Replace` does what the code does: it writes the better frame into the slot of the entry it
matched, in the output of *this* buffer, or nowhere if that slot is not in use, and
gives the cost to the first entry of the ring with that slot, of whichever buffer. The histories say
what came of it: `mixed` are frames that were put in the place of another one, and those others;
`misled` are the transmissions whose improvement went to another entry in this buffer. `found`,
`refused` (not pushed, because the output was full), `first` and `lowest` (the costs of this
buffer's decodes) are what the air and the decoders had. Section 4 tells what the code loses.

### ViewerIngest, PacketLog

A feed's task has a set of statements left, executed in `Order`; each is atomic and
each may fail (`Fail` ends the packet as `?` does, `Skip` is where the code goes on), and
`Cancel` drops the task at any of them. `Cleanup` is one DELETE of the cleanup task, which takes the
station or old rows of one table at any moment, also between a packet's statements; `cleaned`
is the history of those rows. `InsertRow` stands for the weather, position and
message histories and for the links of a packet's path, which are one row here. One
station stands for all, so that packets of two feeds meet in its row. `PacketLog` is
what the other half of the viewer may rely on: ids grow, each packet is announced
once or never, station updates in between. `ViewerHub` EXTENDS it, and `ImplementsLog`
shows that `ViewerIngest` implements it.

### ViewerFeeds

A supervisor reads the configuration (`ReadConfig`), runs or rests, and at a
notification drops its client (`Changed`), in the middle of a packet too
(`ViewerIngest!Cancel`). The APRS-IS client connects, logs in, hands one half of the
connection to a keepalive task and reads; that task is aborted when the connection ends
by itself, but when the client is dropped it goes on and holds the connection
(`orphans`) until one of its writes fails. A login that fails begins again at once,
over the pause. The watch channel is `version` and `seen`: notifications merge. `PutSave`, `PutStore`
and `PutNotify` are the three steps of `api_put_config`, between which another PUT may
come. The pause and `MaxBackoff` are kept though no property is about time.

### ViewerHub

A socket is upgraded after a test of the count (`Upgrade`), counted in its own task
(`Enter`), reads the recent packets, sends them (`Greet`, or `GreetFails`, which returns without
giving the place back), subscribes, and is then two tasks, of which the first to end
gives the place back while the other goes on. A receiver that lags ends the
forwarding task (`LagEnds`: `while let Ok`), yet not the connection. Of the page there
are its socket, its list and the reconnection.

## 3. Runs

Bounds are constants; each is named where it is declared.

| Run | Checks | Bounds, and why they suffice |
|---|---|---|
| `tnc_transmit` | `TypeOK`, `PttMatchesState`, `WaitingHasFrame`, `LineWellFormed`, `NoEarlyRedraw`, `ImplementsFifo`, `ImplementsService`, `TransmissionEnds` | 3 frames for 2 slots (the ring wraps and refuses), longer than the engine stores, so that each is cut, flags and frames of 2 bits, buffers of 3 symbols (they cut flags and frames at every place), a preamble of 3 flags and tails of 1 or 3, draws that win and lose, a clock of two bits with slots of 0, 1 and 2 ticks (half the range is 2), so that it wraps all the time; txtail, slottime and full duplex change at any time |
| `tnc_receive` | `OutboxIsStream`, `HostSeesAccepted`, `AcceptedArrives` | an outbox of 12 bytes, 4 receptions of frames that take 4, 5, 6 and 9 bytes encoded: it fills, refuses and wraps; reads of 1, 3 and 8 bytes cut frames and escapes. No frame is too long for the temporary buffer, as in the code. Nothing can block: checked |
| `host_to_air` | `Lockstep`, `DecodedIsSent`, `InStepOnceClean`, `HostIsHeard`, `HeardExactly` | up to three of five frames, through a queue of one, so that it fills and a frame is lost: all special bytes, runs of ones that need stuffing, a frame too short for the receiver, one the engine cuts and the receiver still finds too long, one too long for the host's link; a scrambler of 3 bits with taps 2 and 3; up to 2 bits of noise before each transmission; one bit turned over anywhere, while the host has begun two frames at most (`FewWhenDisturbed`, a CONSTRAINT: what a turned bit does is up to the link, which does not look at the queue). The theorems hold for the code's 12 and 17. No deadlock check: the frames end |
| `kiss_uplink` | `LosslessIsExact`, `OneFramePerUpset`, `TooLongVanishes` | a buffer of 3 bytes and payloads of 2-4, both escapes and escape codes as data, reads of 1-3 bytes, a channel of one chunk, any 2 upsets (drop, noise with or without FEND, reconnect). No deadlock check: the stream ends |
| `kiss_server` | `PlacesAreServed`, `InOrder`, `NewestArrives`, `ReaderIsHeard`, `PlaceIsGivenBack` | three connections for two places, so that one is refused or takes a place that came free; one client that reads and talks, two that may do neither; 2 frames and a channel of one, so that each receiver may lag; sockets of one frame, so that each write may wait. No deadlock check: when all frames are out and nobody reads, nothing moves |
| `tui_audio` | `NoOrphan`, `QuitIsHeeded`, `StopIsHeeded` | a sound card, then a file; one frame each and a channel of one, so that both a dropped frame and a blocked `AudioDone` happen; 4 keys, enough to start, stop, ask to quit and confirm. No deadlock check: the program exits |
| `viewer_ingest` | `PublishedIsStored`, `PublishedOnceInOrder`, `ImplementsLog` | 3 packets from two feeds (two of one feed, and one in between), of three kinds: only a path, everything, a bare message; any number of failures and cancellations, the station deleted any number of times and one row of the histories (`MaxCleaned`; a second one adds nothing, for the tables are deleted from one by one). No deadlock check: packets end |
| `viewer_hub` | `SlotsAccounted`, `ShowsSnapshotThenFeed`, `SilenceOnlyByLag`, `NewestIsShown`, `SlotIsGivenBack` | one page that may open two sockets for one place (a refusal, a second socket while the first is still counted), two events and a channel of one (lag), a list of one packet and a page of two (both are cut). No deadlock check: the page may be closed for good |
| `viewer_feeds` | `OrphansAreFew`, `FileIsMemory`, `ConfigTakesEffect` | two PUTs that may overlap, with a configuration that switches APRS-IS off, one failure anywhere, one packet, of five statements, none of its rows deleted (`viewer_ingest` has that). No deadlock check: everything may be at rest |
| `dedup` | `ReportedOnce`, `BestIsKept` | four transmissions in buffers of 6 samples, with two edges that cut one, a count that wraps at 13, in the third one, and the fourth with the first one's content at the first one's place in the next turn of the count; two decoders, decodes one sample apart, right or wrong, three costs, an output of two, which three may want. So an output fills, improvements hit the slot of an older entry, and each exception of the properties occurs. The ring holds two full outputs (4 for 2; in the code 64 for 16), so that no entry in use is overwritten. No deadlock check: the air falls silent |
| `tx_only`, `tui_restart` | the findings below | the smallest instance that shows them |

`tui_audio` has one live thread on purpose: with two, `tui_restart` shows that
`StopIsHeeded` and `QuitIsHeeded` fail as well, for the same reason.

### Fairness

`TncEngine!FairSpec`: the platform goes on calling `poll_tx` and a call runs to its
end (a loop over a finite buffer), the clock runs, and a channel looked at
infinitely often is some time found clear on a winning draw (strong fairness:
`r <= persistence` has a chance of at least 1/256 at each look). Without a
clock (`ClockRuns = FALSE`) the clock's fairness is vacuous, as in `tx_only`.
`TncReceive!FairSpec`: the platform's loop goes on reading the outbox and the host what
it is sent; receptions are not fair.
`KissServer!FairSpec`: the runtime polls every task, `select!` picks among ready
branches at random (strong fairness per branch, stated for the clients that send;
for the others the branches cannot starve each other), and the Readers among the
clients go on reading.
`TuiAudio!FairTuiSpec`: threads, tasks and the UI are scheduled; an opened sound card
goes on delivering samples, so the loop comes back to its stop flag; events are
served in order though ticks are also there (strong fairness, because ticks and
events share one first-in first-out queue). Neither the user nor the host is
fair. `ViewerHub!FairSpec`: the runtime polls every task and a page handles the
messages it has got; pages need not connect nor close, and no packet need come. That `Listen`
is fair, on which `SlotIsGivenBack` rests, says that a connection that broke is some time
noticed by the socket's reading half: `ws.rs` sends no pings and has no timeout, so for a peer
that vanished without a word this is up to TCP.
`ViewerFeeds!FairSpec`: supervisors and clients are polled, a PUT once begun is handled to its
end; failures are bounded, so that retries succeed in the end. The other modules have safety
properties only.

## 4. What was found

By runs that expect a violation:

* `tx_only`: the desktop's transmit engine skips the busy test but not the
  persistence draw, and its clock stands still: one lost draw and nothing is
  ever sent.
* `tui_restart`: the thread is reaped by `is_finished` before its `AudioDone`
  event is handled; if 's' starts live audio in between, the late event joins the
  new thread, which nobody has told to stop: the UI hangs.

Behaviour of the code that the models have, and that a reader should know of:

* `core/src/tnc.rs:570` cuts a data frame that is too long, so that `enqueue` never
  "returns false if ... frame is too large" (`tnc.rs:271`): the part is sent with a
  valid checksum (`TncEngine!Cut`).
* Garbage with a FEND in it before a frame costs that frame: its opening FEND closes
  the garbage (`kiss/mod.rs:123`). `docs/TEST_PLAN.md:107` expects "Frame decoded" of
  random bytes before a frame. `OneFramePerUpset` is the bound that holds.
* The chunks of two KISS clients meet in one decoder (`kiss_server.rs:80`): when the
  reads cut their frames, a splice is handed to the engine that neither sent.
* The duplicate ring points into outputs that are gone (`multi.rs:482`). `multi.rs:450` says
  that duplicates are removed, "keeping the lowest-cost decode"; the code does not keep that, in
  three ways:
  - Slots begin at 0 in every buffer, and `update_entry` (`mod.rs:461`) takes the first entry with
    the slot. From the second buffer with a frame on, an improvement within a buffer may give its cost
    to the older entry: decodes of cost 30, 10 and 20 come, the second replaces the first, the new
    entry still says 30, and the third replaces the second. What is left is better than the first
    decode, and no more (`misled` in `BestIsKept`). This takes nothing but two buffers and
    three decoders that get better and worse.
  - A frame that ends just before the edge is handed out, its entry keeps slot 0, another
    transmission is pushed at slot 0 of the next buffer, and a cheaper decode of the first one found
    there replaces it: the second transmission is lost and the first is reported twice (`mixed`).
  - The count of samples is a `u32` (`demod.rs:38`) that is widened only when it is compared
    (`multi.rs:473`). A transmission that ends while it wraps (once in 27 hours at 44100
    samples per second) is reported once in each turn, and one that comes a whole turn after an
    entry still in the ring may be taken for its duplicate (`Shadowed`).
  `ReportedOnce` and `BestIsKept` say that these cost the transmissions named and no other.
* A frame that finds the queue of four full is lost, and the host is not told
  (`tnc.rs:577`): `~overrun` in `HostIsHeard`.
* When drawing on the terminal fails, `run_tui` returns past its cleanup (`tui/mod.rs:862`), with the
  audio thread running and never told to stop, and its handle dropped; it ends with the process, as
  soon as `main.rs:126` has returned the error. `NoOrphan` excepts this end.
* A frame of 329 or 330 bytes passes the transmit side's limit and can never be
  received, because the receiver's 330 bytes include the checksum (`frame.rs:281`), nor
  can one with less than 15, which is sent all the same: `FitsDecoder` in `HeardExactly`.
* Each WebSocket whose first message fails costs one of the fifty places for good
  (`ws.rs:44`, `SlotsAccounted`), more than fifty may be let in (`ws.rs:16`), packets
  between list and subscription are shown by nobody (`ws.rs:49`), and a page that lags stays
  connected and silent (`ws.rs:53`, `SilenceOnlyByLag`).
* Each change of the configuration may leave a connection to the APRS-IS server behind
  (`aprs_is.rs:67`), one at most: `OrphansAreFew`.

## 5. Proofs

`TncEngine_proofs`, from `QueueSizeAssumption`, `EngineAssumption` and
`SlotAssumption`: `TypeCorrect`, `PttCorrect`, `NeverKeysForNothing`,
`SlotRespected`, `EngineIsFifo`, `AirWellFormed` and `TransmissionShrinks` for every number of frames, queue size,
buffer size, clock width and configuration. The invariant is

    IInv == TypeOK /\ PttMatchesState /\ WaitingHasFrame
            /\ NoEarlyRedraw /\ SlotOwed /\ config.slottime \in SlotTimes

`NoEarlyRedraw` alone is not inductive: that a slot is still owed does not say
where its deadline is. `SlotOwed` adds that what is owed is the distance from the
clock to the deadline and at most half of the clock's range, so that the wrapping
comparison must answer "not yet"; the last conjunct bounds the next slot
(`SlotAssumption`: 255 * 10 against 2^31 in the code). `EngineIsFifo` maps each
action to `Accept`, `Transmit` or a stutter of `TxService`, using two lemmas for every queue
size, `EnqueueAppends` and `DequeueTakesHead`: the ring, wherever its head stands, is the
sequence `Contents`. They rest on the number theory of rings, at the head of the module: a
position moves around at most once, and distances modulo the size identify cells.
`WaitingHasFrame` excludes the branch of `begin_frame_tx` that finds the
queue empty.

`AirWellFormed` needs what the log says to agree with the counters of the state machine.
`AirInv` adds, while PTT is on, that the log has a last key-up or frame with only flags after
it, and that their number is `flags_sent` of `flags_total` in `TxDelay` and `TxTail`, all of
them in `Transmitting`; and that from every earlier event the next one is as many flags away
as it asked for (`WellKeyed`). Each of the three ways in which a log goes on (a flag, a frame,
the end) has a lemma (`AppendFlag`, `AppendFrame`, `AppendEnd`), on top of `GoesOn`: what
follows later does not touch an event that is already complete. A change of the configuration
during a transmission cannot break it, because the log and `flags_total` both hold the number
that was set when the flags began.

`KissDecoder_proofs`, from `BufSizeAssumption`, for frames of every length and content: `ByteInStep`
says that a decoder in step with `encode_frame` (`Matches`) is in step after one byte more,
and that the byte after a payload's last hands out the payload or, when it does not fit,
nothing; it has one lemma per kind of byte (opening FEND, plain byte, FESC, the byte
after it, closing FEND). `EncodingIsWalk` says that the bytes `encode_frame` returns are those
of the walk that the codec's specification steps through, one place of the
walk after the other. It is an induction along the frame, and the library's induction
theorems take an operator; lemma `Least` does without: a set of natural numbers with a
member has a least one, so the first place where the two differ would follow
one where they agree.

`TncReceive_proofs`, from `OutboxSizeAssumption`, `ReceiveAssumption` and `EncodingAssumption`,
for every size of the outbox, every set of frames and reads of any size:
`ReceiveTypeCorrect`, `OutboxIsFifo` and `HostGetsFrames`. For the first two any encoding will do
and the invariant is `IInv == TypeOK /\ OutboxIsStream`; the work is in two lemmas about the
ring, `WriteAppends` (when there is room, `Waiting` grows by the data) and `ReadSplits`
(what is handed out and what remains are together what was waiting), which need
that one byte of the ring is never used: with `tail = head` for a full ring as
well, `Used` would be 0. `HostGetsFrames` is what the user sees, `HostSeesAccepted`: the frames
that the host's decoder returns are the first of those that the outbox took, in order. Its
invariant is

    HostInv == IInv /\ WireIsTail /\ HostSeesAccepted /\ delivered \in Seq(Frames)
               /\ \E end : Ends(end) /\ InFrame(end)

`Ends(end)` divides the stream into encodings, whatever the reads do with their edges;
`InFrame(end)` finds the host in the frame after those it was handed, and its decoder in
step with that frame's walk. `EncodingAssumption` says what `poll_rx` encodes (frames of bytes
that fit the host's buffer) and that `Encoding` is `encode_frame`, from where `EncodingIsWalk` and
`ByteInStep` take over.

`Desktop_proofs`, about `KissServer` from `ServerAssumption` (the set of connections is finite), for
any limit and any sizes: `ServerTypeCorrect`, `PlacesCounted` and `FramesInOrder`. The
invariant is

    IInv == TypeOK /\ PlacesAreServed /\ InOrder /\ Admission /\ Hands

`PlacesAreServed` needs `Admission`: a connection under admission is not yet served
nor queued a second time, and since it was loaded the count can only have fallen,
because there is one accepting loop. `InOrder` needs `Hands`: a task that selects
holds no frame, and no receiver is ahead of the broadcast. `TypeOK` itself needs
`PlacesAreServed`, for the count must not be 0 when a task leaves.

`Desktop_proofs`, about `KissUplink` from `BufSizeAssumption` and `UplinkAssumption`, for any frames of
one client, any bytes of noise, any number of upsets, any sizes of the reads, the channel and the
decoder's buffer: `LosslessExact`, `UpsetCostsOne` and `TooLongNeverSeen`. `UplinkAssumption` says that
frames are not empty, that the command byte, which `encode_frame` writes without an escape, is
neither FEND nor FESC (every caller encodes port 0), and that the histories' numbers tell frames apart. The
invariant says that the stream, from the decoder back to the client, is whole but for gaps:

    UplinkInv(c) == StreamTypes(c)
                    /\ \E from, to : StreamInv(c, from, to) /\ DecoderInv(c, from[0])

A position is a place in the client's stream: a frame, how far its walk is, and how many upsets
lie behind it. Each piece of the stream (the rest of the chunk being fed, the chunks in the
channel, the read in progress) leads from one position to another (`Spans`), the last to where the
client is (`WriterAt`). Between two pieces nothing is missing, or an upset lies between them and
every frame in the gap is damaged (`Skips`). So the steps of client, channel and main thread only move
pieces about, and what matters is what the decoder is when it has read up to a position:

    DecoderInv(c, p) == DecoderOK(decoder) /\ delivered \in Seq(Seq(LinkBytes)) /\ upsets \in Nat
                        /\ StepOrSilence(c, p) /\ HoldsDebris(c, p) /\ DeliveredOK(c, p)
                        /\ ClosedBehind(c, p) /\ Paid(c, p) /\ ExactlyPassed(c, p)

`OneFramePerUpset` is not inductive, for an upset and the loss it causes lie apart: `Paid` counts a debt
as soon as the decoder will miss a frame (out of step inside one, or about to take the next
opening FEND for a closing one), and the debt is paid by the upset before it. `StepOrSilence`: inside an
undamaged frame the decoder is in step with it (`Matches`, as in the codec's proof) or outside any
frame, so it never splices; `HoldsDebris` and `DeliveredOK` say whose bytes it holds and has handed on.
`DeliveredOK` gives `TooLongVanishes`, `ExactlyPassed` with `ClosedBehind` gives `LosslessIsExact`. With
several clients `OneFramePerUpset` and `TooLongVanishes` are not true, which is why both, like
`LosslessIsExact`, speak of one.

`Desktop_proofs`, about `TuiAudio` from `TuiAssumption`, for any number of threads, keys and frames
and any size of the channel: `NoThreadLost`, `OneThreadAtATime` and `ExitLeavesNone`. The
invariant is

    TuiInv == TuiTypeOK /\ JoinsOne /\ StartsAlone /\ NoOrphan /\ OneAlive

`NoOrphan` needs both parts. `JoinsOne`: while the UI stops a thread it has taken the handle but
waits for that thread. `StartsAlone`: a start is requested only when there is no handle,
so the handle that `StartAudio` overwrites is of no thread that still lives; without it a
second start would lose the first thread. `OneAlive` is in the invariant and not a consequence,
because after a failed draw `NoOrphan` says nothing; nobody starts a thread then. `ExitLeavesNone` is
about the exit by the user's wish.

`ViewerFeeds_proofs`, from `IngestAssumption` and `FeedsAssumption`, for any feeds, kinds of
packets and number of failures: `NothingHalfStored`, `NothingTwice` and `IngestIsLog` about
`IngestSpec`; `FeedsIngest` (`Spec => IngestSpec`: each step of a supervisor or a client is an
ingest step or leaves the ingest alone) carries them over to the whole; `OrphansBounded` and
`FileFollows` about `Spec`. The invariant of the first three is

    IngestInv == IngestTypeOK /\ (\A f \in Feeds : TaskOK(f))
                 /\ (\A i \in DOMAIN sent : EventOK(sent[i])) /\ PublishedOnceInOrder

`TaskOK`: a task either has its packet still before it or works for a stored packet of its
own feed, and each history the packet asks for is in the database or still among its
statements; so when it publishes they are all there. `EventOK` says the same of what was sent, and
that it is older than what its feed is at, which keeps the order. `ConfigInv` for `FileFollows`: as
long as no two PUTs overlapped at most one is under way, and its step says what file and
memory are.

`HostToAir_proofs` proves the codec, the radio link and the two joined. The codec, from
`BufSizeAssumption` and `PayloadAssumption`, for frames of every length and content and every size
of the decoder's buffer: `CodecTypeCorrect`, `CodecInStep` and `CodecRoundTrip`.
`DecodedIsSent` says nothing about the inside of a frame; `Lockstep` is what makes it inductive:
between two bytes the decoder is outside a frame exactly when the walk is, it holds the part
of the payload already written as far as it fits, it has seen an escape exactly
when the encoder is inside one, and it has overflowed exactly when more was
written than fits. Each step is `ByteInStep`.

The link, from `HdlcAssumption`, `LinkAssumption`, `FrameAssumption` and
`ChecksumAssumption`: `InStep` and `HeardExactlyAlways`, for every register, frame, buffer size
and history of noise and errors. `ChecksumAssumption` is the algebra of the CRC (the
checksum of data and its checksum is the residue), assumed of each frame because it is
an induction over data; TLC evaluates it for the frames of the run. The invariant is

    LinkInv == StepInv /\ LineInv /\ FlagInv /\ HearInv /\ HdlcInv

`StepInv`: the first `clean` cells of both registers are equal. `LineInv`: where the walk is, and
that fewer than five ones are behind it. `FlagInv`: in the flags, the decoder's shift register ends
with as much of the flag as was heard in step. `HearInv`: once intact, the decoder has exactly
the bits of the frame that were heard, or has given up because they are too many, and its
count of ones is the walk's. That no flag appears inside a frame is lemma `NoFlag` (eight
bits with six ones in a row need a sixth one, which the walk does not send); the closing flag's
own bits enter the decoder's buffer before it is recognised, and `HearClosing` follows them.

`HostHeardAlways` joins them, from `PathAssumption` as well: on a channel that turns over no bit, the
other station receives the frames that found room in the queue and that a decoder takes, in their order,
and a host that never ran ahead of the queue loses none there (`HostIsHeard`). The invariant is

    AirInv == IInv /\ LinkInv /\ QueueInv /\ LossInv /\ SenderInv /\ ReceiverInv

`QueueInv`: the queue is the end of the accepted frames, from the first that is not begun.
`SenderInv`: what is on the line is the accepted frame last begun. `ReceiverInv`, as long
as no bit was turned over: what was received is what was to be expected of the frames sent; the
registers come into step in the flags, one cell with each bit; and what the decoder collected
is at most the noise and the flags before it was in step, and from the first flag it sees the bits
since the last one (`Collected`). `PathAssumption` says that there are flags enough for the
registers to come into step (26 bits; the preamble's default of 500 ms is 600 flags), and that the
noise before a transmission (`MaxNoise` bounds it anew for each) and those bits together are shorter
than a frame (of 136 bits in the code). The second is not
true of every silence, and cannot be dropped: longer noise ends in a frame when its last sixteen
bits happen to be the checksum of the others, which the receiver cannot tell from a station.

`ViewerHub_proofs`, from `HubAssumption`, for any number of pages, sockets and packets and any sizes
of the lists and of the channel: `PlacesAreCounted`, `FeedIsWhole` and `SilentOnlyAfterLag`. The
invariant is

    IInv == TypeOK /\ Lives /\ SlotsAccounted /\ SilenceOnlyByLag
            /\ PagesApart /\ Wires /\ ShowsSnapshotThenFeed

`SlotsAccounted` needs `Lives`: a handler gives its place back once, because its tasks only go
forward. `ShowsSnapshotThenFeed` says what a page shows, not what is on its way to it;
`Wires` says that: the messages on the wire are the first message, if it has not arrived, and
then the events before the one the task takes next, without a gap. `PagesApart`: two pages
never share a socket, so an arriving message changes one list. The list of `app.js` is cut
at `MaxShown`, and the lemmas about it say that cutting after each event is cutting once.

`MultiDecoder_proofs`, from `RingAssumption` and `AirAssumption`, for any transmissions, decoders and
costs and any sizes of the buffer, the ring and the output: `OnceEach` and `LowestCost`. The
invariant is

    IInv == TypeOK /\ EntriesApart /\ InPlace /\ Unmixed
            /\ FramesApart /\ Remembered /\ BestFrames /\ Noted

`EntriesApart`: no two entries are of one hearing, and by `AirAssumption` (transmissions are
farther apart than the decoders differ, and a content comes again only after the expiry) a decode
matches the entry of its own hearing, or one that shadows it, and no other (lemmas `MatchesOwn`, `MatchesOther`). So it is
enough that the ring still has that entry when it is needed. `Remembered` says so: the frame of a
transmission that a decoder may still meet lies in this buffer or the one before
(`Jitter <= BufferLen`), each of which wrote at most `MAX_OUTPUT_FRAMES` entries, and the ring has room for
two such buffers; `Age` counts the entries written since. `InPlace`: the slots of this buffer's
entries are the places of their frames, in the order in which they were written, whatever became of
their costs. `Unmixed`: in each such place is a frame of what the entry is of, or both are in `mixed`;
so an improvement within a buffer writes over the right frame, and one across buffers spoils
the two it names and no third. `BestFrames`: an entry of this buffer is never cheaper than the frame in
its slot nor dearer than the first decode, and as dear as the frame unless an improvement
was misled. That is all that can be said of the cost, and why `BestIsKept` has its second case.

What is out of the provers' reach in a liveness property is its last step, from fairness and
`ENABLED` to "eventually". What the code has to get right for it is safety, and is proved: that
nothing but the named steps can get in the way (a variant), and that the state in which
everybody is done is the right one.

| liveness | proved for every value of the constants |
|---|---|
| `TransmissionEnds` | `TransmissionShrinks`: while PTT is on, each arm of `poll_tx` ends the transmission or lowers `ToSend`, the frames queued, the phases of the frame in hand, its flags or bits, and the bits of a flag, ordered as a dictionary is; only a frame from the host raises it, and a txdelay or txtail set in the middle does not. It needs `IInv`: `WaitingHasFrame` for the frame at the end of a preamble, `PttMatchesState` |
| `AcceptedArrives` | `HostIsServed`: every step of the reads and the host lowers `LeftToTake`, whatever the reads cut; `HostGetsAll`: when outbox and wire are empty the host has decoded all that was accepted (from `HostInv`: its decoder is then between two frames) |
| `NewestArrives` | `QuietIsCurrent`: a client that was sent anything and has nothing on the way to it, while its task waits at the end of the channel, has read the newest frame. `UpToDate` is inductive with `IInv`: a receiver at the end of the channel came there by taking the newest frame, not by skipping |
| `PlaceIsGivenBack` | `GoneNeverStuck`: the steps left to the task of a client that has gone are bounded by the room in its socket (`RoomKept`), every one but a catching up lowers them and nobody raises them; a connection under admission is another one (`Admission`) |
| `QuitIsHeeded`, `StopIsHeeded`, and the hang of `UiKeepsRunning` | `HangNeedsRestart`: at exit the thread waited for has been told to stop; after an `AudioDone` it has been told to, or has left its loop, or another thread ran and finished before it. `WaitInv`: threads run one after another (`OneByOne`), and a report in either queue has a thread that has left its loop (`ReportsAreTrue`) |

Only model-checked: the liveness properties themselves (`ImplementsService`, `TransmissionEnds`,
`AcceptedArrives`, `NewestArrives`, `ReaderIsHeard`, `PlaceIsGivenBack`,
`QuitIsHeeded`, `StopIsHeeded`, `NewestIsShown`, `SlotIsGivenBack`, `ConfigTakesEffect`). That
`crc16_ccitt` has its algebra for every frame is assumed (`ChecksumAssumption`).

## 6. Not modelled

`PROJECT.json` lists every component with its reason. The greater part of the source is numeric
signal processing (demodulators, filters, clock recovery, tone synthesis: `core/src/modem`), whose
correctness is statistical and has no small instance; text parsers and formatters
(`core/src/aprs`, `shared`), stateless functions over strings; and views, files, HTTP and
SQL around libraries. A model of these would repeat the code or leave out what it is about; that is
why the modules translate a small share of the repository's lines. FX.25 is a feature that the
desktop programs do not build, and Reed-Solomon arithmetic over GF(256) is better tested
exhaustively in the code. Of the parts that are modelled, the component notes name what
is left out: the soft-decision repairs of HDLC frames, AX.25 addresses, FX.25's own duplicate
check, the auto-baud loop's duplicate ring (`processing.rs:403`, a window counted in read
buffers, whose timing is the sound card's), the contents of database rows, tiles and maps.
