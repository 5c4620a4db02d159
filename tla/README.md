# diagmunge in TLA+

diagmunge reads the DIAG port of a Qualcomm modem: it opens a transport (tty,
USB, TCP, UDP), speaks HDLC-framed request and response over it, arms the
modem's log and message masks, and turns what comes back into DLF and pcap
files. This directory holds TLA+ models of the parts of it that keep state or
depend on an order of events, the TLC instances that check them, and proofs,
checked by the TLA+ proof system, for the parts everything else rests on. Paths
below are relative to `src/diagmunge/` of the repository, and line numbers are
those of the modelled commit.

## Inventory

| component | code | state it keeps | operations | model |
|---|---|---|---|---|
| DGE1 tracker and reorder buffer | `transport.py` 779-1058 | expected sequence number, counters, deque and set of recent numbers, buffer | `track`, `feed`, `flush`, `note_malformed`, `gap_report` | `Dge1Tracker`, `Dge1Stream` |
| DGE1 header | 755-776 | none | `parse_dge1_header` | its verdict, in `UdpListen` |
| udp-listen transport | 1061-1132 | socket, `_ready`, `_eof`, tracker | `read` | `UdpListen` |
| TCP transport with re-accept | 551-612, 1386-1458 | connection, tail of a write | `read`, `write`, `_reconnect` | `TcpLink` |
| broker handshake | 502-548 | none | `broker_subscribe` | `TcpLink` |
| UDP broadcast transport | 615-743 | 16-bit number, fragments, what is still to return | `read` | `BroadcastRecords` |
| libusb transport | 385-492 | reader thread, pipe, handle | `read`, `write`, `close` | `LibusbPipe` |
| interface selection | 215-382, 1277-1382 | interfaces claimed, drivers detached | `from_libusb` and its probe | `InterfaceProbe`, `ClientOpening` |
| DiagClient, reading | 1501-1610 | `_pend` | `recv`, `read_raw`, decapsulation | `UdpListen`, `TcpLink`, `DiagLink` |
| DiagClient, request and response | 73-89, 1612-1707 | `_pend`, deadline | `_send_recv`, `log_config_reply_matches` | `DiagLink` |
| resync, version anchor, wait for log codes, OEM DRE | 1143-1197, 1711-1751, 1841-1966 | none | `resync_frame_boundary`, `bad_cmd_hint`, `emit_version_anchor`, `wait_for_log_codes`, `enable_oemdre_*` | `ClientCalls` |
| log subscription, SPC | 1753-1839 | the modem's log masks | `subscribe_logs`, `unlock_spc` | `CaptureSession` |
| capture to DLF | `munge/capture_dlf_from_diag.py` | deadline, count, file | `main` | `CaptureSession` |
| mask save and restore | `maskstate.py` | snapshot of F3 and event masks | `save_and_zero`, `restore` | `MaskState` |
| F3 masks | `f3mask.py` | none of its own | snapshot, `SET_ALL`, per-range write, readback | `MaskState` (partly) |
| event masks | `diag_cmd.py` 96-226 | none of its own | `EventMask`, its parser and builder; read and write as `maskstate` does | `Masksets`, `MaskState` |
| QSH-trace masksets | `qsh_maskset.py`, `diag_cmd.py` 429-472 | none | validate, merge, union, derive, sweep | `Masksets` (partly) |
| peek filter | `framefilter.py` 73-275 | partial frame, frames of an open generator, counters | `feed`, `finish`, `reset` | `FrameStream` |
| HDLC to DLF conversion | `munge/hdlc_to_dlf.py` | output file, anchor sidecar, stop flag, exit code | `main` | `Conversion`, `CaptureFiles` |
| DLF to pcap | `munge/dlf_to_pcap.py` | two pcaps, time stamps, exit code | `main` | `PcapExport`, `CaptureFiles` |
| serial, raw fd transports | `transport.py` 103-212 | descriptor | `read`, `write` | not modelled |
| presets, gsmtap, exported_pdu, pcap | | none | encoders and tables | not modelled |
| replay | `munge/` | counters | one loop over an iterator | not modelled |

How they interact. A capture program makes a `DiagClient` over one transport.
The client calls `read()` of the transport, keeps what it read in `_pend`, and
splits frames off it. `udp-listen` puts each datagram through its
`Dge1SeqTracker` and queues what the tracker releases. `subscribe_logs`,
`unlock_spc`, the OEM DRE calls and the mask readers and writers all go through
`_send_recv`, which has to pick its reply out of whatever else the modem sends;
masks live in the modem and outlive the program. `hdlc_to_dlf` and
`dlf_to_pcap` work on files afterwards, and files outlive a program too.

What is hard. The modem pushes unsolicited frames at any time; a reply may come
after the timeout of its request and be met by the next one; masks are sticky,
so an earlier program and an interrupted one both leave something behind; UDP
loses, copies and reorders datagrams while the byte stream above it must stay in
order; a TCP connection breaks in the middle of a frame and another takes its
place; `select()` watches a descriptor and not the queues above it; the
deadline of a call is looked at between blocking calls only; the libusb reader
is a second thread over a shared pipe; a conversion may be killed between any
two of its steps. `PROJECT.json` lists each hazard at its line with the
properties that would catch it.

## Modules

How they are composed:

    Transports      = TcpLink | BroadcastRecords | LibusbPipe   one of them, for good
    UdpListen       = the read side of a client over Dge1Tracker
    Dge1Stream      = Dge1Tracker closed with a daemon and a path; implements LossyStream
    CaptureSession  = DiagLink with capture_dlf_from_diag and a modem
    ClientOpening   = InterfaceProbe, then ClientCalls (DiagLink with a caller and a modem)
    MaskState       = DiagLink with maskstate and a modem
    CaptureFiles    = Conversion and PcapExport over CaptureDir
    Masksets        = pure functions, checked over small inputs by MasksetChecks

**`Dge1Tracker`** is `Dge1SeqTracker`. Variables `window`, `expected`, `stats`,
`seen`, `seenSet`, `pending` are the object's attributes; `out` is what the last
call returned; `fed` and `discarded` are history. `window` is the constructor
argument: 0 makes `feed()` be `track()`, and a run may start a tracker with any
of `Windows`. `Feed` is one call: `FeedRebase`, `FeedInOrder`, `FeedSwitch`,
`FeedEarlyCopy`, `FeedHold`, `Behind` are the branches of `feed()`, `Track` is
`track()`. The two loops are in closed form: `Run` is what `_drain_contiguous`
pops, `ForcedSteps` how many places `_enforce_window` moves the base. The
environment is open: any datagram at any time. `first_seq` and `last_seq` are
left out, since only the report reads them.

**`Dge1Stream`** closes it with one egress daemon and a path. The daemon numbers
its datagrams and may re-spawn, which restarts the numbers under the RESTART
flag; the path loses, copies and lets a datagram be overtaken. A payload is the
place of its datagram among all sent, which the tracker never looks at, so that
the order of delivery can be read off. `RestartIntact` says that the path leaves
the RESTART datagram itself alone; the code depends on that (see below).

**`LossyStream`** is the abstract specification of a DGE1 receiver: payloads may
be missing, but come in order and never twice. `Dge1Stream` implements it under
the mapping `count <- Len(sent)`, `got <- delivered`.

**`UdpListen`** is `_UdpListenTransport` under `DiagClient.recv` and `read_raw`,
step by step: `pc` is where the calling thread is, and between two of its steps
datagrams arrive, the deadline passes, or the stop event is set. A payload is a
slice of the HDLC stream of one of five kinds. `Zero`, a datagram of no bytes, is
what makes `sock.recv()` return `b''`, which the code calls the socket's EOF.
Of `Malformed` datagrams, which release nothing, any number may arrive, so that
`read()` may go round for ever (`SockRecv`); `CountMalformed` counts them up to
`MaxBad` only.
A call after an `EOFError` is not modelled, as no caller makes one.

**`HdlcUnits`** has the HDLC stream as the three transports below see it: bytes
cut and joined without looking. A frame is three units (body, trailer, flag), so
that a connection or a fragment may end inside one; `Mangled` and
`IntactInOrder` are how a stream is judged.

**`TcpLink`** is `_TcpTransport` under `recv()` and `send()`. `role` is the way
the client was made: a server accepts again when its connection ends, a dialling
client and a broker's do not. `Break` ends the connection with both directions
cut at any unit; a peer that connects again starts at a frame, or with the rest
(up to three units) of the one it was sending. `Recv`, `TakeFrame`, `ReadMore`,
`FreshRead` are the steps of `recv()` and `read()`, `StartWrite`, `Send`,
`SendFails` the loop of `write()`, `Accept` and `AcceptTimesOut` are
`_reconnect()`. `Subscribe`, `ReplyByte`, `NoReply` are `broker_subscribe()`,
byte by byte, with the line bounded by `LineMax`.

**`BroadcastRecords`** is `_UdpBroadcastTransport`: `TrackSeq` is `_track_seq`,
`Receive` and `Return` the two halves of `read()`, `Extracted` is
`_extract_from_record`. The sender's stream of frames is cut into datagrams
anywhere (`Cuts`), and every so often a datagram ends a record (`RecordEnds`),
with a frame; the path loses datagrams and lets one be overtaken; the datagrams
have a numbered header or not. `Lookalikes` are frames of which a cut-off rest
happens to begin with the opcode 0x10. A record of one datagram leaves
`_frag_buf` as it is, as in the code: the head of a record whose tail was lost
waits there behind any number of whole records, and comes out, with a frame
that was due before them, when a datagram that is not a first one arrives.
That is why `DamageStaysInRecord` promises the order only of the frames of
records whose pieces come in a row (`Clean`).

**`LibusbPipe`** is `_LibusbTransport`: the reader thread (`rpc`) and the thread
that reads and closes (`upc`), over a pipe of `PipeCap` units. The steps are
those between which the other thread can run: `_close_wfd` is three (look at the
flag, set it, close the number), and `os.write` is a look-up of the number
followed by writes that block while the pipe is full. A descriptor is a number:
once closed, `OtherOpens` may give it to another file, and `harm` records that
such a file was written to or closed. `JoinTimesOut` is the two-second join
running out. With `Wedged = FALSE`, as the run has it, that happens to a reader
blocked in `os.write` only, because a bulk read times out after one second; if
an endpoint overruns its timeout, the reader can still be in a bulk read when
`close()` goes on, and `OnlyOwnFiles` is not claimed. A second `close()` is not
modelled.

**`Transports`** puts the three side by side: the `from_*()` that was called has
chosen one for the life of the client, and the others stand still.

**`DiagLink`** is `_send_recv` between a client and a modem: `toModem` and
`toHost` are the wires (capacity `WireCap`), `pend` is `_pend`. `Dispatch` is
the loop body over one frame: skip malformed, match the opcode and the
`match` predicate, surface `DIAG_BAD_CMD_F`. `Fill` and `GiveUp` are the wait,
`TimeoutPasses` the clock. The retry after a transient errno changes nothing and
is a stutter. It has no next-state relation of its own: `CaptureSession`,
`ClientCalls` and `MaskState` compose it with a program and a modem.

**`CaptureSession`** is `capture_dlf_from_diag.main`: try the SPCs,
`subscribe_logs([])`, `subscribe_logs(codes)`, the capture loop,
`subscribe_logs([])`. `mask` is the modem's, sticky and initially another
program's, and a request of that program may still wait in the modem
(`Leftover`).

**`InterfaceProbe`** is `from_libusb`: `Candidates` is the scan of
`_diag_iface_candidates`, `untried` those left, of which `Chosen` is the one its
ranking puts first, `ByDescriptor` the fallback, and `Open`, `OpenFails`,
`Answers`, `Mute`, `CloseLoser` the steps of `_select_diag_candidate`. `claimed`
and `detached` are the host's view of the device, `speaker` the interface that
really speaks DIAG, if any. It is assumed that the construction of a transport
after the claim (an `os.pipe()`) and a release succeed.

**`ClientCalls`** has the calls made on a client before and between captures, in
any order: `Resync` with its drain, `WaitForLogCodes`, and `Ask` for the two OEM
DRE requests and the version anchor. `rx` is an unfinished frame in the modem,
which the resync is there to end; `calls` records what the program made of every
answer and `modem` what the modem really did, so that a verdict or a logged hint
can be compared with the truth. A rejection echoes the request, as
`bad_cmd_hint` is told (1146), or is empty, as it also provides for (1154):
`EmptyEcho`. Stale bytes are assumed not to begin with the
opcode that was asked for.

**`ClientOpening`** runs one after the other. The answer that a probe did not
wait for may come during the first call.

**`MaskState`** is `save_and_zero` and `restore` with all they call in
`f3mask.py` and `diag_cmd.py`: range query, one read per range, `SET_ALL` to
zero, the event mask; then `SET_ALL` or one write per range, a readback of every
range, and the event mask. The modem may have one range it does not list
(`Hidden`), and stores a transform of what `SET_ALL` gives it (`Stored`), as the
notes in `f3mask.py` say. The link may end at any moment (`LinkEnds`); the next
read of `_send_recv` then raises (`ReadRaises`), which nothing catches, and
`at` says what was left undone (`Undoing`): what `save_and_zero` had read goes
with the exception, while the caller of `restore` still has what it passed. A
`send()` that raises is a request sent in vain here, with the same effect.
`MaxFaults` bounds the refusals, silences, ignored
writes and late answers of one behaviour.

**`Masksets`** has the pure functions on masks. A word of bits is a set; a
function that may raise returns the set of its one result, or the empty set for
a `ValueError`. **`MasksetChecks`** states as assumptions, which TLC evaluates
with the `masks` runs, what they promise: neighbours suffice to check an order;
a merge is in order and the later group wins; a union arms exactly what its
profiles do; a derived maskset arms exactly what was seen, as far as a level can
say it; a sweep is accepted; an edit of an event mask changes the named ids alone.

**`FrameStream`** is `FrameSplitter`, `peek` and `FrameFilter`. **`Selections`** has
the operators it takes parts of a sequence with: `Picked(s, I)`, the elements at the
places in `I`, and `LastBefore`. `Feed` is what
the generator does when it is first asked (`FramesAt`: what lies before each flag),
`Examine` what it does per frame, so a
`Reset` can fall between two matches of one chunk. `StreamFrames` and `Wanted`
are the reference: the stream taken apart as a whole, each frame unescaped in
one pass from the left. Bytes are six symbols; the offset of a wrapped frame,
that of the log code, the peek window and the checksum are constants, with
`FilterAssumption` keeping the relation the code has between window and offsets
(32 >= 2 * (8 + 6 + 2)). Streams are correctly escaped, as a modem's are: on an
invalid pair after a 7D, two `replace` calls and a single pass may differ, and the
code leaves such a frame to its checksum.

**`CaptureDir`** is the directory: each output, its anchor sidecar, its two
pcaps, and the `.f3.jsonl` of each capture. **`Conversion`** is
`hdlc_to_dlf.main`: the refusals before a byte is written (exit 2 and 3), the
walk record by record with the stop flag looked at between records, the carrying
of the sidecar, the backstop that removes the output (4, a checked walk without a
record in which `RefusePercent` of the frames fail), and exit 130 or 0, with what
it says of the F3 it passed by (`told`). F3 frames are of two kinds: those Gate 0
counts (`"f3"`, 0x79 and 0x99) and the older 0x92 (`"qsr"`). A job may find no
CAPTURES_ROOT (`root`), and then nothing is archival. `made` is history: the
conversion each output is from.
`ConversionKilled` is a kill or an error of `write()` anywhere; `CutShort` is what may then be on
the disk. `ExtractF3` is the F3 extractor, another program, at work meanwhile;
it is taken to write only for captures that have F3 in them.
**`PcapExport`** is `dlf_to_pcap.main`: two outputs opened one after the other,
frames with their time stamps, and the removal of an empty NR sibling, which may
fail unnoticed. `framed` is history: the records it made frames of.
**`CaptureFiles`** runs conversions and exports one after the other in one
directory, so that each may find what a killed one left.

## Runs

| run | what it asks | bounds |
|---|---|---|
| `tracker` | accounting, memory bound, dedup window, loss total, for every sequence of calls | ten sequence numbers, floor 4, window 0 or 2, five datagrams: all branches are at most three datagrams away, and the wrap two |
| `stream` | order, loss, latency and the report, end to end | seven datagrams from 14 modulo 16, so the wrap is in the middle; two lost, one re-spawn, overtaking by three, windows 0, 2 (shorter than the overtaking) and 4 (longer) |
| `stream_copies` | violation: see finding | five datagrams, one copy, window 2 |
| `listen` | what is between tracker and caller; end of stream; limits | four datagrams of the stream, of every kind, and malformed ones without end, of which the first is counted; two waiting in the socket, windows 0 and 2 |
| `transports` | TCP: mangled frames per break, nothing lost inside the client, handshake and `recv()` end. Broadcast: drops against loss, damage confined to its record. libusb: loss, order and end of stream across two threads, descriptor reuse, `close()` ends both | three frames of both directions together and two breaks, each at any unit; seven datagrams of four records, two of them in pieces that end inside a frame, three lost, overtaking by two, a wrap after three; a pipe smaller than the largest chunk, so that a write blocks half way |
| `open` | what a probe holds; an ACK is of the request's kind; a hint names the cause; drains end | four interfaces, of which any or none speaks, every mixture of arguments given and not given; three calls, wires of one frame, a drain of two; a rejection with its echo or an empty one |
| `session` | masks armed and cleared, aliasing of late replies, termination under flood | two groups, one SPC, one leftover request, wires of two frames |
| `session_behind` | violation: see finding | one group |
| `masks` | restore and its verdict, under faults; the functions on masks | two listed ranges and a hidden one, three levels, two faults, and a link that ends anywhere or not at all; masksets of two pairs with two level bits and four ssids, event masks of up to 17 events |
| `masks_snapshot` | violation: see finding | one fault |
| `frames` | the filter against the whole stream, wherever chunks and resets fall | every frame of one to four bytes over the six symbols, and all streams of three frames out of six; chunks of 1, 3 and 5 bytes; one reset |
| `files` | what each exit leaves; F3 that is lost is told; pcaps match the frames made | three captures (one with everything, one of a damaged frame and an old F3 one, one that does not decompress), refused from one bad frame in two (the code: 99 in 100) so that the capture of two frames reaches the limit; one output in the corpus and one not, two programs, of which the second meets what the first left, killed or not; of jobs that come to the same thing (`FewJobs`) one |

Why the bounds are enough. The tracker never compares payloads and looks at
sequence numbers only through their distance from `expected` and membership in
two sets, so ten numbers have every case: in order, early within and beyond the
window, at the floor, behind. `OnlyLostAreSkipped` holds when the path lets a
datagram be overtaken by less than the window, and is trivially true of the
shorter windows of the same run, where `ReportAddsUp` takes over. `stream`
copies datagrams with window 0 only (`CopyWindows`): with a buffer a copy breaks
the order, which is the finding of `stream_copies`. A client has at most one
request outstanding, and the aliasing hazards need one late reply and one new
request, which the wires hold. A frame of three units can be cut in its
body, before its trailer and before its flag, which are the three places that
differ for the splitter; two breaks are what it takes for a tail of one
connection to meet the head of a third.

`CHECK_DEADLOCK FALSE` is in the `listen` and `transports` configurations only: a
thread inside `sock.recv()` with nothing to come really stops, and so do a caller
after its `EOFError` and a libusb transport after `close()`.

### Fairness

Safety properties are checked without any. `LimitsHonouredOutsideRead` assumes
that the calling thread runs (`WF` of its step), that the clock advances, and
that the caller calls again; never that a datagram arrives, nor that they ever
stop. Its first half says that a call past its limit comes back or stays inside
`read()` for good with nothing released, its second that one payload brings it
back. `HandshakeEnds`,
`RecvComesBack`, `SendRecvTerminates` and `DrainsEnd` assume that the client
thread runs and the clock passes the timeout; the modem, the broker and the peer
owe nothing, and may flood, drip or fall silent. That the timeout of
`accept()` ends is part of the thread's step (`AcceptTimesOut`), as is that of a
broker's byte. `CloseEndsBoth` and
`ErrorBecomesEof` assume that both threads of the libusb transport run and that a
consumer which has not closed reads; not that it ever closes, nor that the device
sends. In `Transports` the conditions of the three are joined by disjunction:
only one transport ever moves, so each is the condition of that one. This is
what an operating system's scheduler gives a thread that is not blocked, and a
monotonic clock.

## Findings

Three runs show the code doing other than its comments say; `PROJECT.json` quotes
the lines.

* `stream_copies`: `_enforce_window` can leave a datagram held exactly at the
  base. A network copy of it then takes the in-order branch, which does not look
  in the buffer: the copy is delivered, and the buffered one comes out later,
  behind newer ones.
* `session_behind`: the capture loop selects on the descriptor although `recv()`
  has read several frames at once, so records stay in the buffer when the time
  is over.
* `masks_snapshot`: the late mask table of one range is taken for that of the
  next.

The models also have behaviours in which the following disagree with a comment,
or surprise; no run is spent on them. They are what the properties except.

* `feed()` may keep a datagram that is next in order, although it "returns the
  payloads now ready to deliver" (`transport.py` 910, 1001).
* A RESTART that reuses recent numbers has its datagrams dropped as copies, as
  `_seen` is kept (926); a RESTART datagram that is itself overtaken moves the base back (855).
* `recv()` with a timeout, a "Hard deadline in seconds" (1540), can stay in
  `read()` for ever: over udp-listen after a `select()` that a malformed,
  late or early datagram satisfied, where it waits in `sock.recv()` (1114) or, as
  long as such datagrams come, goes round (1109-1127) without a look at deadline or stop
  event; over broadcast until a log frame
  comes, over TCP in the first read of a new connection (570), which has no timeout.
* `recv()` selects on the socket while whole frames wait in `_ready`, or the rest
  of a burst in `_out`, and may time out (1566); after a zero-length datagram the
  payloads it flushed come one per `select()`, which no longer fires, so the EOF
  may never be seen (1119).
* A frame of its two trailer bytes makes `recv()` raise `IndexError` (1580), which
  is what a TCP peer that resumes with the last bytes of a frame causes; a
  DGE1 datagram that declares zero bytes is taken for the end of the stream (1111).
* `read()` of the TCP transport does not catch the `ConnectionResetError` that
  `write()` does (566, 594); a new connection that closes before its first byte is
  an `EOFError`, although the server socket is still there (570).
* The timeout of the broker's reply is per byte (525): a broker that drips its
  line can take that long for each of its bytes, up to the bound of the line.
* A datagram of the broadcast that comes late moves the expected number back, so
  the ones behind it are counted as dropped again (698); a gap of more than 1000 is
  taken for a restart, and not told.
* A whole record of the broadcast leaves the pieces of an earlier one in
  `_frag_buf` (673), and a piece that is not a first one is joined to them, of
  whatever record (668), so frames can come out behind later ones.
* A probe detaches the kernel driver of each interface it tries, and never
  re-attaches that of a loser.
* A rejection, or the late answer to an earlier `DIAG_VERNO_F`, becomes a version
  anchor, though "the response is correlated to within the round-trip half" (1727).
* A late rejection of an SPC surfaces in the first `RETRIEVE_RANGES` and ends the
  capture, though a refused SPC "is not necessarily fatal" (1774, 1825); likewise the
  rejection of the OEM DRE NV write is logged as that of the session (1700).
* A rejection with an empty echo is always put down to "command unsupported or
  gated" (1155), also when the modem has parsed stale bytes or rejects an earlier
  request.
* When one `SET_MASK` of several fails `subscribe_logs` raises (1800) and the capture
  ends with the groups before it armed.
* When the link ends inside `save_and_zero` after its zeroing write, the exception
  (1663-1676) takes the only copy of the masks with it, as they are returned at the
  end only (`maskstate.py` 121): the modem stays quiet and nothing can be put back,
  although the module "puts both back on exit" (7). This is what `ChangedIsSaved` excepts, and no more.
* `subscribe_logs` writes the mask of every group, not only of "each group that
  has at least one requested code" (1780), which is also why `ArmedWhenCapturing` holds.
* After a malformed frame the capture sits in `recv()` without a timeout, past
  its deadline (`munge/capture_dlf_from_diag.py` 97).
* A zeroing whose answer is late is not put back and reported as fine
  (`maskstate.py` 102, 127); `SET_ALL` zeroes a range the query does not list,
  which no restore can put back (`f3mask.py` 489).
* `merge_qsh_trace_pairs` "sorts and de-duplicates so the result is always
  accepted" (`diag_cmd.py` 439), but it checks neither the number of pairs nor
  an ssid of 0, which the modem refuses.
* The anchor sidecar is never overwritten (`munge/hdlc_to_dlf.py` 368). So a
  sidecar of an earlier capture stays beside an output whose name is used again;
  one that a failed `copy2()` left cut is never replaced; and it is carried before
  the backstop (555, 570), so exit 4 can leave one without its file.
* Gate 0 is opened by any `.f3.jsonl` that is not empty (265), also by one whose
  extraction has not ended, or has died after its first byte, though "an
  extraction that died" is why an empty one does not count (250). `F3LossIsTold`
  says "with something in it" for that reason.
* Gate 0 and the warning count 0x79 and 0x99 only (`munge/hdlc_to_dlf.py` 125-154),
  while `framefilter.py` 54 lists 0x92 as F3 too: a capture whose F3 is of that
  kind is converted into the corpus, with exit 0, and nothing said.
* An error in looking up CAPTURES_ROOT switches Gate 0 off (294), which the code
  does "on purpose" (282); a warning is left.
* An error of `unlink()` leaves an NR sibling of no frames, or after a format error
  one with the frames up to it, with the exit code it would have had
  (`munge/dlf_to_pcap.py` 270-273).
* A format error of the DLF reader after the outputs were opened removes the NR
  sibling with the frames already in it, and keeps the main pcap (`munge/dlf_to_pcap.py`
  346); any other exception leaves both unfinished.

## Proofs

Eight modules hold the proofs of the components.
Every theorem below holds for all values of the constants that satisfy the
assumptions its modules name; TLC evaluates those assumptions with the runs.
Each follows from an inductive invariant, which TLC checked on the run's instance
before it was proved, but for the two that quantify over lists of places
(`Inbound` and `Outbound` of `Transports_proofs`); TLC checks what they are for,
`OneMangledPerBreak`.

**`Dge1Tracker_proofs`**, for every sequence space, floor, dedup window and set
of reorder windows, and with no bound on the datagrams but `MaxFed` (any natural
number): `TypeCorrect`, `EveryDatagramCountedOnce`, `BufferNeverExceedsWindow`,
`SeenDequeAndSetAgree`, `SuspicionMatchesGap`, the five invariants of the
`tracker` run, and `ReceivedCountsDeliveries` and `LossTotalCountsPlaces`, its
two action properties. They rest on `SizesAssumption` alone: the modulus is even
and at least 4, the floor lies below half of it, the dedup window is at least 1,
a reorder window is smaller than the modulus. The code has 2^32, 2^24 and 8192.

The inductive invariant `IInv` is the conjunction of the five. None is inductive
alone: the sum in `Conservation` needs `TypeOK` for its set of held numbers to be
finite and for counters to be naturals; `track()` leaves the buffer alone and may
do so only because `BufferBounded` makes it empty when the window is 0;
`MarkSeen` replaces the number it evicts in both structures only if `SeenInStep`
said they agreed. The argument per step is the same throughout: how many numbers
does the base go past, how many of them were held, and so by how much do the
counters and the buffer change (`AcceptEffect`, `WalkEffect`). The key lemma is
`ForcedStepsExact`: the loop of `_enforce_window` stops exactly when the span is
under the window, `hi - W + 1` places on; its other exit condition, on the
number held, never decides, because numbers are distinct and `CountByDistance`
bounds how many fit a span. `RankExists` and `InOrderType` show that the
delivery order, which picks the number of rank i, is well defined.

**`Dge1Reading_proofs`** builds on it and proves what the tracker does for a
stream: the daemon numbers its datagrams modulo the sequence space, the path
loses, copies and overtakes. `DeliversInOrder` is the refinement of `LossyStream`:
what comes out is a rising sequence of what was sent. `MissingCountsTheSkipped`,
`GivenUpOnlyIfLost`, `HeldLessThanAWindow` and `ReportIsExact` are the invariants
of the `stream` run. They hold for every sequence space, window, first number, and number of losses,
copies, datagrams overtaken and re-spawns. `StreamAssumption` bounds the datagrams
sent by the gap floor, 2^24 in the code: beyond it a gap may be taken
for a re-spawn of the daemon and re-bases the tracker, so no order is promised
across it. The other conditions are hypotheses with a name:

* `PlainPath`, of all of them: a RESTART datagram is not lost, copied or overtaken,
  and nothing is copied while a reorder window is open. The `stream_copies`
  run shows that the second part is needed.
* `NumbersDistinct`, of the last three: no number is used twice. A re-spawn
  may reuse the numbers of the daemon before it, and a new datagram then
  looks like a copy to `_seen`.
* `CopiesRemembered`, of the report: no copy is so late that `_seen` has evicted
  its number, for such a copy is counted as reordered.

The last two are conditions on a behaviour; `OneDaemonIsServed` replaces them by
conditions on constants: at most one re-spawn, whose numbers
are apart from the first ones (`StartsApart`, by `NoNumberTwice`), and no more
datagrams than `_seen` holds wherever something is copied. The
constants of the `stream` run satisfy them.

`StreamIInv` says which datagram each number stands for. All that is in
flight is of one numbering (`Baseline`), and the receiver has taken its first
datagram or has the RESTART before it (`Settled`, `Announced`). The base is then a
place in the sequence sent (`ExpectedAtBase`), and `Distances` turns a
difference of numbers, modulo the space, into one of places: this is where what was sent has to be
less than half of the space. What was
delivered is a `Stretch`, a rising sequence of places below the base, and
what is held lies in its own place at or above it; `MoveKeeps` is the step that
every accept, forced release and flush shares, and is exact on how `missing` grows.
`FlightIInv` and `KnownIInv` add how far a datagram in flight can be behind
one that came, hence `GivenUpIsLost`: the base passes a place by force only when the
span reached the window, and by then no datagram overtaken by less can be on
its way. For the report, `CountIInv` counts the copies: those still in
flight beyond what is needed (`Spares`) and those called true duplicates are
together no more than the path made.

Of `UdpListen` the same module proves `ReadyHoldsOneBurst`,
`EverySliceReachesCaller` and `TrackerHoldsInTransport`. `ListenIInv` adds to
`IInv` that `read()` is only asked when `_ready` is empty (`AskedWhenEmpty`, why
one burst is the bound of the queue), that the payloads of the tracker are
those in `_ready`, in the hands of `recv()` and with the caller (`SlicesAddUp`),
and what the EOF has behind it (`FlushedAtEnd`, `EndIsLast`). That the burst of
a closed socket is all the tracker held is `FlushPassesAll` of the tracker.

**`Transports_proofs`** proves of the three transports, for every pipe, chunk,
frame and record size:

* `LibusbStreamIntact` and `LibusbOnlyOwnFiles` under `~Wedged`, which is the
  comment of `close()`, "The reader is parked in a bounded (read_timeout_ms) bulk
  read" (`transport.py` 476), of one second against the two of the join: a join
  that runs out has a reader in `os.write`. `LibusbUntilClose` is what
  holds without it. The
  invariant `PipeIInv` tells which descriptors are open by where the two
  threads are, separately before and after the join; what is in the pipe, in the
  reader's hands and consumed is one sequence, cut.
* `TcpNothingLost`: `taken \o pend = read` over any number of connections, and
  while no connection has ended also the wire, the broker's line included. No
  bound on frames or breaks is used.
* `OneFrameSpoiltPerBreak`: no more frames of a direction are mangled than
  connections have ended, and the others are in order. The frames a side sends
  are one stream of places, three to a frame (`UnitAt`), and what the other side
  has is `Gappy`: a rising list of places in it with a gap, at most, for each
  connection that ended. `Inbound` and `Outbound` keep this and say what stands
  on the wire: the segment of the stream the reading goes on with, and behind a
  connection that ended a first part of it, so that the next connection, with
  the last part of the frame that was cut, is a gap more (`GappySkips`). A frame
  without a gap between its delimiters is as it was sent (`NoGapNoDamage`), and so
  the first gap of each mangled one is an injection (`DamageAtGaps`). What joins
  the `_pend` of two connections and what `write()` sends on the new one are the
  same case of this. No bound on frames or breaks is used here either.
* `BroadcastDropsCoverLoss`: the count of drops is at least what was passed
  over, and at most that and what was counted again. `BroadcastIInv` ties the
  expected number to the last place received, modulo 65536, and `ModSub` turns the
  difference of two numbers back into one of places; it rests on the gap limit
  being below the modulus, as 1000 is. The bound from above is not inductive
  as it stands: behind a late datagram the numbers have yet to make up what they
  went back by, and `DropsBounded` charges that in advance (`LateHasNoGap`,
  `MissingGrows`, `OneMoreAgain`). `PathInv` says that each datagram is under way,
  received or lost, so that none comes twice.
* `BroadcastDamageStays`: what a lost, late or overtaken piece spoils, for every
  way the stream of frames is cut into datagrams and records. A frame comes out
  mangled only where a unit does not follow the one before it (`Breaks`,
  `DamageAtBreaks`), and the splitting of a record and the joining of streams make
  no more of those (`KeptFrames`, `MangledJoin`, `BreaksJoin`). The bound by `Seams`
  is not inductive as it stands, since a break can wait in `_frag_buf` for its
  record to end: `BreaksCovered` charges it when the datagram comes, and
  `FragmentHeld`, that what is held ends where the last datagram did, shows that a
  datagram in its turn adds none. That the frames of a clean record come out once
  and in order does not follow from the counting: `BodiesApart` has each frame's
  body in a datagram that was received, and either returned or held back and
  never both, so a frame that comes out is of the record at hand (`OldOnes`,
  `NewOnes`), and that record is the segment of the stream it was sent as
  (`JoinedIsRecord`, `WholeExtracted`). With no datagram late (`NoneBehind`) the
  records before it in the list are those before it in the stream.

**`DiagClient_proofs`** is about the two programs over `DiagLink`. Of
`CaptureSession`: `CaptureIsArmed` and `ExitIsCleared`, for every set
of groups and wanted codes and every number of SPCs. A `SET_MASK` reply names
neither its group nor its request, so what makes it the answer to the request
at hand is the order of the link, which `SIInv` has in three regimes: a
`SET_MASK` that an earlier program left is ahead of all that this one has sent
(`OldFirst`); after the first reply to `RETRIEVE_RANGES` there is none
(`NoneInFlight`); from then on the only one is that which `subscribe_logs` waits for,
and its success follows the change of the mask (`OnlyMine`), since a request
that was not answered ends the program. `Asked` and `Answered` tie the request and
what came back to the place in the program, and `MasksSet` has the groups
that are done. `SurroundingsAssumption` says which frames come unasked (log
records, frames of other services, a status, what does not decapsulate) and that
the request left over is one this program knows.

Of `ClientOpening`: `OnlyTheChosenIsHeld`, `AcksAreOwn` and
`HintsNameTheCause`, for every device, every arguments and any number of calls.
The invariant of the probe says that exactly the interface at hand is claimed
while it is looked at, and that whatever is left to try keeps to the arguments;
`ChosenIsTried` shows that the ranking has a best among any of them, and
`DescriptorFits` that the fallback does not depart from the arguments. For the
calls a request is not matched with its answer at all, since the code cannot do
that: `Told` says of every frame on its way what it proves the modem to have
done with some request of its kind, and `ToldStays` that it goes on to prove it,
because a request is decided once, when it leaves the link (`PendingOK`).
An empty echo tells of a rejection or of stale bytes, and no more, and so does
the theorem. `DelimiterFirst` is the resync: the delimiter is ahead of all requests as long
as stale bytes are there. `CallsAssumption` says that a modem does not send
replies to requests nobody made.

**`CaptureFiles_proofs`**: `F3LossesAreTold`, `ExitsTellTheTruth` and
`PcapsAreOfTheFile`, for any captures, outputs, programs and kills. `FIInv`
relates the file under conversion to the items walked (`Walked`), the exit of a
conversion to what it left (`Left`), and the file an export reads to its pcaps
(`ExportInv`). That no file has a record twice needs `Increases`, which survives
a kill because what `CutShort` leaves is a first part of the file. `ArchiveInv` is
the decision of Gate 0, kept for each file of the corpus with the conversion that
made it, which holds on because the arguments do not change and the extractor
never takes back what it has saved; and what was told at the end is what the
walk passed by. The sidecar may be a part, and 0x92 does not count: the theorem
claims neither. `PcapsAreOfTheFile` follows a failing `unlink()` as well: what stays
of the sibling then is what was written to it. `DirAssumption` says that there
is a capture and an output, and what a capture is made of.

**`Masks_proofs`** proves the three invariants of `MaskState`, `ChangedAreSaved`,
`VerifiedAreRestored` and `HealthyRunsRestore`, for every number of ranges, every
set of levels, every transform `SET_ALL` stores that leaves zero alone, and any
number of refusals, ignored writes and timeouts (`MaxFaults` is any number, and
no step is excluded by it), and a link that ends anywhere. The invariant is
`MaskInv`, that is `MSInv` or `BrokenOff`: `MSInv` holds as long as nothing was
raised, a dead link only shortening what is in flight; the read that raises turns
it into `BrokenOff`, which has what of the three properties is left to say, and is never left again, as
the program is over and the link dead; a request that was on the link may have been
obeyed before it ended. A reply names neither the range nor the level it
was asked for, so again the order of the link has to tell: a request that is
the only one of its opcode is behind all else, its answer is too, and who has
that answer knows the link to be empty (`LastOnly`, `Waited`, `Drained`). `MSInv`
uses this in four places: a snapshot is true up to the range being read or is
spoiled for good, by a missing listing or a range that could not be read
(`GoodSoFar`, `Spoiled`); a mask is zeroed only after a true snapshot and on an
empty link; a readback that agrees is the modem's level of the range asked for
(`Watched`); after the last one no write is under way. The event mask needs less:
its readings may pile up behind the retry with the bare opcode, but all of them
tell the same level as long as no `EVENT_SET` is on the link (`Carries`).
`HealthyInv` follows a fault-free run request by request (`Undone`, `DoneNow`): the
write at hand has its effect once the modem has taken it, and `OneSetAllDoes` is
what makes one `SET_ALL` enough.

`Masks_proofs` also has two facts about the pure functions. `SweepCoversOnce`:
the windows of `sweep_windows` cover the ssids from `max(first, 1)` to `last`,
name none twice, and are not empty and no wider than the size, for all integers
and every positive size; the arithmetic is that every number lies in the window of
the multiple of the size below it (`WindowOf`) and two multiples are a size
apart (`MultiplesAreApart`). `ReadModifyWrite`: for every number of events and
either width of a body, what is sent after an edit is a body of the SET width that
parses back to the edited mask, and the edit changes the named ids alone; the
rest is that the two widths differ by one byte exactly when the number of events
is a multiple of eight (`Widths`).

**`FrameStream_proofs`**: `FilterCounts`, for every stream, and, for every set of
streams of `ValidFraming`, `FilterPeekIsExact` and `FilterYieldsTheWanted`. The
hypothesis is what the code itself says of DIAG framing (`framefilter.py` 27-28);
of a stream that breaks it the two-`replace` form and one pass from the left may
differ. Nothing is assumed of the checksum or of what the consumer wants, and the
window only has to be twice as wide as what `peek` reads. Three arguments carry it:
* `UnescapeIs`: the two passes of `unescape` are one pass from the left. Both are
  selections of the bytes of the frame (`Picked`, of `Selections`), so they are
  compared place by place: the first pass neither makes a pair of the second nor
  breaks one.
* `PeekExact`: a cut of the frame unescapes to a first part of the frame, and of
  `PeekWindow` bytes at least half stay (`EnoughStay`); a pair cut in two leaves
  one byte more, behind all that `peek` reads.
* `FramesGrow`: what `feed` makes of the partial frame and a chunk is what the whole
  stream gains by it. `FilterIInv` has the partial frame as that part of the stream
  which lies behind the last flag or reset (`Local`); `YieldsTheWanted` and
  `CountsAddUp` then follow step by step, the frames in the queue still to come.
The splitter, `unescape` and the reference are written by the places they select
and not by a recursion, so that nothing here needs an induction over data but
that of the pairs (`opens`), whose recursion is over an interval of naturals and is
used through a least place where two of them differ.

**`Selections_proofs`** has the facts about the places of a set in their order
(`Nth`, `Picked`, `LastBefore`) that the proofs of the filter and of the broadcast
transport share.

So every safety invariant and action property that the passing runs check is
proved. Out of the prover's reach, and only model-checked, are the liveness
properties under fairness: `LimitsHonouredOutsideRead`, `SendRecvTerminates`,
`HandshakeEnds`, `RecvComesBack`, `DrainsEnd`, `CloseEndsBoth`,
`ErrorBecomesEof`. The models that are proved about use no recursion where a theorem
needs its value.

## Not modelled

* Serial and raw descriptor transports pass bytes through; their restart of an
  interrupted read is a stutter for the client.
* `close()` of the socket transports: it closes and swallows the error.
* GSMTAP, exported PDU and pcap encoders, the presets, the builders and parsers
  of requests other than the event mask, the JSON of profiles and of the
  broker, `harvest_cfg`: byte layouts, one record in and bytes out. What an
  encoder declines is a choice in `PcapExport`. The GSMTAP sink is one `sendto`.
* Replay to JSONL counts over one iterator.
* In `hdlc_to_dlf`: decompression and the probe of the format (a Boolean of the
  capture), and the retention report, which reads what the walk counted; after a
  SIGINT it compares the records of half a walk with the capture.
* In `framefilter`: `bytes_seen`, and `wants()` as the command line's
  pass-through uses it.
* The arming helpers of `f3mask.py`, and its prefix-OR over bytes, which
  `MaskState` has as an arbitrary transform.

## Plan

1. Proofs: `CopiesRemembered` and `NumbersDistinct` of `Dge1Reading_proofs` from
   weaker conditions on constants than those of `OneDaemonIsServed`.
2. `UdpListen` as a fourth transport of `Transports`, if the state space allows.
