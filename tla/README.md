# rt-doubao in TLA+

Models, checks and proofs for rt-doubao, a Rust client for a real-time voice
dialogue service: it opens a WebSocket, starts a session, sends what the
microphone hears and plays what the service says. Paths below are relative to
the repository.

## 1. Inventory

| Part | Source | State | Operations | Threads |
|---|---|---|---|---|
| NetClient | `src/rtvoice/doubao/net_client.rs` | `connected` flag, command channel, `current_binary`, the socket | `connect`, `send_protocol_message`, `send_audio_data`, `send_chat_text_query`, `disconnect`; worker `run_work` | any caller, one worker per connection |
| RtService | `src/rtvoice/doubao/rt_service.rs` | `connection_context`, `session_context`, `connectted`, session-event channel, `microphone_running` of each session | `start`, `start_microphone_chat`, `stop` | the application, a dispatcher per connection (`run_net_work_thread`), an audio thread per session (`run_microphone_mode`) |
| Microphone | `src/rtvoice/microphone.rs` | capture channel, `data_consumers` under a mutex, each reader's channel, buffer and index | `open_reader`, drop of a reader, `read`; the callback's downmix and resampling | the device's callback, one worker, the readers' threads |
| Protocol | `src/rtvoice/doubao/protocol.rs` | none | `marshal`, `unmarshal`, message makers | |
| Sound | `src/rtvoice/sound.rs` | `running`, command channel, the sink, each `PcmSource`'s position | `play`, `stop`, drop; worker `run_work`; `PcmSource::next` | callers, one worker, the device |
| main | `src/main.rs` | who holds the Sound | start, sleep 120 s, stop, exit | main |
| config, request_payloads, errors | the rest | constants, JSON structures | | |

How they interact. RtService calls `NetClient::connect` with a callback that
puts each message in a channel; the dispatcher takes it out, sends a
`StartSessionEvent` to the application thread for event 150, or calls
`Sound::play` for audio. The application thread and the audio thread both send
through the same NetClient. The audio thread owns a MicrophoneReader. RtService
and each dispatcher hold the Sound in an `Arc`; whoever lets go last stops it. All
shared state is an atomic flag, a channel, or the mutex of `data_consumers`.

What is hard: three or more threads that look at flags and then act; a
connection lost at any point; messages cut by WebSocket frames; a server that is
late or silent; `stop` joining threads that may be blocked; flags shared by a
connection and the next; indices into a vector that shrinks; lengths and
conditional fields read from the wire; a process that exits under its threads.
`PROJECT.json` lists each hazard at its line, with the properties aimed at it.

What makes each part correct:

* NetClient: messages delivered in order, once, none skipped; commands written
  in order, none lost but the one whose write failed; the flag true to the
  worker; under fair scheduling everything sent and accepted gets through
  unless the connection is lost, and a lost connection ends the worker.
* RtService: the order of requests on the wire that the service expects; one
  dispatcher and one audio thread at a time, owned by the current connection and
  session; a session started by its own answer; audio played in order; once
  connected `start` returns, and once woken `stop` does.
* Microphone: a reader gets consecutive, whole samples; a registration is its
  reader's own; the worker survives its readers; `read` returns.
* Sound: plays in order what `play` accepted; `stop` ends the worker whatever it
  is doing; a sample is never cut, lost or shifted.
* Protocol: `unmarshal` inverts `marshal`, never accepts a proper prefix, and stays
  within its buffer whatever it is given.
* The callback's arithmetic: keeps the device's time, never wraps or overshoots.
* main: its return ends the process, with the threads joined that RtService and
  the Sound spawned for a chat.

## 2. Modules

| Module | What it is |
|---|---|
| `NetLink` | the contract of a NetClient: two ordered pipes, cut short by the loss of the connection |
| `NetClient` | the detailed worker and its callers, safety, liveness, and the refinement of `NetLink` |
| `NetClientMC` | values for checking it |
| `NetClientProofs` | the inductive invariant and the safety theorems, for all constants |
| `NetClientLinkProofs` | EXTENDS `NetClientProofs`: that NetClient implements `NetLink` |
| `RtService` | EXTENDS `NetLink`: the application thread, dispatchers, audio threads, the service as environment; the parts of `ServiceInv` |
| `RtServiceProofs` | its inductive invariant and safety theorems |
| `Speaker` | what a Sound promises: clips played in the order accepted, at most one more once it is being closed |
| `Sound` | holders and worker of the Sound, and the refinement of `Speaker` |
| `SoundProofs` | its inductive invariant, and that it implements `Speaker`, for all clips |
| `App` | EXTENDS `RtService` and `Sound`: main, the life of the Sound, the exit |
| `AppProofs` | EXTENDS `RtServiceProofs` and `SoundProofs`: the program keeps what its parts promise, and what ties them together |
| `Microphone` | registry, worker, readers; the parts of `MicInv` |
| `MicrophoneProofs` | its inductive invariant and safety theorems |
| `Protocol` | the codec as operators on bytes |
| `Downlink` | EXTENDS `Protocol`: bytes, frames, parse loop, `PcmSource` |
| `DownlinkMC` | the messages and garbage it is checked with |
| `DownlinkProofs` | that the codec inverts itself, and the way of bytes and samples |
| `DeviceStream` | the arithmetic of the capture callback |
| `DeviceStreamMC` | rates and extreme samples |
| `DeviceStreamProofs` | that it keeps time and never wraps, for any rate, channels and samples |

### NetClient

An action is one step of a thread between two points at which another thread can
see the difference. `worker` is the place in `run_work`: `loop` (line 271),
`drain` (the inner loop, 273), `read` (304), `parse` (312), `close` (385). A send
is two steps, `SendCheck` (the flag) and `SendOk`/`SendErr` (the channel), because
the worker can act between them. Channels keep their history: `cmds` and an index
`taken` rather than a queue that forgets.

Bytes are positions in the server's stream and message k ends at `MsgEnd[k]`, so
"in order, once, none skipped" is a statement about numbers while frames, buffer
and `processed_bytes` stay as in the code. `unmarshal` is its outcome on a prefix:
complete, more needed (`InsufficientData`, `PayloadOverflow`, `ReadOverflow`), or
not UTF-8. The last throws the whole buffer away, so what arrives next may begin
in the middle of a message; from then on `Garbage` bytes parse as anything.
JSON is not looked at by `unmarshal`, so that is its only other error.

The peer may close, reset, or send what the WebSocket layer refuses (`PeerFault`);
a reset loses a tail of what was not read. An I/O error on read is taken for a
timeout by the code and by `ReadNothing`; a reset worker may go round for ever.
Any write may fail: the peer is gone, or the command does not fit the 8 KB write buffer.

### NetLink and the refinement

`NetLink` has no buffers, frames or read timeouts: `Take` writes the next command,
`Fail` loses it and the connection, `Receive` hands over the next message, `End`
returns. `NetClient` implements it with `phase` = `worker` without its inner
places, when no message is malformed (`ImplementsLink`). One consequence shows in
`NetLink`: a message can still be received after `Fail`, since a failed write
leaves only the inner loop.

### RtService

`svc` is where the application thread is. `start` is `StartConnected` |
`StartConnect` | `StartRefused`, then `StartConnection` (event 1), `StartSession`
(event 100), `SessionStarted` | `SessionTimeout`, `Greet` (300), `OpenReader`;
`stop` is `Stop`, `JoinMic`, `FinishSession` (102), `FinishConnection`, `JoinNet`.
Each send is NetLink's check and its channel step (`SendRequest`), and each `?`
returns to `idle` with what was already done left in place. A dispatcher
alternates between looking at `connectted` and `recv`; an audio thread between
looking at `microphone_running`, reading and sending. Session ids are the number
of the `start` that drew them; connections are numbered as they are opened.
Messages are event 150 with its session, audio, or any other.

The service (external) is what the client relies on: it answers a StartSession at
most once and after it, speaks in a session after a SayHello, says other things
at any time after it was spoken to, or nothing.

### Microphone

A byte is its position in the captured stream. `consumer_index` is what each
reader's `on_close` captured; `RemoveConsumer` is `Vec::remove` with its panic,
which poisons the mutex. `read` is split into refill, copy (all the turns of the
byte loop that find a byte: no other thread sees them) and return. A closed
reader's channel is emptied.

`nested` is a history variable: it stays true as long as each reader closed was the
last one opened of those open. RtService, with one reader at a time, never leaves
this case; `OwnConsumer` and `WorkerOutlivesReaders` are claims about it only,
the properties of `read` about any order.

### Sound, Speaker and App

`play` borrows the Sound and `stop` borrows it mutably, so they exclude each other:
`SoundPlay` is one step, `stop` three (`SoundStop`, `SoundSendStopping`, `SoundJoin`),
between which the worker moves. `soundWorker` is `check` (`sound.rs:58`), `recv`
(59), `detach` (75) or `done`. In the refinement the speaker is `open` while
`running`, `closing` once the flag is low and the worker still in `recv`, else
`closed`: the flag outruns the channel, so that what is queued when stop comes is
dropped, except for one clip which a worker already past the flag may still play.

`App` puts RtService and Sound under main: `start` (of the Microphone, then RtService's
connect), `starting`, `chat` (the sleep),
`stopping`, `drop` (of the RtService), `dropSound` (`Sound::drop`), `exit`. A start that
fails goes straight to `drop`; a Microphone that fails to start (`MicrophoneFails`) is a
panic that drops the Sound. Dropping the RtService stops the Sound unless a
dispatcher is alive and holds it too: that is the case exactly when start failed
after the connection was made, and then the Sound is not stopped by anybody. After `exit` no
thread moves. RtService's own actions are used unchanged, except that the
application's idle choices (`start_microphone_chat`, a second start) are main's
to make, and it makes none. The Microphone's worker is not followed here: nothing lowers
its flag (`microphone.rs:125`) and nobody joins it, so it runs to the end of the process. The speech a dispatcher takes is a clip named by
its connection and its place among the messages.

### Protocol and Downlink

A byte is a number, 255 standing for what is not UTF-8. An `Option` is a sequence
of at most one element, `Field` and `ReadField` write and read one when the flags ask
for it. Lengths and events from 2^31 on are taken as 2147483647: longer than any
data and no event, as the code finds too. The fields nothing looks at
(`sequence`, `error_code`) keep their bytes.

`Downlink` sends what `Marshal` makes through a socket that is cut into frames of any
length, runs `run_work`'s buffer and parse loop on `Unmarshal`, and lets the device
pull samples from `PcmSource`s in a queue. It gives NetClient its assumption: that
`unmarshal` on a proper prefix says "more", and on a whole message succeeds and takes
just its bytes. Instead of messages the server may send bytes that are none, after
which only `ConsumesWithin` is claimed. A sample is the bytes it is made of; what
`PcmSource` does with an f32's value is not modelled.

### DeviceStream

One action per callback: downmix (truncating for integers, scaled, rounded and
clamped for floats), resampling with the number of outputs rounded up, bytes. A
float is a multiple of 1/`F32Unit`. `resample_i16` computes in f64, the model in
exact fractions: for 48, 24, 16 and 8 kHz both agree on every output; at the rates of
the 44.1 kHz family a result halfway between two integers may round to the other
one, a difference of 1 that neither property tells apart. `downmix_to_mono_f32` computes
in f32: its sum over three or more channels, and the division, may round where the model
does not, a difference of the last place of an f32, which can also move a result by 1. The silent `else` of
`microphone.rs:322-327` (an output past the input's end is dropped) is never reached.

### Fault operators

An operator marked `Fault:` stands before the definition it is a wrong version of:
the definition with a bug such as a dropped break, a missing join or an index off
by one. No specification uses them. Each passing property is paired with one
(`PROJECT.json`, `mutants`) that breaks it, which shows that the property can
fail in the run that checks it.

## 3. Runs

| Run | Configuration | Instance | Shows |
|---|---|---|---|
| net_safe | `NetClientSafe` | 2 callers, 4 messages of 1, 2, 2, 1 bytes, the third malformed, 3 commands | `InOrderDelivery`, `WrittenFaithfully`, `FlagFollowsWorker`, and the invariant `NetInv` of the proofs |
| net_live | `NetClientLive` | 2 callers, all well formed | `MessageDelivered`, `CommandWritten`, `LossEndsWorker`, `ImplementsLink` |
| service_once | `RtServiceOnce` | 1 start, 1 connection, 2 audio chunks, 3 messages | `WireOrder`, `StartedByServer`, `AudioThreadOwned`, and the invariant `ServiceInv` of the proofs |
| service_restart | `RtServiceRestart` | 2 starts, 2 connections, 2 messages each | `TypeOK`, `OneDispatcher`, `SpeechInOrder`, `ServiceInv` (which holds `WireOrder` of two sessions in its `QueueOrder`) |
| app_live | `AppLive` | the program's one start, 1 chunk, 3 messages | `SoundTypeOK`, `SpeechAccepted`, `JoinedAtExit`, `StartReturns`, `StopPassesMicrophone`, `StopReturnsOnceWoken`, `MainExits`, `ImplementsSpeaker`, and the invariant `AppInv` of the proofs |
| service_foreign_event | `RtServiceForeign` | 2 starts on 1 connection | `StartedByServer` fails (below) |
| service_stop | `RtServiceStop` | 1 start | `StopDisconnects` fails (below) |
| app_exit | `AppExit` | the program's one start | `FinishSessionSent` fails (below) |
| mic | `Microphone` | 2 readers in any order, 5 samples | `MicTypeOK`, `ReadsContiguous`, `ReadsWholeSamples`, `OwnConsumer`, `WorkerOutlivesReaders`, `ReadReturns`, and the invariant `MicInv` of the proofs |
| mic_two | `MicrophoneTwo` | 2 readers open together | `WorkerNeverPanics` fails (below) |
| codec | `Downlink` | 13 shapes of message, 91 garbage strings, 2 sends, both formats | `ReceivedAsSent`, `NothingHeldBack`, `ConsumesWithin`, `SpeechHeard`, and the invariant `DownInv` of the proofs |
| device | `DeviceStream` | 4 formats, 1 and 2 channels, 5 rates, 3 callbacks of up to 3 frames | `DriftBounded`, `WithinInput`, and the invariant `DeviceInv` of the proofs |

Why the bounds are enough to be interesting. Messages of different sizes with
frames of any length make every cut: inside a message, at its end, across several.
Four messages put two good ones before the malformed one, whose order `InOrderDelivery`
compares, and one after it, which a lost beginning of the buffer can shift. Three commands let
one be written, one fail and one be left behind. One start and two connections are
the smallest with a dispatcher of an earlier connection; two starts on one
connection the smallest with a late event. A caller's buffer of 4 bytes against
chunks of 2, 4 and 6 makes a read that fills in mid-chunk, at a chunk's end, and
one that needs two. `MaxCmds` (RtService) bounds only repeated calls of
`start_microphone_chat`. The program starts once, so app_live's three messages
(the session's answer, speech, and one more) let speech meet stop, or be all that wakes
it. Two messages in a row are the smallest codec instance in which one read holds the end of the
first and the beginning of the second, and every pair of shapes occurs; odd and empty
payloads meet both sample widths. The samples of run device are the limits of each
format, where arithmetic wraps first, and its frames make outputs between two inputs, at the
last one, and rounded up. The runs stop on their bounds, and the program itself may
stop (nothing more to say, application idle), so deadlock is not an error in them.

Fairness. Weak fairness of each thread that runs by itself once called: the
worker, a caller between check and send, the service's calls, dispatchers, audio
threads, a thread inside `read`. The worker needs one strong assumption,
`ReadBinary`: a socket that holds data is not timed out on for ever. The
application need not call anything, the peer need not answer, the connection need not end.
In RtService `Take` and `End` are fair, which is what `CommandWritten` and
`LossEndsWorker` establish for NetClient. In App main is fair too (it sleeps a
bounded time and then calls), and the Sound's worker; neither the server nor the network is.
Main's one step without fairness is `start`: connect reads the TLS and WebSocket handshakes
without a timeout (`net_client.rs:93,133`; the 10 ms are set at `:256`), so a silent server can
keep it there, and `StartReturns` begins where connect has returned.

### What the failing runs show

* **service_foreign_event.** `start_session` waits for "event=150
  SessionStarted" (`rt_service.rs:273`) by taking the first event of a channel
  shared by all sessions, and `StartSessionEvent` has no session id. After a start
  that timed out, the late answer starts the next session; `:279` then says the session has started,
  and the greeting is sent, though the server has not answered this StartSession.
* **service_stop.** `do_finish_connection` says "断开连接" (disconnect,
  `:316`) and only lowers RtService's own flag and joins the dispatcher. Nothing
  tells NetClient: its worker and the socket live on, and as long as the server is
  silent the dispatcher stays in `recv` and `stop` does not return.
  `StopReturnsOnceWoken` (run app_live) is what does hold.
* **mic_two.** The index under which a reader unregisters is stale once an earlier reader
  has gone. With two readers open, the drop of the second panics in
  `Vec::remove` with the lock held, and the worker's `lock().unwrap()`
  (`microphone.rs:127`) panics next. RtService opens one reader per session and joins its thread before the
  next (`AudioThreadOwned`), where it cannot happen (`WorkerOutlivesReaders`, run mic).
* **app_exit.** "会话结束语发送完成" (`rt_service.rs:105`, the end of the session has been sent)
  holds of NetClient's channel, not of the socket: main returns when stop does, and the
  process ends without waiting for NetClient's worker, so FinishSession may be lost
  on a healthy connection. `JoinedAtExit` (run app_live) is what main does wait for:
  the audio thread, the dispatcher and the Sound's worker.

## 4. Proofs

Every safety property that a passing run checks is also a theorem, for every value of
the constants. The proofs take one inductive invariant per component; TLC checks
each of them on a run (section 3), and each is a conjunction of named parts with
a lemma per part or per action.

| Module | Theorems | From |
|---|---|---|
| `NetClientProofs` | `Inductive` (`NetInv`), `TypeCorrect`, `DeliveredInOrder`, `WrittenInOrder`, `FlagTruthful` | `NetAssumption` |
| `NetClientLinkProofs` | `RefinesNetLink` | and `Malformed = {}` |
| `RtServiceProofs` | `ServiceInvariant`, `ServiceTypes`, `OneDispatcherRuns`, `AudioThreadJoined`, `RequestsInOrder`, `SpeechHeardInOrder`, `FirstStartAnswered`, `UsesNetLink` | `ServiceAssumption` |
| `SoundProofs` | `SoundInvariant`, `SoundTypeCorrect`, `ImplementsSpeakerSafety` | `SoundAssumption` |
| `AppProofs` | `AppRunsService`, `AppServiceInvariant`, `AppRunsSound`, `AppInvariant`, `NoSpeechRefused`, `ServiceJoinedAtExit`, `ProgramSessionAnswered`, `AppSoundTypes`, `ProgramSpeaks` | and `AppAssumption` |
| `MicrophoneProofs` | `MicInvariant`, `MicTypes`, `ContiguousReads`, `WholeSampleReads`, `ConsumersOwned`, `WorkerGoesOn` | `MicAssumption` |
| `DownlinkProofs` | `CodecInverts`, `CodecWithin`, `DownInvariant`, `MessagesArrive`, `NoneHeldBack`, `ParseAdvances`, `SpeechIsHeard` | `DownlinkAssumption` |
| `DeviceStreamProofs` | `DeviceInvariant`, `StreamKeepsTime`, `NothingWraps` | `DeviceAssumption` |

What is assumed of the constants:

* `NetAssumption`: message ends increase, a malformed message is recognised
  within its own bytes, `Disconnect` and `None` are no commands or sends.
* `ServiceAssumption`: connections are numbered, NetLink's callers, commands and messages
  are the service's, and the four marker values (`Disconnect`, `None`,
  `NoClient`, `NoSession`) are none of the things they mark the absence of.
* `SoundAssumption` and `AppAssumption`: Stopping is no clip; in the program a clip is
  a message of a connection.
* `MicAssumption`: the caller's buffer is a positive number of whole samples (it is 640
  bytes in `run_microphone_mode`).
* `DeviceAssumption`: rates and channels are positive, a sample is a value of its format.
* `DownlinkAssumption`: the server's messages are `WellFormed`, that is, have the fields
  their type, flags and event ask for, strings that are UTF-8, and lengths and events
  below 2^31; what it sends instead are bytes. `WellFormed` is what `marshal` can be
  given without an error or a field that it leaves out.

### NetClient

`InOrderDelivery` speaks of what was delivered only; to know that the
next message parsed is the next one, one must know what the buffer and the wire hold.
`InSync(c)`: the bytes of `current_binary` followed by those on the wire are
consecutive, from `MsgEnd[Len(delivered)] - processed` on, up to the end of what was
sent while the peer is open. Reading a frame moves bytes from one part to the other,
delivering moves `processed` and the end of the last message by the same amount,
draining moves the beginning of the buffer and `processed`, and so each keeps the
sum. A malformed message may throw away a part of a later one: then `InSync` is
gone for good and `LostSync(c)` holds instead, some malformed message having
been reached with all before it delivered, which is all that
`InOrderDelivery` needs. `WritingInv` carries the drain loop: it runs only while the flag
is up, so a command that was lost is the last one taken.

`RefinesNetLink`: with a peer whose messages are all well formed, every step of a
caller, of the worker, of the peer or of the network is a step of `NetLink` or none.
The hard case is `ParseOk`: that the message taken from the buffer is the one
`NetLink` receives next is `InSync`.

### RtService

`ServiceInv` says, beside the types: each connection's two pipes are gapless prefixes
(`PipeInv`); connections are opened in order and only the newest has a dispatcher, though
all dispatchers share `connectted` (`ConnectionInv`); what the application thread has
in hand at each place (`ContextInv`) and which request each thread holds between check
and send (`PendingInv`); the order of what is queued (`RequestInv`); what the
speaker was given (`SpeechInv`); and where the session events come from (`OriginInv`).

`WireOrder` is about what was written. Its inductive form `QueueOrder` is about the
channel, of which the wire is a prefix wherever the connection is lost. It is not inductive alone: a
request that is checked but not yet queued must still be in order when it is, which
takes `Greeted` (an audio thread runs only after its SayHello was queued),
`SessionAsked` (nobody has finished the session in hand), `OpenedFirst` and `SidsDrawn`; and
that no audio follows a FinishSession is `AudioThreadOwned`: `JoinMic` comes first.
`OneDispatcher` rests on `JoinNet` before the context is given up.

`FirstStartAnswered` states `StartedByServer` while there was one start, because run
service_foreign_event refutes it for two. `UsesNetLink` says RtService takes only
NetLink's steps; `RefinesNetLink` says NetClient does.

### Sound

The refinement needs three facts `SoundTypeOK` does not say. `FlagInv`: while the flag
is up nobody is in stop and the worker is in its loop, so that `play` can only add to an
open speaker. `StoppingLast`: nothing follows Stopping, so that the accepted clips are
those before it. `SinkInv`: the sink is the prefix of the commands taken, and as long as
the worker is in its loop all of it, so that the next command is the clip the speaker plays next.

### App

`AppRunsService` and `AppRunsSound`: every behaviour of the program is one of `RtService`'s
`Spec` and one of `SoundSpec`, so that the theorems of both hold of it. For Sound that
is not obvious: that `play` and `stop` never overlap, and that one thread stops it,
comes from who holds the `Arc`, which is `SoundHeld` of `AppInv`. `MainInv` is main's
order of calls: a chat that was started is over before the service is dropped. From them
come `NoSpeechRefused` (a dispatcher that is alive finds the Sound running) and
`ServiceJoinedAtExit`: of the threads RtService and the Sound spawn none is left after a chat,
a dispatcher only after a start that failed once connected, and the Sound's worker only with
such a dispatcher. NetClient's and the Microphone's workers are joined by nobody. The program starts once, so `ProgramSessionAnswered` has
`StartedByServer` without a condition.

### Microphone

`MicInv` is one line of bytes without a gap: what a reader got, what its buffer holds,
the rest of its current chunk, its channel, the device's channel, up to `made`.
Every step moves a boundary between two neighbours, or begins the line anew (a reader that
opens). Only one whose consumer is registered and whose worker runs is promised the
last part (`Fed`); for the others the line ends earlier. Whole samples are
parities: of the chunks, of the index, of what was read, and of `BufLen`.
`RegistryInv` says that, while readers close in reverse order of opening, the
registry is the open readers in that order, each at the index it captured; so `Vec::remove`
removes its own and never panics.

### Protocol and Downlink

`CodecInverts` goes through `unmarshal` field by field: if the bytes at the offset begin
as the field's bytes do (as far as there are any), reading it gives the value and the next offset,
or one of the errors of `More` because the data ends. Six such steps, each keeping the message read
so far equal to the one written in the fields already passed, make the round trip, for
a message followed by anything and for any beginning of one. `CodecWithin` is
the same walk for bytes that mean nothing. It gives NetClient's
`Complete` and `Incomplete` their ground.

`DownInv` has two equations between sequences: `Remaining \o socket` is the bytes of the
messages not yet received, and what was heard, what the sink's sources still hold
and the speech not yet received are all of the server's speech. Frames, parse steps,
drains and samples move parts across; that the sum is kept is associativity, and what
concatenating a list does when it grows or loses its head (`FlattenSeq`, by
induction). `reading` with a message outstanding means that what is left is shorter
than it; hence `NothingHeldBack`.

### DeviceStream

A frame's sum is within its length times its extremes, by induction on the length; truncating,
rounding and clamping are monotone; an output lies between the two inputs it
interpolates; bytes decode to what they encode. So each decoded sample lies
between what the callback's quietest and loudest input are worth.
`StreamKeepsTime`: rounding up adds less than one sample per callback, and callbacks add up.
The theorems are about the model's exact fractions; section 2 says where f64 may differ by 1.

### Inductions

TLAPS cannot use the library's induction theorems here. Where an induction on a length
is needed (sums of frames, `FlattenSeq`), the proof takes the least number at which
the claim fails, which exists because `<` on the naturals is well founded.

### Only model-checked

All liveness properties (`MessageDelivered`, `CommandWritten`, `LossEndsWorker`,
`StartReturns`, `StopPassesMicrophone`, `StopReturnsOnceWoken`, `MainExits`, `ReadReturns`) and
the liveness part of `ImplementsSpeaker` (`NetLink` has no fairness): TLAPS here proves
neither liveness under fairness nor ENABLED. And what the failing runs refute.

## 5. Not modelled

URL parsing, TLS and the handshake: one step that succeeds, fails, or never comes. `run_work`
starts with a `read_buf` of its own (`net_client.rs:259`), so bytes read together with the
handshake's response would be dropped: that concerns a server that speaks first only, while
RtService's speaks when it was spoken to, and `NetClient`'s messages are those that come after the
handshake. Nor are modelled the bytes of
commands; logging and the Display of errors; JSON (whether event 150 has a dialog id is
whether it is `started` or `other`); sizes in bytes, so that exceeding a buffer of the WebSocket
library is an error that may come at any time; memory use of the unbounded channels;
the device itself (cpal and rodio: callbacks come at any time, a sink plays what it
is given in order); the value an f32 sample is converted to for playback.
`Microphone::play` and `pause` start and stop callbacks that may come or not anyway, and
`set_timeout` changes how long a `read` waits, which has no length in the model.
`config.rs` and `request_payloads.rs` are constants and structures to be serialised,
with no control of their own; `create_full_client_message` and the session id's uuid
are used for nothing a property could tell apart.
The Microphone's worker is modelled while it lives; that it never ends (`microphone.rs:69,125`,
started at `main.rs:23`) is a fact of the code that no property speaks of.
The three timeouts (10 ms, 20 ms, 5 s) are choices of the model: a timeout may come
whenever there is nothing to receive.

## 6. Plan

Done: every component with state of its own is modelled, and every safety property
that a passing run checks is proved. What could follow:

1. An instance of `NetClient` under `RtService` in one specification, instead of the two
   theorems that meet at `NetLink` (`RefinesNetLink`, `UsesNetLink`).
2. A bound for the difference between `resample_i16`'s f64 and the exact fractions.
