# TLA+ specifications of gofixmsg

This directory specifies and verifies **gofixmsg**: a FIX protocol engine in Go
(`src/gofixmsg/`), and the Python engine and message library it replaces, which
the repository keeps (`src/zz_archive/`). Line numbers refer to this commit. In
sections about the Go engine paths are under `src/gofixmsg/`, in those about the
Python engine under `src/zz_archive/pyfixmsg_plus/fixengine/`, in those about the
library under `src/zz_archive/pyfixmsg/`; the modules of the Python parts begin
with `Py`.

TLC checks each module on small instances; TLAPS proves the theorems of the
`*Proofs` modules for every value of the constants. `PROJECT.json` ties every
definition to the lines it models, every run to its question and every property
to a hazard of the code.

## 1. The system

### Components

| part | state it keeps | operations | what makes it correct |
|---|---|---|---|
| **Sequence numbers** `engine/seqnum.go`, `store/sqlite.go` | two counters under a mutex; one row of the `sessions` table | `IncrementOutgoing/Incoming`, `SetOutgoing/Incoming`, `NewSeqManager` | a number is never handed out twice, restarts included; the row is what a restart must find |
| **TCP session** `engine/session/session.go` | flags `closed`, `onCloseCalled` under `mu`; context, connection, `sendCh`, two goroutines | `Send`, `Stop`, `abort`, `readLoop`, `writeLoop` | frames leave in order and at most once; one close; one `OnClose`; nobody is left waiting |
| **Engine lifecycle** `engine/engine.go`, `engine/attach.go` | `Session`, `Conn`, `Monitor`, `hbSender` under `attachMu`; `reconnectCtx` under `reconnectMu` | `Connect`, `Close`, `AttachSession`, `DetachSession`, the goroutine started by `OnClose`, the reconnect loop | one reconnect loop; a detached engine is quiet; `Close` returns; a lost session is cleaned up after |
| **Heartbeat sender and monitor** `heartbeat/heartbeat.go`, `engine/heartbeat_monitor.go` | cancel functions, `lastSeen`, `outstanding`, `testSent` | `Start`, `Stop`, `Seen`, a tick every `Interval` | a silent peer is dropped, a live one is not |
| **Sending and admin handlers** `engine/engine.go` 296-360, `engine/handler/` | the sequence numbers and the `messages` table | `SendMessage`, the handlers of Logon, TestRequest, Heartbeat, ResendRequest, SequenceReset, Logout | every number goes out once; a peer that missed messages is caught up and never skips one |
| **State machine** `state/statemachine.go` | current state, subscribers | `OnEvent`, `Subscribe` | legal transitions, observers agree with the state |
| **Multi-session acceptor** `engine/multi_session.go`, `network/acceptor.go` | map of engines, listener, a wait group | accept, register, unregister, `Stop`, `BroadcastMessage` | an accepted session lives until it ends, and then leaves the map |
| **Scheduler** `scheduler/scheduler.go` | tasks, handlers, a ticker goroutine | `Start`, `Stop`, `checkAndExecute` | a task runs once a day, at its minute |
| **Connections** `network/conn.go`, `initiator.go`, `tls.go` | buffered reader and writer | dial, read, write, flush, close | none beyond their I/O |
| **Messages** `fixmsg/`, `fixmsg/codec`, `fixmsg/spec` | none between calls | parse, serialise, repeating groups, length and checksum; loading a dictionary; the frame boundary of `session.go` 275-334 | parse and serialise invert each other; a frame ends where BodyLength says |
| **Validator, ClOrdID, configuration, obfuscation** `engine/validator.go`, `idgen`, `config`, `crypt` | next to none | pure conversions | - |
| **Python state machine** `state_machine.py` | the current state, subscribers | `on_event` | a state is about the connection at hand |
| **Python stores** `database_message_store.py`, `..._aiosqlite.py` | two counters in memory, one row and the messages on disk; the second an `asyncio.Lock` and a worker thread | set, increment, reset, store, load, close | what was counted is what a restart finds |
| **Python engine and handlers** `engine.py`, `message_handler.py` | store, state, outstanding ResendRequest, pending TestRequest, incoming buffer | `send_message`, `process_single_fix_message`, a handler per type, `logon`, `request_logoff`, `disconnect` | numbers go out in order; messages are handed up in order, once, none skipped; gaps are asked about once |
| **Python connections and tasks** `engine.py`, `network.py`, `heartbeat.py` | reader, writer, server, `running`; one task per client, the heartbeat's, the application's | `start`, `retry_connect`, `handle_incoming_connection`, `receive`, `disconnect`, heartbeat `start`/`stop` | a session stays with its connection; what is opened is closed; retries end |
| **Python messages and codec** `fixmessage.py`, `__init__.py`, `codecs/stringfix.py`, `on_network_data` of the engine | none between calls, but the incoming buffer | traversals and edits, length and checksum, `serialise`, `parse`, cutting the stream | what is written is what is read |
| **Python specification** `reference.py` | tags and their values with lazy maps, message types | `add_tag`, `add_enum_value`, `del_enum_value`, `add_group`, look-ups | a map never tells what is no longer there |
| **Python scheduler, generators, configuration, tools** | next to none | - | - |

### How they interact

`Connect` dials, wraps the connection in a `Session` and calls `AttachSession`,
which starts the two loops, the monitor and the heartbeat sender. The `readLoop`
cuts frames and calls the `Processor`, which calls a handler; the handler answers
through `FixEngine.SendMessage`. `SendMessage` takes a number from the
`SeqManager` (which saves it in the `Store`), asks the application (`ToApp` or
`ToAdmin`), takes `attachMu` for an instant to find the session, and enqueues on
`sendCh`; the `writeLoop` writes. When the session ends, `OnClose` starts a
goroutine that calls `DetachSession` and then starts the reconnect loop. `Close`
calls `DetachSession` too. `DetachSession` holds `attachMu` while it waits for
the monitor and for the loops of the session.

The Python engine has no locks: its tasks meet on one event loop. `start` opens a
connection, sends the Logon and then *is* the receive loop; an acceptor's server
starts a task per client that is. The loop gives what it reads to
`on_network_data`, which cuts messages out of the buffer and passes each to
`process_single_fix_message` (number, gap, duplicate), and that to the handler of
its type. Handlers answer through `send_message`, as do the heartbeat task and the
application. Every change of state calls `on_state_change`, which schedules the
stop of the heartbeat once the state is DISCONNECTED; `disconnect` takes down network, heartbeat, scheduler and
store, and may be called by any of these tasks.

### What is hard here

* **Locks that end too early.** `SeqManager` saves its snapshot after the unlock.
  `SendMessage` takes the number, asks the application and enqueues in three steps.
* **A lock held too long.** `DetachSession` waits under `attachMu` for goroutines
  that take `attachMu` in `SendMessage`.
* **Many closers.** Either loop of a session, `DetachSession`, the monitor and
  the application may all end it, at the same time.
* **State that outlives its session.** `reconnectCtx`, the monitor's `ctx` and the
  `OnClose` goroutine of an old session act on the next one.
* **Bytes without borders.** TCP divides frames anywhere, and texts may look like
  trailers; groups have no closing mark and end where a tag does not belong to them.
* **Loss and restart.** Frames in the channel die with the session; numbers must
  survive the process.

* **Awaits in the wrong place.** The Python engine reads the next number, writes
  the message, and counts it after awaits of the asynchronous store; `disconnect`
  waits for a writer while another connection is opened; a timeout's `disconnect`
  is cancelled by the stop it has itself scheduled.
* **State that outlives its connection.** A Python initiator stays ACTIVE when its
  receive loop ends; the outstanding ResendRequest and the closed store stay too.

The `hazards` of `PROJECT.json` list these at their lines.

## 2. The modules

```
FrameLink        what a session promises: a FIFO link that may lose its tail
   ^ implemented by
Session          session.go in full             SessionProofs
SeqManager       seqnum.go and its row          (in SessionProofs)
EngineLifecycle  engine.go, attach.go, the      EngineLifecycleProofs
                 goroutines of both heartbeats
Outbound         SendMessage, the handlers,     OutboundProofs
                 an external peer
FixBytes         separators, numbers as text, the checksum
   ^ extended by
Framing          ToWire's bytes in a stream,    (in SessionProofs)
                 readLoop cuts them into frames
Dictionary       the groups of a dictionary file (fixmsg/spec)
   ^ extended, with FixBytes, by
Codec            Serialise, Parse (fixmsg, fixmsg/codec)
   ^ extended, with Framing, by
Wire             messages between ToWire and OnMessage

PyStateMachine   state_machine.py      PyStore   both message stores
   ^ extended by
PyEngine         one engine as operators:       PyEngineProofs (lemmas)
                 sending, sequence check, handlers
   ^ extended by
PyPeer           one engine against a peer      PyPeerProofs
                 that may send anything
PyPair           an initiator and an acceptor   PyPairProofs
                 against each other

PyConn           the tasks around a connection, PyConnProofs
                 await by await (extends PyStateMachine)
PyAsync          tasks at the lock of the       PyAsyncProofs
                 asynchronous store

PyTags           tags and their maps            (in PyAsyncProofs)
PyReference      message types, groups (both reference.py)
   ^ extended by
PyMessage        messages, length, writing and reading (fixmessage.py, stringfix.py)
   ^ extended by
PyLibrary        an application and an engine's buffer at work with these

MC*              instances for TLC
```

`EngineLifecycle` uses of a session only what `Session` shows about it (a closed
flag, a reader that exits once its connection is gone, one `OnClose`), and
`Outbound` takes the FIFO link of `FrameLink`, emptied at a loss, as its queue:
the two promises `Session` is checked to keep.

Each module keeps a few definitions introduced as *slips*: a plausible mistake in the
action that follows it (a dropped test, a missing wait, an off-by-one). No
specification uses them; put in the place of the action they break the property
named beside them in `PROJECT.json`, which shows that the property says something.

### SeqManager

An operation is two actions: the locked half (`IncrementOutgoing`,
`SetOutgoing`, ...) moves a counter and keeps a snapshot of both; `Saved` or
`SaveFailed` is the call of `SaveSessionSeq` after the unlock. `NewSeqManager`
is process death at any point followed by the load. A missing row reads as 0, 0,
and a stored number is kept only if it is above zero. The numbers callers set
are 1 (Logon reset, scheduler) and -1 (a SequenceReset whose NewSeqNo does not
parse). `issued` is a history variable: what `IncrementOutgoing` returned. Its
proofs are the second part of `SessionProofs`.

### Session and FrameLink

One action per stretch between two points where another goroutine may act: the
flag test and the enqueue of `Send`, the select, the read, the dispatch and the
write of the loops, and the steps of `abort` and `Stop` (claim the close under
`mu`; cancel; close the connection; close the channel; wait for the loops; test
`onCloseCalled`; call back). A `Read` brings any number of complete frames, or
fails; a write fails whenever it likes. The select of `writeLoop` and of `Send`
takes any ready case. Frames are opaque. A send on the closed channel is the
recovered panic the code turns into an error. `FrameLink` is the abstract
specification; the mapping is `down <- LoopsDone /\ chClosed`.

### EngineLifecycle

`attachMu` is a variable. `AttachSession` and the end of `DetachSession` are
atomic since they hold it; `DetachSession` is three actions (`DetachLock`,
`DetachMonitorWait`, `DetachSessionWait`) since it waits twice. A caller is at a
stage of `pc`: users (`Connect`, `Close`) and one `OnClose` goroutine per session.
The reconnect loop carries the name of the session whose end started it. The
monitor and the heartbeat sender are goroutines that may tick whenever they are
idle: timing is left out, so whatever holds here holds for every timing. `PeerLoss`
is any failure of the connection, `ReaderExit` and `WriterAbort` the two
loops that notice it. `reconnectCtx` is set only by the first of several loops and
cleared only after an attach, as in the code. A dial that fails changes nothing
and is a stutter; `LoopDialOnce` is what it would be if the loop gave up.

### Outbound

`SendMessage` is `Stamp` (`IncrementOutgoing`, or number 1 after a failed save),
`ToApp` (the application may refuse, and may store the message, since the engine
never does) and `Send` (enqueue, or, without a session, an error or a write into
a buffer that returns nil). That buffer is the old connection's, which nobody
flushes, or, between `e.Conn = c` and `AttachSession`, the new one's, which the
session's first write flushes (`unflushed`). The handlers run in the `readLoop` one
at a time: `ResendStart` and `ResendStep` are the loop of the ResendRequest
handler, `SequenceReset` and `LogonReset` move the outgoing counter. The peer is
external: it processes in order, asks for a resend at a gap with EndSeqNo 0 or
the number it saw, and gives up when an unmarked number is too low.

The gap fills of the ResendRequest handler have a bad header. It calls
`NewSequenceResetMessage(target, sender, ...)` with the parameters `(sender, target,
...)` (handler/handlers.go:182, 228, 242), so a fill names the peer as its sender and the
engine as its target, and it leaves through `SessionSend`, which stamps no
SendingTime. `good` says whether a message has a header its receiver can accept:
only a fill has none. Which of `Peers` it meets shows with the first fill (`peerIs`): one that
*trusts* takes a fill for what it is meant to be, one that *checks* refuses it
(`PeerRejects`), does not count it, and its gap stays open. A checking peer may also end
the session over such a message; `SessionLost` may come at that point as at any other.

### Framing, Dictionary, Codec and Wire

`Framing` is `readLoop` as far as it cuts frames off the stream. The peer's messages
are written one after the other (`Written`); of a message it knows the text of tag
8, which has no separator, and the body, which may have any bytes.
`ReadBytes(n)` is one `Read`, `CutsOff` one turn of the inner loop (`FrameEnd` is
`findBodyLengthFrameEnd`, `Summed` and `ToWire` are what `SetLenAndChecksum` and
`ToWire` make of 8, 9 and 10), `Incomplete` leaves that loop. `cut` is a history
variable. What `readLoop` does when the session ends is `Session`; here `ReadEnds`
may come before any read. Nothing in it is recursive in a message, so it can be
proved about.

`Dictionary` and `Codec` are functions, `Wire` the state machine that composes
them with `Framing`. Bytes are numbers, so that BodyLength counts and CheckSum
sums what the code counts and sums. A message is a function from tags to texts or
to groups, a group a sequence of such functions. `Populated` and `Collected`
follow `populateGroupSpec` and `collectFields`, which see the fields of an
element first, then its groups, then its components, wherever these stand in the
file. `ParseGroup` is `parseGroup`, one recursive call per field. Texts that
`strconv` or `Sscanf` would read with a sign or blanks do not occur.

In `Wire` the peer's messages are stamped: `Stamped(m)` is the message with tags 9
and 10, and the parts that `Framing` writes. `WireAssumption`, which TLC
evaluates, says that `Serialise` of the stamped message is `Framing`'s `ToWire` of the
parts, so that the frames are those of the code's canonical order. `Dispatch` is
`CutsOff` and the parse behind it (`Parse(NoSpec, ...)` is
`codec.New(nil).Parse`), which drops a frame that does not parse. `delivered` is a
history variable. Every step of `Wire` is a step of `Framing`.

### PyStateMachine, PyStore and PyEngine

Operators, no variables: one per `State` class, one per operation of a store, and
one per function of the engine, from an engine (a record) to an engine. With the
synchronous store nothing a handler awaits suspends it, so a handler runs in one
piece and *is* an operator; where something does suspend, `PyConn` and `PyAsync`
take the steps apart. `Send` follows `send_message`: a Logon that resets is number
1 and 2 comes next, without a running network a message is counted all the same,
and on a lost connection the engine disconnects. `ProcessSingle` is
`process_single_fix_message`, its branches in their order: bad number, gap fill,
Logon that resets, too high, too low, in turn. `HandleResendRequest` answers every
number with a gap fill, since `from_wire` of a stored row gives nothing back; `Filled`
is that loop, a function of how many numbers it has answered. `Messages` are
the messages a handler can tell apart, with any natural number in any field.
Numbers are the counters' own; `Bad` is one that is missing or not digits.

### PyPeer and PyPair

`PyPeer` lets everything happen to one engine that a peer, a network, a timer and an
application can do: connect, be refused, read one message or two at once, find the
connection lost, send, log off, disconnect, die and be created again on its
database. `PyPair` joins two engines by a connection that keeps order; each end has
its socket, and the acceptor its server, which goes down with its first client's
receive loop. History variables remember what the properties need of earlier steps:
`top`, `got`, `lastSent`, `asked`, `loggedOn`; `anew`, `excused` and `stale` name the
steps after which a property says nothing, and why. `top` and `asked` are read off
what the engine handed up and sent in the step (`Unmarked`, `Asks`).

### PyConn

One action from one await that can suspend to the next. `pc` says where a task
waits: opening, in a read, for a writer that closes (in `disconnect` or at the end of
`receive`), behind the network's `disconnect` (`fin`), asleep. `Calls` is the begin
of any `disconnect`, with the early return (`Over`), `Returns` where its caller goes
on. A send may find its connection lost: `SendLost` is `send_message` with the `network.send`
that raises (network.py:59-66, engine.py:317-324), within the step of the task that
sends the Logon (`LogsOn`), answers one (`ReadsLogon`) or says Logout, or in
`SendFails`, which stands for the application's, the heartbeat's and the other
handlers' sends. `Returned` is the `finally` of `client_connected_cb`, which closes a
client's writer if its handler has not. A store that raises within a send is left
out: it ends the session as a lost connection does, but for the wait for the writer. The
scheduled `heartbeat.stop` is the flag `stop`. `owner`, `overlap` and
`crossed` are history: whose Logon made the session, whether a client came beside
another, whether a `disconnect` ended over a connection opened after it began;
`unsent` is set while the last connection's Logon could not be sent and `start` was
not called again. `wait_closed` of a server returns at once, as it does in Python 3.11; from 3.12 on
it waits for the open connections, one of whose handlers calls it.

### PyAsync

`lock` is the queue of the store's `asyncio.Lock`, its head the holder; `taken` once
the holder has woken, `done` once the worker thread has executed its statement. An
operation (`op`) is where a task is in `send_message` or
`process_single_fix_message`: *keep* the message, *count* it; both for a message
received, which is then handed up. `disconnect` cancels the heartbeat wherever it is
and closes the connection behind the lock. `past` keeps four marks: `loose`, a send
began before another had counted its number, or was cut short; `unsaved`, a count
was made in memory only; `rolled`, a process died with such counts; `dropped`, the
numbers counted whose hand-up an end of the process or the store took away.

### PyTags, PyReference, PyMessage and PyLibrary

`PyTags` is a `FixTag` and a `TagsReference` with an application that edits them and
looks them up, in any order: `AddEnumValue`, `DelEnumName`, ... are the methods. The
maps of a tag are `<<>>` until a look-up builds them, as the code's `{}` is taken for
"not built". `PyLibrary` takes its steps as they are.

A message is a function from tags to texts or groups; a field takes three symbols
of the stream (tag, value, separator), so that BodyLength counts, checks and cuts as
the code does without spelling texts. `SortingKey` is `_extract_sorting_key`
with its quirks: a component's fields share the places of those behind it. `Members`
is `_process_group`, which does not know the count; `Framed` is the loop of
`on_network_data`, its two limits on the buffer included. `MaxNoise` and `MaxHead`
stand for 8192 and 4096 bytes.

## 3. Runs

| run | instance | what it shows |
|---|---|---|
| `seq` | 2 callers, numbers to 3, 2 restarts, reads and writes may fail | numbers stay fresh and the row current as long as no two calls overlap and no load fails |
| `session` | 1 sender, 1 handler, 2 stoppers, channel of 1, 2 sends each | one closer, one `OnClose`, `Stop` waits for the loops, everybody gets out, and the session implements `FrameLink` |
| `lifecycle` | 1 user, 2 sessions, 3 calls, all three kinds of senders | one reconnect loop; a detached engine is quiet; teardown ends unless `DetachSession` waits for a sender |
| `close_deadlock` | 1 session, monitor sends | **violated** `CloseReturns`: the monitor waits in `SendMessage` for the lock of the `Close` that waits for it |
| `outbound` | 1 sender and the handlers, numbers to 3, a loss, one upset, either kind of peer | numbers go out once; resends stay behind the counter; a stored message is never skipped; a peer that gives up is explained; an answer heals the gap, unless the peer has refused a fill |
| `gap_fill` | a peer that checks headers, no loss and no fault but two sends in the wrong order | **violated** `FillsAdvance`: it refuses the fills, and the gap stays |
| `messages` | Go: bursts of 1 to 3 of ten messages, reads of 1 to 60 bytes; Python: 4 messages, 3 edits, 8 kinds of junk, reads of 1, 7 and 40 symbols, 4 operations on tags | Go: frames are cut as they were written, plain messages arrive once and in order, groups that fit a dictionary are read back. Python: messages that can be read back arrive as sent; the traversals agree; caches are never stale |
| `py_peer` | either mode, 2 connections, 1 restart, 3 messages read of 21, one timer or call | messages are handed up in order, none skipped but by the three ways named; a gap is asked about once; numbers go out in order; ACTIVE means logged on over this connection |
| `py_pair` | with and without ResetSeqNumFlag, 2 connections, 1 break, 1 restart, 2 timers or calls | no side expects a number the other has not reached; no Logon is one-sided |
| `py_in_step` | the same | **violated** `InStep`: the Logon is not counted when it arrives, so the next message is too high |
| `py_conn` | either mode, 2 connections, 2 starts, 2 disconnects, 2 retries, every send may fail | a session stays with its connection; every writer is closed; an initiator's heartbeat stops, unless its Logon could not be sent; it does not dial for ever |
| `py_async` | 2 application tasks, reader, heartbeat; numbers to 4, 2 restarts | numbers are in sequence and a message is handed up once, but for what `past` names |

The three violations are disagreements with the repository's own documents and comments,
quoted in `findings`. Beside `CloseReturns` and `FillsAdvance` a passing property says
what the code does guarantee (`CloseReturnsUnlessCaught`, unless a sender is caught
behind `attachMu`; `GapHealed`, unless the peer has refused a fill), and the exception it
makes is what the violation shows.

`messages` puts the two message libraries into one run, since both are asked the same
question and neither has state that the other knows: `MCMessages` is `Wire` or `PyLibrary`,
whichever `library` says.

### Exceptions that hide a fault

Several passing properties make an exception for something the code does wrong. Each
exception is a disagreement as well, and is stated without it as an invariant of its own
beside the property. None of these holds: with the `INVARIANT`s and `PROPERTY`s of the
named `.cfg` replaced by it, TLC shows a violation within seconds. They are not runs of
the project.

| does not hold | `.cfg` | it shows | said of it | holds instead | unless |
|---|---|---|---|---|---|
| `NextNumberFresh` | MCSeqManager, with `Faults` and `SetValues` empty | seqnum.go:91: of two overlapping calls the older snapshot is saved last; after a restart a number is handed out again | persistence "survives restarts" (gofixmsg/doc/plan.md:51) | `FreshUnlessOverlapped` | calls overlapped or a load failed (`clean`) |
| `AllSessionsStopped` | MCEngineLifecycle | attach.go:20: a second `Connect` overwrites the first session, whose `readLoop` nobody stops | "shut down cleanly" (plan.md:185) | `DetachedIsQuiet`, `NoStaleDetach` | the application connected twice (`connects`) |
| `EachNumberReceived` | MCPyPeer, with `Inputs <- MCDuplicates`, `Followers = {}` | engine.py:467: a low number marked PossDup is counted like a new message, and the next new one is too low | "robust to out-of-order, duplicate, and gap-fill scenarios" (fix_session_logic.md:164) | `NothingSkipped` | a PossDup was counted, a SequenceReset obeyed or counters lost (`excused`) |
| `GapsAreAsked` | MCPyPeer | engine.py:479: a request noted before a Logon with ResetSeqNumFlag, or on the last connection, lost or unanswered, stops the request after it | "gap detection and recovery" (docs/prd.md:51) | `GapAskedOnce` | the note is from an earlier connection or numbering (`stale`) |
| `NoHeartbeatLeft` | MCPyConn | engine.py:269: `logon` starts the heartbeat after `send_message` has swallowed the error of its Logon (317-324); the initiator is DISCONNECTED, its heartbeat runs and no stop is scheduled | "Stopping heartbeat task due to disconnect" (engine.py:155) | `HeartbeatStops` | its Logon could not be sent (`unsent`) |
| `ClientsKeepApart` | MCPyConn | engine.py:214: a second client takes over reader and writer, and with them the session of the first | "multiple simultaneous FIX sessions" (docs/phase1-implementation-plan.md:279) | `SessionKeepsItsConnection` | clients overlapped, or a `disconnect` crossed an opening (`Sound`) |
| `NumbersUsedOnce` | MCPyAsync | engine.py:294: a task takes the number another has sent and not counted | "fully async-aware" (fix_session_logic.md:163) | `SentInSequence` | sends overlapped or one was cut short (`loose`) |
| `SavedWhileUp` | MCPyAsync | engine.py:559: `disconnect` closes the store and `start` does not open it: later counts die with the process | "maintain sequence number state across restarts" (docs/prd.md:95) | `SentInSequence`, `HandedUpOnce` | counts were in memory only (`unsaved`, `rolled`) |

Exceptions without such a counterpart: the number 1 of a message whose save failed and the
numbers repeated after a SequenceReset (`renumbered` in `Outbound`; no document says what
should happen), the number used again after a heartbeat was cancelled within its
send (`loose`), a loop that was skipped because `reconnectCtx` was still set (`skipped`),
and a `disconnect` that ends over the next connection (`crossed`).

### Other divergences met

Known from reading and modelling, without a run of their own; a passing property
states what holds beside each.

| code | it does | said of it | what holds |
|---|---|---|---|
| engine/attach.go:78 | after `Close` the `OnClose` goroutine starts the reconnect loop | "reconnect loops shut down cleanly" (gofixmsg/doc/plan.md:185) | `StrandedOnlyIfSkipped` |
| engine/heartbeat_monitor.go:45 | a stopped monitor never runs again: its context stays cancelled | a reconnected session is monitored (attach.go:13) | `DetachedIsQuiet` |
| engine/engine.go:342 | nothing stores sent messages, so what a lost session took is gap-filled | "Persist FIX messages for gap filling" (gofixmsg/DEVELOPER.md:626) | `StoredNotSkipped` |
| fixmsg/spec/spec.go:263 | a component's first tag replaces the group's own | the first *field* (spec.go:234) | `GroupsReadBack` with `Fits` |
| network.py:101, engine.py 159-189 | an ACTIVE session whose connection is lost is not reconnected: only a refused connect is | "automatic reconnection" (pyfixmsg_plus/docs/prd.md:66) | `StartSettles`, `LiveMeansLoggedOn` |
| network.py:108 | the end of a client's receive loop closes the acceptor's server: one client per start | - | `NothingLeftOpen` |
| message_handler.py:427 | `onMessage` is called without the session id it requires; the exception costs the rest of the buffer | - | `NothingSkipped` |

### Bounds

Two is the number that matters almost everywhere: two callers overlap,
two restarts let the second load what the first lost, two stoppers race each
other and the loops, a channel of one slot is full at once, and two sessions or
connections are one and the one that replaces it. Three numbers give a gap with a
message on either side. One *upset* (reset, failed save, refusal) is enough because the
properties that mention one say nothing after it. The lifecycle's safety
properties have also been checked with two users and three sessions.

The Go messages of `messages` have bodies of one, two and three digits of length, a text
with `=` and `10=` in it, data with a separator and a whole trailer in it, data whose
pieces do not parse, a group with members of different fields and a nested group, an
empty group, and two groups the codec does not read back; a read may end at any
byte or span three frames.

In `py_peer` the peer's messages have every type and every flaw a handler tests
(bad number, too low, too high, PossDup, a foreign CompID, fills and resets up and
down, ranges with and without an end); the second of a read follows whatever the
first did. `py_pair` reaches a Logon with and without reset on a fresh and on a used
pair, and a gap in either direction; six numbers are never exhausted before its
calls are. In `py_conn` the application may disconnect twice, so that one call
meets another, a timeout, a Logout or the end of a stream; a send may fail in every state
in which one is made. In `py_async` four tasks
queue at a lock that is handed over in order, the fifth would add nothing but a
longer queue; the second restart loads what the first left. In the Python half of `messages` the
limits of the buffer (4 and 9 symbols) are met with and without half a begin at the
end; junk holds a length that is no number, one that ends within a field, one a
field short, one too long, and a begin without a length.

All runs set `CHECK_DEADLOCK FALSE`: callers need not call again, the bounds are
used up, and a session that is down has nothing left to do. What must not get
stuck is stated as a liveness property instead.

### Fairness

Only what Go guarantees. In `Session`, weak fairness of each goroutine
that can run: the scheduler is fair, `Read` and `Write` carry deadlines, so they
return but need not succeed. In `EngineLifecycle`, strong fairness of each
goroutine that waits for `attachMu`: a `sync.Mutex` in starvation mode hands the
lock to the one that has waited longest, so a goroutine cannot be overtaken for
ever. Strong fairness of the monitor's exit: its select finds `ctx.Done` ready on
every pass and a tick only every `Interval`. In `PyConn`, weak fairness of `Engine`, what
the event loop runs by itself: callbacks that are ready, a sleep that is over, a
connection that opens or fails, a writer that has closed. No call, tick,
timeout, message, loss or reset is assumed ever to happen, and in Go no dial.

## 4. Proofs

| theorem | module | argument |
|---|---|---|
| `SeqTypeCorrect`, `NumbersFresh`, `RowCurrent` | SessionProofs | while calls have not overlapped at most one is under way, its snapshot is what memory holds, and every number handed out is covered by memory and by the row as a restart would load it |
| `CallbackAtMostOnce`, `StopQuiets`, `CloseCompletes`, `SingleCloser` | SessionProofs | `Control`: how far each closer has come is visible in the flags it has set, and the callback belongs to the one who set `onCloseCalled` |
| `SessionTypeCorrect` | SessionProofs | `Data`: what was accepted is what was written, what the writer holds and what the channel holds, in this order, until a write fails |
| `Refinement` | SessionProofs | from `Control` and `Data`: `SendEnqueue` is `Accept`, `WriteOK` is `Write`, the last step into `Down` is `GoDown`, all else stutters |
| `FramingCorrect`, `FramesCutAsSent` | SessionProofs | `FramingInv`: what was cut off, the buffer and the bytes to come are the stream that was written, what was cut off are whole messages, and the buffer holds no complete frame when the loop reads again. A buffer therefore begins with the next message or a part of it, and `FrameEndFacts` says what `findBodyLengthFrameEnd` makes of that |
| `LifecycleTypeCorrect`, `SingleReconnectLoop` | EngineLifecycleProofs | `IInv`: a loop at work implies `reconnectCtx`, and there is one; only `StartReconnectLoop` starts one, with `reconnectCtx` unset; only the loop that is through unsets it |
| `DetachedEngineIsQuiet` | EngineLifecycleProofs | `Bookkeeping`: whoever is past the wait for the monitor holds `attachMu`, and the monitor is out; a connection is new until its session is attached, and a session's `OnClose` goroutine runs once |
| `OwnSessionDetached` | EngineLifecycleProofs | `OneSource`: while the application has connected once, at most one *source* of a next session exists (a session that has told nobody of its end, its `OnClose` goroutine, its dialling loop); `OneLive`: only the attached session has a `readLoop`, and none is attached while a loop is due |
| `StrandedBySkipping` | EngineLifecycleProofs | `FollowedUp`: an engine without a session has an `OnClose` goroutine or a loop on its way, or `startReconnectLoop` was skipped |
| `OutboundTypeCorrect`, `NoNumberTwice`, `ResendStaysBehind` | OutboundProofs | `IInv`: until a reset or failed save, every number held, queued, received or in the resend range was handed out; a number in a sender's hands is in no other sender's and not received |
| `LowNumberExplained` | OutboundProofs | `UnmarkedFirst`: until a resend overtakes a sender, what a sender holds is not behind the peer nor in the queue, and a number is queued unmarked before it is queued again |
| `StoredIsHandedOver` | OutboundProofs | `SentOnce`: an admin message in the queue never bears the number of an application message that was sent, and a fill never that of a stored one, so what takes the peer past it is the message or its replay |
| `AsyncTypeCorrect` | PyAsyncProofs | `Queue`: the queue of the lock holds exactly the tasks that are in an operation on the store, each once, and a holder works on an open database; `Ending`: one task closes it, and only when the session is down |
| `NumbersInSequence` | PyAsyncProofs | `Sequence`: at most one task has sent a number and not counted it, and the messages on the wire are one more than those counted exactly then; `RowCurrent`: the row is what memory holds, but for the count under way, so a restart goes on where the last process was |
| `HandedUpAtMostOnce` | PyAsyncProofs | `Handed`: what was handed up rises and is below what is counted; what is counted was handed up, is in the reader's hands, or is in `past.dropped` |
| `MapsCurrent` | PyAsyncProofs | `TagsInv`: a map that was built is the one a look-up would build. A value is added under a name that is new, so it changes the map by name there and the map by value at its value, where it is the last of its pairs (`MapsFollow`); a deletion drops both maps |
| `ConnTypeCorrect`, `NoHeartbeatOfAnEndedSession` | PyConnProofs | `Sane`: wherever a task lets go of an initiator that is DISCONNECTED its heartbeat is off or a stop is scheduled, or its Logon could not be sent since `start` was last called; a send that fails keeps it so (`SendLostFacts`, `SendsFacts`), since the state changes and that schedules the stop; only `logon` starts a heartbeat behind it. `Places`: where each task may be in either mode |
| `SessionOnItsConnection`, `EveryEndCloses` | PyConnProofs | `InitiatorInv`: until a `disconnect` crosses an opening, nothing is open but the connection `start` reads from, which reader and writer name; `AcceptorInv`: while a client is open its handler is reading or at its end (`Served`), and while there is one at a time, reader and writer are its own |
| `FiveOutcomes` | PyEngineProofs | by cases on the branches of `ProcessSingle`, from one lemma per handler; what `Send` does to counters, state and messages sent is proved once (`SendFacts`) and carried through every handler by `Holds`, `Keeps` and `Continues` |
| `HandedUpInSequence`, `SentInSequence` | PyPeerProofs | `Ahead`: the last number handed up is below the expected one, the last one sent below the next; each of the five outcomes hands up at most the expected number and numbers what it sends from the counter on |
| `NumbersReceivedInTurn` | PyPeerProofs | with `Placed`; an outcome that moves the expected number has met the expected message, a PossDup or a SequenceReset (which excuse what they pass over), or begins a numbering |
| `OneRequestPerGap` | PyPeerProofs | `AskedWhenNoted`: the number the engine has noted is the one it has asked for, until a connection or a numbering begins with the note still there |
| `ActiveMeansLoggedOn` | PyPeerProofs | `Placed`: an acceptor whose receive loop is out is DISCONNECTED, and the buffer is empty unless the loop is at work; an initiator's `connect` leaves no ACTIVE behind |
| `NeitherSideAhead`, `LogonsAreMutual` | PyPairProofs | `PairInv`: while both networks run, what is under way is *fair* (a number the sender has passed, no PossDupFlag, a gap fill up to the sender's counter at most); the initiator's Logon is the first message and alone on its way; the acceptor's is an answer, behind which it no longer waits; an ACTIVE side does not expect more than the other's next. Whatever a handler or timer does is *polite* (it sends fair messages, takes no number back) but for the acceptor's answer to a Logon, which resets numbers while nothing else is under way |

None of the safety properties is inductive by itself: `OneReconnectLoop`, say, does
not know that an unset `reconnectCtx` means that no loop is at work. Every strengthening
was checked by TLC before it was proved. The invariants are `SeqInv` (SeqManager),
`IInv` (EngineLifecycle, Outbound, PyAsync), `Control` and `Data` (Session),
`FramingInv` (Framing), `SessInv`
(EngineLifecycle), `PeerInv` (Outbound, PyPeer), `PairInv` (PyPair), `CInv` (PyConn) and
`TagsInv` (PyTags).

The proofs assume only the named `ASSUME`s of the modules: disjoint sets of
goroutines, natural bounds, a channel of at least one slot, modes that are initiator
or acceptor, for `PyPeer` that what the peer sends are `Messages`, and for `Framing`
that what is written are bytes and a BeginString has no separator. They hold for
any number of callers, senders, users, tasks, connections and sessions, for any set of
messages and for any bound, so the bounds of the runs are no limit to them.
`NoStaleDetach` used to except steps after a `Close`; the proof showed that the
exception was not needed, and the property no longer makes it.

The loop over the range of a ResendRequest has no bound in `PyEngineProofs`. Its
lemma `FilledContinues` is by induction on the number of messages sent
(`SetInduction`, from the library's well-founded minimum for sets, since induction
for operators cannot be instantiated by the backends).

The framing theorem rests on lemmas about bytes, proved in the same way. `Itoa`,
`Atoi`, `Checksum` and `Written` are recursive functions, and TLAPS knows of one only
its `CHOOSE`: `StepByStep` shows that a function which goes on from step to step
exists, and `ItoaByTens` the same for one that goes on from a tenth. From that come
`ItoaFacts` (the text of a length is digits and `Atoi` reads the length back),
`ThreeDigitsFacts` with `ChecksumRange` (the checksum's text is three digits),
`ToWireLayout` (everything `findBodyLengthFrameEnd` looks for is at its place) and
`FrameEndFacts`: on a buffer that begins with a message, or with a part of one, it
returns the end of that message as soon as its last byte is there, and no frame
before, whatever the body contains and whatever follows. That the writer and the
reader agree on the length and on the trailer is the whole of it: no place in the
body is ever looked at.

The type invariants of the modules with proofs are theorems and no longer in a run.

Only model-checked:

* `ReceivedAsSent` and `GroupsReadBack` of `Wire`, `ArrivesAsSent` and `TagsAgree` of
  `PyLibrary`. What `Codec` and `PyMessage` compute is
  recursive in the message, as the code is, and written with `RECURSIVE`
  operators, which the backends do not take; what such a definition computes for
  every message would need induction over messages. The runs of both check it on
  messages chosen for what the code gets wrong easily (section 3).
* `GapHealed`, a safety property of the outbound path; see the end of section 5.
* The liveness properties (`StopReturns`, `SendReturns`, `EndIsReported`,
  `CloseReturnsUnlessCaught`, `LossIsHandled`, `StartSettles`): they rest
  on fairness, which is out of the backends' reach.

`GroupsReadBack` has a precondition, `Fits`, and each part of it is a limit of the
codec. Members are written in the order of their tags, so the first tag of a
group must be the smallest (parties, 448 before 447, are not read back). The
first tag is the one `Dictionary` loads, which a component may have replaced
(spec.go:263). A tag that occurs in a group and around it is taken into the last member.

`ArrivesAsSent` of `PyLibrary` has one too, `FitsGroup`: `_process_group` knows no
count, so an empty group inside a group, two groups in a row, and a tag of a
component within a group are not read back.

## 5. What is not modelled, and what is left

* **Heartbeat timing, Go and Python.** A tick or a due time may come at any moment,
  so what is checked holds for every timing, but not that a silent peer is dropped in
  bounded time and a live one never (the answer to a TestRequest may be seen before
  `outstanding = true`, heartbeat_monitor.go:98). A timed module would need the
  intervals as counters.
* **Multi-session acceptor.** `acceptLoop` closes a connection when its handler
  returns (network/acceptor.go:80), and `handleNewConnection` returns once the session is attached: no
  registered session stays alive, and what is left is the `Close` and `Attach` of
  `EngineLifecycle` in a map.
* **Go state machine.** The engine fires two of its events; subscribers are
  notified in one goroutine each, in no order (state/statemachine.go:168).
* **Schedulers.** Go: a task is due in its own minute and the next. Python: `start`
  and `stop` call methods the engine does not have; the exception is printed.
* **ClOrdID generators, validator, configuration, obfuscation.** Conversions
  without behaviour over time.
* **Within modelled parts**: the accessors that search a Go message, separators
  other than SOH, required fields and types of a dictionary; comparison, pickling and
  formatting in the Python library, and its reading of the XML file; the setters
  of the Python counters and `create_message_with_repeating_group`, which nothing
  calls, and `gapfill.py`, which nothing imports; TLS.
* Left out for good: dialling and buffered I/O (wrappers around the standard
  library), the command-line tools, reports and examples, `engine.stopReconnect` and
  `handler/handler.go` (nobody calls them). Logging and the text of messages are
  abstracted throughout.

Theorems still worth proving: `GapHealed` (the answer under way, the fills in the queue
and what the peer expects form one unbroken range); that `Outbound`'s queue is what `FrameLink` provides; a
counterpart of `FramesCutAsSent` for the buffer of the Python library (`Framed`),
with its codec written as recursive functions.
