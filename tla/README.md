# serious-http-library in TLA+

A verification project for the library in `src/`: an HTTP/1.1 message
deserializer and serializer written as resumable state machines (C++20,
RFC 9112), with an example server. Paths below are relative to the
repository's root; `message.cpp` is `src/v1/deserialize/message.cpp` unless
another directory is named.

## 1. The system

| part | state | operations | interacts with |
|---|---|---|---|
| `remainder_buffer` (`include/sl/http/v1/detail/machine.hpp`) | `buffer_`, `offset_` | `view`, `merge`, `add_offset` | owned by both machines |
| `detail::strings` (`src/v1/detail/strings.cpp`) | none | `try_find`, `try_find_unlimited`, `try_find_split_unlimited`, trims, `to_lowercase` | called by every handler and by the target deserializer |
| `deserialize_machine` (`src/v1/deserialize/message.cpp`) | `output_`, `remainder_`, `state_`, `config_` | `deserialize(span)`, one static handler per alternative of `deserialize_state` | called with segments of a stream; calls `chunk_cb` and `message_cb` synchronously |
| `serialize_machine` (`src/v1/serialize/message.cpp`) | `remainder_`, `state_`, a reference to the message | `resume(written)`, one static handler per alternative of `serialize_state`; `verify` | called by a loop that writes what it returns |
| targets (`src/v1/{de,}serialize/target.cpp`) | none | `deserialize_target`, `serialize(target)`, percent coding | called by the request line handlers |
| types (`include/sl/http/v1/types/`) | none | names of methods, versions, statuses | everywhere |
| example server (`examples/src/00_http_v1_server.cpp`) | per connection: `maybe_request`, `written`; per process: the events of the last `wait()`, the executor's tasks | read loop, `handle`, write loop; event loop, accept loop | the machines, and `sl::io`, `sl::exec` |

Nothing in the library is concurrent: a machine belongs to one connection and
every call is synchronous. The example's coroutines are suspended at each read
and write, and its event loop runs ahead of the executor. What is hard is the *order and extent of calls*.
The network cuts the stream into segments that may end between any two bytes,
also between CR and LF; the machine runs over the caller's span as long as it
can, keeps the rest in its remainder, and continues there in the next call;
handlers can hand over to one another without consuming a byte
(`continue_token`); limits are enforced on elements that arrive in pieces; one
message is replaced by the next while bytes of both are in the same buffer. The
serializer learns one call late, in another state, how much of its last span
was written.

What makes the parts correct:

* `remainder_buffer`: bytes come out once, in the order they went in, and the
  memory does not grow with what has gone through.
* `strings`: a search that looks at no more than `max_size + |delim|` bytes, so
  that its answer does not depend on how much more has arrived.
* `deserialize_machine`: callbacks, errors and state depend on the bytes only
  and not on the segments; no byte is lost or parsed twice; every byte that can
  be parsed is parsed before a call returns; every call returns; limits hold;
  callbacks follow the protocol; a body has the length announced; nothing of
  one message leaks into the next.
* `serialize_machine`: the spans are the bytes of the message, each once, in
  order, whatever is written of them; the loop ends and then all is written;
  a long body is not copied.
* both machines together: what one end writes is what the other end reads.
* targets: decoding what was encoded gives the same target, encoded text does
  not break the request line it is part of, and the two decoders agree.
* example server: each connection answers its request once, whole, and ends; no
  event is lost between the loop and the executor.

## 2. Modules

| module | models | role |
|---|---|---|
| `ByteQueue` | | abstract: a first-in first-out queue of bytes |
| `RemainderBuffer` | `remainder_buffer` | operators on a buffer value, used by both machines |
| `RemainderBufferClient` | an owner of a buffer | state machine; implements `ByteQueue` |
| `Searches` | `detail::strings` | trims and searches, which depend on no limit |
| `Strings` | `detail::strings` | the limited search, lower case, `std::from_chars`, `std::to_string` |
| `DeserializeHandlers` | the static handlers, the dispatcher and the callbacks | pure operators: (state, message, bytes) to result |
| `StreamParser` | | abstract: a parser over one queue, without calls, segments or buffers |
| `DeserializeMachine` | `deserialize()` and its caller | state machine; implements `StreamParser` |
| `MCDeserialize` | | alphabet, limits, streams and expected outcomes for TLC |
| `SerializeMachine` | `resume()` and the loop that writes | state machine |
| `MCSerialize` | | messages for TLC |
| `MessageTypes` | `types/{method,version,status}.hpp`, `enum_max_str_length` | the names of the enumerations and their inverses |
| `Targets` | `{de,}serialize/target.cpp` | pure operators: percent coding, query, four forms, reserved sizes |
| `TargetRelay` | targets on their way through programs | state machine: text to target to text |
| `MCTargets`, `MCAlphabet` | | texts and targets; the symbols of the runs with targets |
| `MessageChannel` | | abstract: messages arrive unaltered, once, in order |
| `EndToEnd` | a serializer per message and one deserializer on a stream | composes `SerializeMachine`, `DeserializeMachine`, `Targets`, `MessageTypes`; implements `MessageChannel` |
| `MCEndToEnd` | | messages for TLC |
| `OneAnswer` | | abstract: requests heard once, one answer said, then the end |
| `Connection` | `client_coro` and `handle` | composes both machines; implements `OneAnswer` |
| `MCConnection` | | peers for TLC |
| `EventLoop` | the loop of `main()` and the executor's queue | state machine |
| `MCEventLoop` | | sizes for TLC |
| `BytesLemmas` | | lemmas: pieces and concatenations of sequences, searches and trims, sums, induction, recursive functions, the buffer |
| `RemainderBufferProofs` | | theorems about the buffer |
| `DeserializeProofs` | | each handler, then the dispatcher, is sound; theorems about the deserializer; what it makes of a message as it is written |
| `SerializeProofs` | | theorems about the serializer and its client |
| `TargetProofs` | | theorems about the targets |
| `EndToEndProofs` | | theorems about both machines and the stream between them |
| `ConnectionProofs` | | theorems about the coroutine with both machines |
| `EventLoopProofs` | | theorems about the batches |

**State and actions.** `RemainderBuffer` keeps `buffer_` and `offset_` as the
fields of a record; `View`, `Merged`, `Advanced` are `view`, `merge`,
`add_offset`. In `DeserializeMachine` the variables `state`, `output`,
`remainder` are the members `state_`, `output_`, `remainder_`; `input` is the
span of the running call, `phase` says where in `deserialize()` it is, `error`
is the status returned, `delivered` the callbacks made. `Call(n)` passes the
next n bytes of the stream, for every n, which gives every segmentation;
`DirectStep` is one pass of the loop over the caller's span (message.cpp 42-55),
`DirectDone` its exit, `Merge` line 58 and `BufferedStep` one pass of the loop
over the remainder (60-73). A step calls `Dispatch`, the private
`deserialize_impl` (78-109), which calls the handler of the state and then the
callbacks. The nested variants of `deserialize_state` are flattened into one
field `at`. In `SerializeMachine` each `Resume...` action is one early return
or the entry of the filling loop of `resume()`, each `Fill...` one alternative
of `serialize_state` in the loop, and `SocketTakes(n)`, `Stop`, `WriteFails` are
the example's write loop (lines 113-127) with a socket that takes any n bytes.

`TargetRelay` has one action per direction: `Deserialize` is the call in the
request line's handler (message.cpp 179), `Serialize` the one in the start line
of the serializer (serialize/message.cpp 63). `meta::maybe` is a set with at
most one element.

`EndToEnd` instantiates both machines with variables of their own and a stream
between them. `wire` is what the sockets of former messages took (`earlier`) and
what that of the current one has taken (`emitted`), and `Receive`
passes a part of what was not read yet to the receiver. `SendNext` makes a
serializer for the next message. `Relay` writes and reads the targets. The
machines are taken with the theorems about them (`INSTANCE SerializeProofs`,
`INSTANCE DeserializeProofs`), which are then theorems about both ends. The fields are a sequence on the sender's side,
where the order of the map's iteration matters, and a function on the other;
`Arriving` says what a message looks like there. `Sendable` says which messages
can be told apart on the wire at all: `verify()` lets them through, their fields
have no delimiters of their own, their length is announced, and the receiver's
limits admit them.

`Connection` instantiates both machines too and adds `pc`, `request`
(`maybe_request`, line 76) and whether the peer closes. `Read`, `ReadEnd` and
`ReadFails` are the outcomes of line 88, `Deserialize` is one step of line 96
with `message_cb` of line 82, and `Refuse`, `ReadOn` and `Handle` are what
follows its return. `Write`, `WriteFails` and `Return` are the second loop.

In `EventLoop` `nevents` and `batch_index` are the code's, a task is the range
of events its copy of a batch holds (events are numbered as `wait()` returns
them), and `Fulfill` is one event, or the end, of the task that runs: the serial
executor runs one at a time, in order. Without a thread pool a task runs inside
`Schedule`, which is one of the interleavings.

**Data.** A string is a sequence of symbols. A symbol is a byte, or a word that
no code looks into (`"Content-Length"`, `"GET"`); CR and LF are symbols of
their own, and `POST` and the version are two symbols each, so that segments
end inside them. `std::size_t` has `SizeModulus` values and `MaxStrSize` is
`max_size()`, both small in the runs, so that the wrap-around of message.cpp 353
happens. `DebugBuild` says whether `DEBUG_ASSERT` is compiled in. The names of
methods and versions and the target of a request line are functions given as
constants.

**Mutants.** Definitions such as `TryFindOffByOne` or `MergedPrepends` stand
before the definition they vary, each the same code with one plausible error.
No specification uses them: they document which mistake each property detects.

## 3. Runs

| run | configuration | shows |
|---|---|---|
| `remainder_buffer` | two bytes, backlog up to 5 | the assertions of machine.hpp, `BoundedFootprint`, refinement of `ByteQueue` |
| `requests` | 21 streams, every segmentation | the safety of the deserializer, the refinement of `StreamParser`, every call returns |
| `serialize` | 108 messages, buffer of 12, every partial write | spans, memory, termination; a client that tolerates one empty span writes all, and one that does not writes all of a message that fits into the buffer |
| `targets` | 2,760 texts, 381 targets, hop after hop | percent coding, round trip, reserved sizes, one token per target |
| `end_to_end` | 6 pairs of requests, all forms of target; responses with every named status, reasons and bodies | `MessageChannel`, nothing refused, everything arrives |
| `connection` | 9 peers that close or fall silent, and errors of the socket | `OneAnswer`, which request is handled, when the connection or the process ends |
| `event_loop` | 10 events, 5 at a time, 3 threads | every event fulfilled once, in order, in the end |
| `targets_no_path` | `http://a` and what may follow | *violation*: the query is taken into the authority |
| `requests_two_lengths` | a length that is given twice | *violation*: the body is left out and parsed as the next request |
| `responses_pipelined` | two responses on one connection | *violation*: the second is taken for a request |
| `requests_debug` | requests that fail, debug build | *violation*: an assertion fails |
| `serialize_truncated` | the example's client, every message | *violation*: the client stops in the middle of a message |

**Why the bounds are enough.** A stream of the `requests` run is fed in all of
its segmentations (empty segments included), and between them the streams take
every branch of every handler: each status for each element, limits met exactly
and exceeded by one, one and two bytes over the budget of the fields, bodies
that contain CR LF, chunks that contain CR, extensions, a trailing field that
repeats a field, pipelined messages after each kind of body. The expected
callbacks and status of each stream are written by hand in `MCDeserialize` from
the RFC and the tests, and `MeetsExpectation` compares. Those of 8 responses,
one per stream, are the assumption `ResponsesAsExpected`, which TLC evaluates in
`responses_pipelined` for one call with all the bytes; `SegmentsDoNotMatter` says
that no cut gives anything else, and `end_to_end` cuts responses too. Limits are a few bytes
(`MaxFieldSize` 15, others 2 to 6) so that short streams reach them; no
definition depends on the size of a limit except through comparisons and the
wrap-around. In the `SerializeMachine` runs bodies of 0 to 8 bytes behind heads
of 7 to 19 with a buffer of 12 place the end of the buffer before, at and after
each part of the message. `CHECK_DEADLOCK FALSE`: the caller stops after an
error status, the writing client when it has finished, a text that is refused
goes no further, the coroutine returns and the event loop ends.

`targets` takes every string of up to four characters that mean something, so
that escapes are whole, broken in each place, adjacent and nested in decoded
text, behind the beginning of every form, and ports around 65535. A second
serialization adds nothing to what a first one shows: the relay's states repeat
after one hop.

The runs that compose machines bound how the stream is cut: the socket takes
half or all of a span, `EndToEnd`'s receiver reads one byte or all there is
(`Connection` reads any number up to `BufferSize`). Any cut at all is what
`requests` and `serialize` check of each machine alone. In `EndToEnd`
the sender rests while a call of the receiver runs; the two share no memory, so
that other interleavings give the same stream. The buffer of the requests is smaller
than their heads and the bodies are long enough to leave it, and in one message
the body looks like the end of a head. The client calls again after one empty span
in `end_to_end` (`EmptySpansAtEnd` is {2}; `serialize` has both clients): with
the example's client a long message is cut short, which `serialize_truncated`
shows. `Connection` has the example's client and a `BufferSize` of 36 symbols,
more than any response of `handle` has, as 1024 is in the code. Events are
limited to ten (`EventLimit`), two full arrays of five, which is no multiple of
the three threads.

**Fairness.** `deserialize()` and `resume()` are function calls: once made,
they run. `FairSpec` of `DeserializeMachine` is weak fairness of the steps of a
running call, with `ENABLED` spelled out (a call has a step as long as it runs,
and `ContinueMakesProgress` says that it changes the state). It says nothing
about the caller, which may never call again: `CallReturns` needs no more.
`FairSpec` of `SerializeMachine` adds that the client goes on and that a write
ends, with bytes taken or with an error.

`EndToEnd`: as long as one end can move, one of them does; `Connection`: the
coroutine is resumed when its read or write can complete, while a peer that
stays silent need not speak; both are weak fairness of their steps with
`ENABLED` spelled out. `EventLoop`: `Schedule` and `Fulfill`, as the loop's
thread and the executor run; events need not come.

**What the runs of the example say.** `LastRequestHandled` and `ErrorsArePanics`
state what the code does with bytes behind the first request, and what a reader
should know of it: of requests that complete within one read the last is
answered and the others are dropped, and bytes that are in error behind a
complete request, in the same read, prevent its answer and end the process. The
same bytes in a later read are never looked at. `EndsUnlessUnfinished` excludes
exactly the streams without a complete request or an error: there, a peer that
closed its side leaves the coroutine reading 0 bytes for ever.

**What the violations say.** (1) message.cpp 104 leaves a message with a request
line for the next one, so a deserializer of responses works for one response.
(2) message.cpp 353 wraps around after a field line that ends one or two bytes
above the maximum; a release build answers 413, a debug build stops at the
assertion of `try_find`. (3) `resume()` returns an empty span after the buffer
is drained although the message is not written; the tests' and the example's loops
take it for the end. Their messages fit into the buffer, which is the case
`SmallMessageWritten` shows to be right. (4) deserialize/target.cpp 96 ends the
authority at the first '/' only, so `http://a?b` has the authority `a?b` and no
query. (5) message.cpp 465 takes a content-length that is no number for none, and
line 383 makes one of a length given twice by joining the values: such a
request is delivered without its body, which is parsed as the next request.

Two more rules of RFC 9112, 6.3 are not in the code: a response without a length
has no body here, where the RFC lets it run to the end of the connection, and the
statuses 1xx, 204 and 304 are not looked at when a body is framed. No expected
outcome in `MCDeserialize` depends on them.

## 4. Proofs

Checked by TLAPS for every value of the constants that satisfies the named
assumptions. `MaxUnconsumedAssumption`: the bytes are a set and the backlog has
a bound. `StringsAssumption`: the delimiters are symbols, and
`2 < max_size() < SIZE_MAX`. `HandlersAssumption`: limits of searched elements
are at most `max_size() - 2`, `max_body_size` is below `SIZE_MAX` (whose value
is `continue_token`), and `std::size_t` is wider than the 32 bits of a chunk
size. `MachineAssumption`: the streams are sequences of symbols.
`MessagesAssumption`: lines, fields and bodies of the messages that are
serialized are made of bytes. `SerializeAssumption`: the buffer has at least one
byte, and the client stops at the first or the second empty span in a row.
`TargetsAssumption`: characters have distinct codes, the hex digits that are
written are read as their values, the delimiters are neither letters nor
digits, and the percent sign is no digit. `RelayAssumption`: texts are strings, and the targets applications make
up are well-formed (`WellFormed` translates the comments of `types/target.hpp`).
`ConnectionAssumption`: both machines are made as their own modules assume, and
every response of `handle` fits into the serializer's buffer, as it does into
the 1024 bytes of line 65 of the example. The last part is needed: without it
the write loop stops early (`serialize_truncated`) and `OneAnswer` does not hold.
`EndToEndAssumption`: both machines and the targets are made as their own modules
assume; the client tolerates one empty span (`EmptySpansAtEnd` is {2}, see
`serialize_truncated`); a script is one response or any number of requests,
because after a response the deserializer expects a request
(`responses_pipelined`); a target has one name, and its host or authority, which
is written as it is, has no space or line end.
`EventLoopAssumption`: the sizes are natural numbers. TLC evaluates all of them
on the constants of each run.

| theorem | says |
|---|---|
| `RemainderBufferProofs!TypeCorrect` | the assertions of `remainder_buffer` hold |
| `RemainderBufferProofs!FootprintBounded` | its memory is bounded by the backlog |
| `RemainderBufferProofs!BufferIsQueue` | it implements `ByteQueue` |
| `DeserializeProofs!DispatchSound` | what one step of the deserializer guarantees |
| `DeserializeProofs!TypeCorrect` | `TypeOK` |
| `DeserializeProofs!RemainderIsBounded` | `RemainderBounded` |
| `DeserializeProofs!FieldsWithinBudget` | `FieldBudget` |
| `DeserializeProofs!AssertionsNeverFail` | `AssertionsHold` |
| `DeserializeProofs!TokenMakesProgress` | `ContinueMakesProgress` |
| `DeserializeProofs!NoByteIsLost` | `PendingIsSuffix` |
| `DeserializeProofs!MachineIsStreamParser` | the machine implements `StreamParser` |
| `DeserializeProofs!CallbacksInOrder` | `CallbackOrder` |
| `DeserializeProofs!DeliveredBodiesFramed` | `BodiesFramed` |
| `DeserializeProofs!FieldMemoryIsBounded` | `FieldMemoryBounded` |
| `DeserializeProofs!RequestsOnly` | a deserializer of requests delivers requests only |
| `DeserializeProofs!SegmentsDoNotMatter` | `SegmentationIndependent`: every cut of a stream gives what one call gives |
| `SerializeProofs!TypeCorrect` | `TypeOK` |
| `SerializeProofs!SpansContinueMessage` | `SpanContinuesMessage` |
| `SerializeProofs!SecondEmptySpanAtEnd` | `SecondEmptySpanIsEnd` |
| `SerializeProofs!SmallMessageIsWritten` | `SmallMessageWritten` |
| `SerializeProofs!BufferStaysBounded` | `BufferBounded` |
| `TargetProofs!TypeCorrect` | `TypeOK`: what is read is well-formed |
| `TargetProofs!TargetIsKept` | `TargetSurvives`: what is written is read as itself |
| `TargetProofs!ReservedIsEnough` | `ReservedExactly` |
| `TargetProofs!TokenStaysOne` | `OneToken` |
| `TargetProofs!DecodersReadMeaning` | `DecodersAgreeWithMeaning` for every text |
| `EndToEndProofs!NothingIsRefused` | `NeverRefused`: no sendable message is answered with an error, wherever the stream is cut or breaks off |
| `EndToEndProofs!EndsAreMessageChannel` | both machines implement `MessageChannel` |
| `ConnectionProofs!TypeCorrect` | `TypeOK` |
| `ConnectionProofs!LastRequestIsHandled` | `LastRequestHandled` |
| `ConnectionProofs!ErrorsEndTheProcess` | `ErrorsArePanics` |
| `ConnectionProofs!ConnectionIsOneAnswer` | the coroutine implements `OneAnswer` |
| `EventLoopProofs!EventLoopTypeOK` | the bounds of each batch are within the array |
| `EventLoopProofs!EventsFulfilledInOrder` | `FulfilledInOrder` |

**The argument.** *Handlers.* `StateInv(state, output)` relates the parser state
to the message it fills in: the start line is of the kind the state expects, the
body is empty except in state `body`, where it is shorter than announced and the
announced length is within its limit, a chunk's size fits its type, and the
count of the fields exceeds its maximum by at most one line end. None of this
follows from the types: without it state `body` could be entered with more
bytes than announced, and the subtractions of message.cpp 353 and 485 could wrap
around where the code does not expect it. `Sound(r, bytes)` is what a handler
that was shown `bytes` promises: message and new state satisfy `StateInv`, it
consumes no more than it is shown, and it consumes nothing only when it is shown
less than `Window(state)`. There is one lemma per handler; those that search
rest on `FindLimited`, which says that a limited search either finds within the
limit, or was shown less than limit and delimiter together, or reports that the
limit is exceeded. For the fields the case that matters is the budget that has
wrapped around: it is above `max_size() - 2`, so the search refuses it and
`FieldBudget` is kept. The two states that only hand over satisfy `HandsOver`
instead. `DispatchSound` puts the handlers together and adds the replacement of
a delivered message.

*Machine.* `IInv` adds to the types and `StateInv` where the bytes are: the
first loop runs only while the remainder is empty, the second only when the
span was merged, and nothing runs after an error. `RemainderBounded` is then
inductive because the second loop is left only by a step that consumed nothing.
`NoByteIsLost` needs in addition that a step of either loop works on *all* that
waits (`DirectStepPending`, `BufferedStepPending`), and that cutting the front
of a suffix, or extending it by what is fed next, gives a suffix (`PieceShrinks`,
`PiecesJoin`).

*Refinement.* With `pending` mapped to `View(remainder) \o input`, a call is
`Arrive`, a step of either loop is `Parse` or `Fail`, and the exit of the first
loop and the merge are stuttering steps.

*Callbacks.* `CallbackOrder` and `BodiesFramed` speak of the history, and the
parser state has to tell enough of it. `AfterLastChunk(state)` holds exactly
when the last callback was the one for the empty chunk (`EventsInv`), and
`FramingInv` says what the fields of the unfinished message announce: nothing
changes them while a body is collected. `FieldMemoryBounded` is about one state
of the parser only; `FieldsInv` gives each state the room its fields have
(`FieldRoom`), two sections at most, and a line is shown to add no more to key
and value than it took of the budget, whether it begins a field or is joined to
one.

*Segments.* `InOneCall(bytes)` is defined without calls and segments: one pass
after the other over all the bytes (`Pass`, `After`), often enough that nothing
moves any more. The theorem rests on what a handler does when more bytes stand
behind those it is shown. In general it does the same (`HandleExtends`,
`SearchExtends`); it may have waited, and then takes with more bytes what it
could not take before (`UnfoundStops`, `WaitsOrTakes`); and the handler of a body
takes part of it, and the rest with the bytes that come later, which together is
what it takes of all of them at once (`BodyContinues`, `GrownTwice`). The
delimiter of two bytes may be cut in two, which `CutInFirst` and `FoundEarly`
deal with. `SegmentsInv` says that where the machine is and where one call with
all bytes so far is *meet*: some passes over all the bytes lead from both to the
same place. A call only adds bytes to both (`Meets` lemmas), and a pass of the
machine is a pass. `Settles` says that the passes end, because each consumes a
byte or is followed by one that does (`Weight`), so that they end at the same
place.

*Serializer.* `IInv` says, for each phase of `resume()` and its client, that
what the socket took, and then what is in the buffer, are what the message looks
like up to the state (`Produced`). While the client calls, what it wrote is not
yet taken from the buffer, or not yet added to the offset into the body, because
the machine learns of it one call later. `SmallInv` adds that the first
call returns all of a message that fits, and `Bounded` that the buffer was not
full before its last line and that the body is copied at most once, from its
first byte.

*Targets.* `RelayInv` says that the text is what `serialize(target)` wrote for
the target it holds in `written`. It is inductive because of two facts about
operators. `TargetRead`: whatever is read is well-formed, or nothing; the slash
at the front of a path is no escape and stays in front of what is decoded, and
an authority is cut at its first slash. `TargetWritten`: each well-formed target
is written so that it fits, is one token and is read as itself. That rests on
what the recursive functions of the decoders compute. `RecursionExists` gives a
function that satisfies the equation of each (over positions, where a value
depends on later ones only), so that `Decode`, `DeserializeQuery` and
`NumeralValue` are what their definitions say; `Decode` of a character or an
escape and the rest is then the character and what the rest is read as
(`DecodePlain`, `DecodeEscape`). The encoders concatenate what they write for
each symbol (`Spell`), so that `SpellDecodes` follows from one symbol at a time:
a plain character, an escape, and for queries the plus sign. A query is read pair by pair
because no pair has `&` in it (`AndTextReads`, `QueryIsJoined`); the part before
a delimiter is found because it cannot have that delimiter (`SplitAt`); the last
colon is the one before the port, whose digits are read as the number they were
written for (`DecimalNumeral`). `DecodeMeaning` compares the loop of the decoders
with `MeaningOf`, which has none, by induction over the length of the string: a
symbol or a whole escape in front means the same whatever follows, and no escape
reaches into what follows (`MeantInRest`, `MeaningJoins`), because the percent sign
is no digit.

*Both ends.* What one message looks like to the receiver is settled first, for
a receiver that has all of it: a part of the head in front of its delimiter is
found, because that delimiter is not in it; each field line is read as the field
that was written, and merged with those before it as `ArrivingFields` says; the
length announced is read as the length of the body; and methods, versions,
statuses and targets are read as what was written (`TargetNamed` rests on
`Relay!TargetWritten`). `RequestComes` and `ResponseComes` put this together, and
`ScriptArrives` does for a script: in one call its bytes give its messages. Any
other history is compared with that call. `EInv` joins the inductive invariants
of both machines with what connects them. `SenderInv`: what was sent of former
messages is all of them, one behind the other, which the sender only knows
because it left a message after the second empty span (`SecondEmptySpanIsEnd`);
with `Sender!EmittedIsPrefix` the stream is a prefix of the script
(`WireBegins`). `ReceiverInv`: the receiver is where one call with the bytes so
far would be (`SegmentsInvFor`). `EInv` is inductive because the one end only
adds bytes to the stream (`AddsKeeps`) and the other only reads it. A
prefix gives a part of what all bytes give (`OnlyTheseArrive`), so that no error
occurs and the messages delivered are the first ones of the script (`OnWay`). In
the refinement the pass that calls `message_cb` is `Receive`, a failed write is
`Lose`, and everything else stutters.

*Connection.* `CInv` has the inductive invariants of both machines, instanced,
and says which part of the coroutine uses which. `request` is the last message
delivered (`RequestIsLatest`); while a response is written, the serializer's
invariants hold of it, and the coroutine returns only when `SmallInv` says that
all is written. In the refinement `Handle` is `Hear`, `SocketTakes` is `Say`
and `Return` is `Answered`; everything else stutters.

*Batches.* `FulfilledInOrder` says nothing of what the tasks still hold. Its
strengthening `Contiguous` says that the tasks' ranges join up, from the event
fulfilled next to the last one scheduled. It is inductive because a batch ends
where the next begins and the last ends at `nevents` (`Bounds`, which rests on
`(n \div k) * k <= n`), so that nothing is left unscheduled when `wait()` is
called again.

**Induction.** The theorems of the library that take an operator are of no use
to the installed provers. `BytesLemmas` states induction over a *set* instead
(`NatByInduction`, `SeqByAppending`), from the well-foundedness of `<`, and all
inductions over strings, sums and numbers use these two.

**Model-checked only.** Liveness (`CallReturns`, `ClientStops`,
`EverythingArrives`, `EndsUnlessUnfinished`, `EveryEventFulfilled`): fairness
and `ENABLED` are out of the prover's reach. `MeetsExpectation` compares with the
expected outcomes of concrete streams. `AnswersWholeRequest` speaks of the requests of concrete
peers. The five violations are counterexamples and need no proof.

## 5. Not modelled

* `chunk_ext` is moved out of the state when `chunk_cb` is called; the model
  leaves it there, and no handler reads it afterwards.
* `serve_coro`: it accepts and schedules a `client_coro` per socket, without
  state of its own; whether a failed `accept()` is survived (line 140) is up to
  `meta::result`. The start of `main()`, arguments and printing.
* epoll, sockets, the executors and how a fulfilled event resumes a coroutine:
  code of `sl::io` and `sl::exec`, which is not part of the repository. Tasks that are queued
  when `wait()` has failed may run or not.
* Strings functions that only tests call (`strip_prefix`, `strip_suffix`,
  `try_find_split`), and conversions between bytes and characters.
* Calls after an error status: the library remembers no error; the example does
  not call again.
* A `buffer_size` of 0, and limits near `SIZE_MAX` (assumption
  `HandlersAssumption`).

## 6. Plan

1. *(done)* `RemainderBuffer` and its queue; the deserializer, its abstract
   parser; the serializer; proofs as listed above.
2. *(done)* `Targets`, `TargetRelay`: percent coding, the four forms, the query,
   the sizes reserved, and the round trip.
3. *(done)* `EndToEnd` and `Connection`, the compositions, with their abstract
   specifications; `EventLoop` with its proof.
4. *(done)* Proofs of the deserializer's history (`CallbackOrder`,
   `BodiesFramed`, `FieldMemoryBounded`), of the serializer, of the targets and of
   the connection.
5. *(done)* Proofs that the deserializer gives the same callbacks for every
   segmentation, as a function of the stream, and that the decoders of targets
   read what escapes mean.
6. *(done)* Proof that the deserializer reads what the serializer writes, message
   by message, and with it that both ends implement `MessageChannel`.
