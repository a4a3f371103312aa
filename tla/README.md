# A TLA+ model of myLittleWebserv

myLittleWebserv is an HTTP/1.1 server: one process, one thread, non-blocking
sockets and a kqueue. This directory holds a model of its core in TLA+, the
configurations with which TLC checks it on small instances, and proofs about it
that TLAPS checks for every value of the constants. Paths are relative to
`src/server/`.

## 1. The system

`Router::start` repeats one *round* for ever:

1. `EventHandler::routeEvents` calls `kevent` with the list of changes that the
   last round has collected (`_changeList`) and gets a batch of kevents. If the
   batch is empty, connections that have been idle for 30 s are removed.
   Descriptors that were registered to be closed are closed
   (`FileManager::clearFileFds`), and every Event of the batch gets a new time stamp.
2. It goes through the batch. A listening socket removes idle connections and
   accepts one; an end of file removes the Event; an Event that reads a request
   or a CGI answer parses what has arrived and, once the parsing has ended, joins
   `_routedEvents`; any other Event joins it at once.
3. Every `VirtualServer` serves its routed Events, one handler call each. A
   handler moves some bytes, may open files, makes or replaces the response,
   changes the Event's type and queues changes for the next `kevent`.

An exception leaves the round wherever it is; `main` catches it and calls
`Router::start` again ("reboot"). A thrown string is not caught.

| Component | State | Operations | Hard part |
|---|---|---|---|
| `EventHandler`, `Event` | `_changeList`, `_eventSet`, `_routedEvents`, each Event's type, descriptors, request, response, time stamp | `routeEvents`, `_addConnection`, `removeConnection`, `_checkConnectionTimeout`, `initialize` | Events are deleted while a batch is being routed; descriptor numbers are reused at once |
| `VirtualServer` | none of its own, the Event's | a handler per type: request, upload, download, send, flush, CGI answer | every path must leave exactly one registration enabled; errors in the middle |
| `FileManager` | `_fileFdSet` (static) | `registerFileFdToClose`, `clearFileFds`, `removeFile`, `removeTempFileByKey` | close must come after the kernel has deleted the registration |
| `ResponseFactory` | static scratch fields | `makeResponse` (two), `errorResponse` | which descriptors are opened, kept, forgotten |
| `HttpRequest`, `Storage` | parsing state, memory with read and write position | `parseRequest`, `uploadRequest`, `initialize` | bytes arrive in arbitrary pieces; chunks are walked twice |
| `HttpResponse` | sending state, sizes | `sendResponse`, `downloadResponse` | sizes that do not add up |
| `CgiResponse` | pid, header, body size | `parseRequest` | a child process that shares files with the server |
| `Router`, `main` | virtual servers, listening sockets | `start`, `end`, `findServerId` | what a reboot keeps and drops |
| `syscall` | - | wrappers that throw | which failures throw |
| `Config` | the lines of the file, servers, locations | parser | what a setting applies to depends on where its line stands |
| `Log`, `client/`, `tools/`, `test/` | - | - | not part of the server's behaviour |

What makes them correct: no handler is given a deleted Event and none is given
an Event twice in a round (EventHandler); a connection waits for the right thing until it
is answered or closed, also when a handler fails (VirtualServer); a
descriptor belongs to one Event, is closed exactly once and after its
registration, and is not lost (FileManager, ResponseFactory); what is uploaded
is the payload, however the bytes were cut (HttpRequest); what is sent is what
was announced, and the bytes of the body in their places (HttpResponse, Storage);
an answer of a CGI program is made of its own output (CgiResponse); what is said
in one exchange does not appear in another's (HttpRequest, ResponseFactory); the
location is the longest that fits (VirtualServer), and has the settings that the
file gives it (Config); a reboot closes and opens its own sockets only (Router);
the file tree changes where a request says and nowhere else (FileManager).

The hazards of the code, each with its line and the properties that guard it,
are listed in `PROJECT.json`.

## 2. The modules

| Module | Models | Extends |
|---|---|---|
| `Kqueue` | registrations and changes, what the kernel does with them (external) | - |
| `ResponseFactory` | the outcomes of making a response: type, state, descriptors | `Kqueue` |
| `EventLoop` | EventHandler, VirtualServer, FileManager's closing, main's reboot, composed | `ResponseFactory` |
| `EventLoopProofs` | the invariants `IInv` and `JInv`, and proofs: type correctness; every step keeps both; the safety theorems; `EventLoop` implements `Connection` | `ConnectionMap`, `TLAPS` |
| `HttpRequest` | parsing and uploading of requests out of a `Storage` | - |
| `HttpRequestProofs` | proofs about it | `HttpRequest`, `TLAPS` |
| `Connection` | abstract: what one connection is promised | - |
| `ConnectionMap` | the refinement mapping from `EventLoop` to `Connection` | `EventLoop` |
| `Transfer` | one HttpResponse: lengths, downloading, sending | - |
| `TransferProofs` | proofs about it | `Transfer`, `TLAPS` |
| `CgiHandOff` | a CGI program's files, server and program as two processes | - |
| `CgiHandOffProofs` | proofs about it | `CgiHandOff`, `TLAPS` |
| `Exchange` | fields of requests, CGI environment, fields of responses, over many exchanges | - |
| `ExchangeProofs` | proofs about it | `Exchange`, `TLAPS` |
| `Config` | the configuration parser, `Router::findServerId` | - |
| `ConfigProofs` | proofs about it | `Config`, `TLAPS` |
| `Lookup` | `_findLocationInfo` | - |
| `Listeners` | the listening sockets over reboots | - |
| `RoutingProofs` | proofs about both | `Listeners`, `Lookup`, `TLAPS` |
| `FileManager` | the file tree under PUT, POST and DELETE | - |
| `FileManagerProofs` | proofs about it | `FileManager`, `TLAPS` |
| `MC_...` | instances for TLC | the above |

`EventLoop` composes the parts that interact through the loop, the kqueue and the
descriptors, and abstracts from bytes, names and settings. Each of the other
modules takes up one of these: where `EventLoop` has a choice (a read is complete
or has more to do; a location allows the method or does not; a program has run or
has failed), `Transfer`, `HttpRequest`, `Lookup`, `Exchange`, `CgiHandOff` and
`FileManager` say what decides it. They share no variables, so that each can be
explored with the interesting data in full.

### EventLoop

| Variable | Code |
|---|---|
| `server` | running, an exception on its way to `main`, or how the process ended or came to stand still |
| `ev[c]` | the Event of connection `c`; "none" before accept, "freed" after `delete` |
| `kq`, `errs` | the kernel's registrations; changes that failed and will be returned with `EV_ERROR` |
| `pending` | `_changeList`, kept per `<<descriptor, filter>>` since changes to different keys commute |
| `batch`, `accepts` | the kevents still to be routed: of connections, and of listening sockets (a count, at most `Ports`) |
| `routed` | how often an Event stands in `_routedEvents`, still to be served |
| `fds`, `closing` | the descriptor table; `FileManager::_fileFdSet` |
| `trash` | whether the file `TEMP_TRASH` exists |

A round is `Kevent` (or `KeventTimeout`), the routing actions (`RouteEof`,
`StillReceiving`, `ReceiveError`, `ReceiveDone`, `ParsingFails`, `RouteOther`,
`addConnection`, `AcceptFails`) until the batch is empty, and the serving actions until
nothing is routed; then `ApplyChanges` applies the change list. `Reboot` is possible after
an exception only. The order inside a batch is left open, as kqueue leaves it.

- *Bytes are abstracted.* A read or a write has more to do, is complete, or
  fails. The states the handlers branch on are kept.
- *Failures are switched by the constant `Faults`*, so that a run can say which
  it assumes; the proofs hold for every set of them. Two of them are what a request
  asks for: "uri", a URI that is empty or has no slash, and "nested", a DELETE of a
  directory whose first entry is a directory. "bad" is a malformed request, also one
  whose chunk sizes have a sign or do not fit.
- *Ends have names.* `Exceptions` are what `main` catches: a failed accept or open,
  `TEMP_TRASH` or a program's files missing, `substr` beyond the end of an empty URI
  (FileManager.cpp:14), and `lseek` to in front of a file when a program's answer is
  parsed a second time after a reboot (CgiResponse.cpp:100). `Halts` are the others: a
  call through a null or dangling pointer, a string that nobody catches, SIGPIPE,
  `readdir` of the null pointer of a failed `opendir`, and "endless", a loop in a
  handler that does not end (`LookupNeverEnds`, a URI without a slash; `ParsingFails`,
  a chunk size of -6). Each is a value of `server`, so that a property can name it.
- *What a DELETE opens.* `removeFile` overwrites its `_directory` when it goes down
  into a directory, so of the descriptors it opens only the last is closed
  (`deleteResponses`).
- *Undefined behaviour* is not given a meaning: a freed Event stays freed instead
  of being allocated again, so a use after free is visible. After a receive error
  `_routeEvent` writes the time stamp of the deleted Event; the model lets the
  process end there (the default build has the address sanitizer) or go on.
- *Time* passes only while `kevent` waits: `Age` makes one idle connection stale.
- *Descriptors* are given out lowest first, as `open` and `accept` do. `Fds` bounds
  them; an operation that finds none free is not enabled (its failure is the
  fault "open" or "accept").

Left out here: failures of `fcntl`, `gettimeofday`, of `kevent` itself, and of other calls
of `lseek`; more than `MAX_EVENTS` kevents; the 27 hours of `TIME_OUT_HTTP_PARSING`. The
listening sockets after a reboot are in `Listeners`; the location that a request is
matched with, of which only the outcomes (allowed or not, redirected or not, CGI or not)
appear as choices here, is in `Lookup` and `Config`.

### HttpRequest

A byte is a symbol: `CR` and `LF` are themselves, and the text of a line that the parser
treats as a whole is one symbol, so the framing, which is what can go wrong, is kept byte
for byte while words are not spelled out. A number is one symbol as well, with its sign
and all of its digits; `LengthOf` and `SizeOf` give what `>>` and `strtol` make of it,
which may be negative or too large. `IntLimit` and `LongLimit` are the widths of `int` and
`long`: `_chunkSize + 2` is a `long`, `moveReadPos` takes an `int`, and the sum may wrap
around in both (`Wrapped`). `sent` is the request on the wire, `input` what has not been
received, `p` the object (parsing state, memory, positions, sizes), `file` what was
uploaded. `ReceiveAndParse` receives any number of bytes up to the buffer and runs
`parseRequest`; `Upload` is one call of `uploadRequest` whose write may be short;
`NextRequest` is a kept connection after `initialize`.

The switch of `parseRequest` falls through from case to case, and two of its cases
are loops. `Turn` is one turn, a line of the header, a chunk, or the look at a
body of known length, and says whether another follows; `Turns` repeats it. After more turns
than there are lines to consume and positions to come to, a loop that still goes on has
been somewhere twice: `ParseRequest` then takes the state `PARSING_FOR_EVER`, and nothing
else happens. A chunk size of -6 does this: the read position moves back to the line that
says so. (In the model the sign and the digit are one byte, so there it is -5.) A negative
size may also lead the read position in front of the memory, a `size_t` that has wrapped
around, which is a negative `read`.

What a request says is defined apart from the parser, over all of its bytes: where its
lines and chunks are (`GoodHeader`, `ByLength`, `ByChunks`), what they say, and which flaw
makes it malformed (`FlawedStart`, `FlawedField`, `FlawedSize`). A request that is
neither, for example one that stops in the middle, or one with a chunk size that has a
sign or does not fit an `int`, is allowed as well; nothing is promised of it but the types
and, if its sizes are plain numbers (`PlainSizes`), that parsing returns. The module of
the run assumes (`Framed`) that its requests are what they are listed as.

### Connection, ConnectionMap

The abstract specification has three variables per connection, `phase`, `response` and
`good`, and six kinds of step. `ConnectionMap` maps an Event's type, parsing state and
response to them; `EachIsAConnection` is the instance's specification, so a run that lists
it under PROPERTIES checks that every step of `EventLoop` is a step of each connection or
leaves it as it is. What the steps forbid: a request that goes back to an earlier phase,
downloading or sending without a response, a second request before the response to the
first has been sent, a program that is run for a malformed request, a connection that is
kept after one, a response that outlives its exchange.

### Transfer

`resp` is what the constructor fixes (kind, announced length, `_contentLength`,
`_goalSize`, how much of the body came with a program's header), `mem` and `file` are the
`Storage` and the descriptor's position, `waits` is what the Event is registered for.
A byte is its place in the body. `Download` reads at most `Buffer` bytes, `Send` sends
any part of what is left, `Touch` is another request that truncates or extends the
file in between, `Fail` a failed read or send. Sizes of program output pass
through an `int` and a `size_t` whose widths are constants.

### CgiHandOff

Two processes: the server (`BeginCgi`, `Fork`, `ServerOpens`, `StartParse`, `ParseLine`,
`ParseFails`, `Serve`, `KeepAlive`, `CloseAndAccept`, ...) and the program
(`ProgramOpens`, `ProgramWrites`, `ProgramExits`). Files are inodes with a content, names
are `temp/request<fd>` and `temp/response<fd>`; output is a sequence of lines of six
kinds. `Reboot` drops the routed Event between parsing and serving. The loop of
`CgiResponse::parseRequest` is one step per line: the server does nothing else in phase
`parsing`, programs go on running. `late`, `dropped` and `looping` record what happened,
for the properties.

### Exchange

`request` and `program` are the objects of an Event, `factory` the static members of
ResponseFactory, `env` the environment of the program, `said` and `spoken` what client and
program have said in this exchange, `before` what was said earlier on the connection.
A target is a file, a program or one that is redirected; a program gives any number in
`Statuses` as its status, or none, and a message or none (`_parseLine`).
`KeepAlive` resets the objects as `initialize` does, with its omissions.

### Config, Lookup, Listeners, FileManager

`Config` reads a line per step and keeps the parser's position as `mode`; a line is its
tabs, keyword and value. `Lookup` has one action per branch of the loop; a URI is a
sequence of slashes and other characters. `Listeners` has an action per socket that
is opened or closed, so that a descriptor may be handed out in between. `FileManager`
keeps directories and file contents; opening, each piece that is written, and the end
of an upload are actions of their own.

## 3. What the runs show

| Run | Instance | Properties | Distinct states |
|---|---|---|---|
| `SoloFaults` | 1 connection, all methods, all members of `Faults`, fair | `TypeOK`, `EachIsAConnection`, `EveryRequestAnswered` | 2 493 |
| `PairFaults` | 2 connections, GET, POST and DELETE; recv, send, accept fail | `LiveDispatch`, `DispatchOnce`, `NeverDeaf`, `NoLeak`, `HaltCauses`, `OneInterest`, `FdOwnership`, `CloseDiscipline`, `NoStaleChange` | 352 474 |
| `WrongRoutine` | 1 connection, GET, malformed requests | `NeverWrongRoutine` is violated | - |
| `HttpRequest` | 56 requests, buffer of 5, header of at most 12, fair | `UploadExact`, `MalformedNeverDone`, `SplitIndependent`, `EventuallyUploaded` | 5 559 |
| `Transfer` | bodies of up to 5 bytes, buffer of 2, program headers of 1 to 4, fair | `NothingPartial`, `FramingAgrees`, `BodyExact`, `StuckCauses`, `Delivered` | 1 965 |
| `CgiHandOff` | 2 programs on one name, output of up to 7 lines, fair | `OneProgram`, `OwnOutput`, `LoopCauses`, `StuckCauses`, `Answered` | 12 570 |
| `Config` | files of up to 6 lines out of 16 | `ParsedRight`, `PortDecides`, `EmptyRootCauses` | 897 308 |
| `Lookup` | URIs of up to 4 characters, 3 sets of locations | `LongestFound`, `EndlessCauses` | 881 |
| `Listeners` | 2 ports, 9 descriptors, 2 programs, 3 reboots | `OneListener`, `NeverClosesForeign`, `ExitCauses` | 3 395 |
| `RebootExits` | 2 ports, 2 programs, 2 reboots | `RebootServes` is violated | - |
| `FileManager` | 2 connections, 2 names, depth 2 | `UploadIntact`, `RebootCauses`, `DeleteScope` | 981 106 |
| `Exchange` | 1 connection, all methods, 2 versions, 2 cookies, programs' statuses 200, 301, 400 | `EnvIsOwn`, `ResponseIsOwn`, `SuccessCauses` | 309 469 |

`SoloFaults` switches all modelled failures on, so it reaches every branch of the modelled
handlers; `PairFaults` is about what two connections do to each other.

*Dispatch.* `LiveDispatch` and `DispatchOnce` say that the raw pointers in the batch
and in `_routedEvents` are safe to follow. They rest on two facts nobody states in
the code: at most one registration of an Event is enabled (`OneInterest`), and an
Event of the batch is never idle, because its time stamp was written before the
first accept of the batch looked for idle connections. Dropping either breaks them
within one batch (mutants `BothEnabled`, `NotStamped`).

*Descriptors.* `CloseDiscipline`, `NoStaleChange` and `FdOwnership` hold although a
client's socket is closed in the middle of a round and its number may be accepted
again in the same round: no handler leaves a change for a socket that it, or a
later step of the round, closes. Consequently `clearFileFds` never throws, and the
model needs no such failure. `NoLeak` holds if none of the members of `LeakCauses`
happens; for each of them the code does lose descriptors. One of them is no failure but a
request: DELETE of a directory whose first entry is a directory ("nested") loses the
outer directory's descriptor. `PairFaults` has DELETE without it, which is a DELETE of a
file, or of a directory in which a file comes first.

*Progress.* `NeverDeaf` says that a connection is always registered for what it
waits for, as long as `open` succeeds. `EveryRequestAnswered` says that a parsed request
is answered, or its connection is closed, or the server reboots or ends, or else it stands
in one of these ways, each of which the code has:
- `Lost`: a file could not be opened after the type was changed, and the connection waits
  for a descriptor which is not registered; or the 505 to a CGI answer without a body was
  left in `HTTP_DOWNLOADING_INIT`, where `_sendResponse` sends nothing, for ever;
- `Forgotten`: a reboot dropped it from `_routedEvents`, and it is looked at again only
  when its client sends more;
- "unending": its body is malformed, with a size of which `uploadRequest` never finds the end;
- `[]AwaitsFile`: it waits for ever for a CGI program, or for a file that is being read.
  The model assumes nothing of either. A program need not write: the child of a PUT exits in
  `_setEnv`, the answer's file stays empty, and kqueue never reports it. When a program or a
  file makes its client wait is the question of `CgiHandOff` and of `Transfer`, whose
  `StuckCauses` list it.

What a reboot means for a waiting connection depends on the others, and a connection that
is served may need another's help: with two connections that POST, the second one to
finish flushing finds `TEMP_TRASH` removed, `unlink` throws, and it retries and reboots
until some other connection creates the file again. And while `accept` fails in every
round (no descriptor is left), every reboot drops what the round had routed, so nobody is
served. That is why the property ends at a reboot.

`HaltCauses` gives for each value of `server` at which the modelled loop reboots, ends or
stands still the member of `Faults`, the method, or the second connection that it takes;
what is not modelled (section 5) is not in it. Three of its conjuncts are about states and
not only about `Faults`: a SIGPIPE hits a connection that sends; `TEMP_TRASH` is missing
only for a connection that flushes while there has been another one (this is said as long
as `open` succeeds, and it is checked although accepts fail, since each exception has its
own name); and a CGI answer is parsed a second time, so that `lseek` may throw, only
after a reboot, which without a member of `Throwing` takes another connection. `PairFaults`
has "accept", which makes reboots by itself: of that last conjunct the run says nothing, the
theorem `EveryEndHasItsCause` does.

Two of the ends are thrown strings, which `main` does not catch: the process ends.
- `_redirectUploadError` throws "wrong routine of evnet" for a response that is not of
  a flush. A malformed GET of a CGI program gets there, which contradicts what the string
  says: run `WrongRoutine`.
- `_uploadFile` throws "unexpected response type" for a failed CGI call whose page is not
  `TYPE_FLUSH_ERR`; a GET whose fork fails gets there.

*Refinement.* `EachIsAConnection` would fail if a kept connection started its next
request with something left from the last one (mutant `StateKept`), or if a handler
were served in the wrong phase.

*Parsing.* Over all cuts of each of the run's requests into pieces of at most a buffer,
and of each body into writes: the file is always a prefix of the payload and finally all
of it (`UploadExact`), what is found is what the header says, read as a whole
(`SplitIndependent`), a malformed request is never uploaded to its end
(`MalformedNeverDone`), and every well-formed one is, so none is rejected or forgotten
(`EventuallyUploaded`). That last property carries the exception that the code has: if the
last `recv` filled the buffer exactly, the request stays as it is until more bytes come.
`SplitIndependent` is about well-formed requests only: the verdict on a malformed chunk
does depend on the cut. A chunk size that is negative or does not fit makes a request
neither well-formed nor malformed: with -6 the server parses for ever, with others the
chunks that the upload finds are not the ones that were counted. The run has seven such
requests and one with a `Content-Length` of -1, and three that are malformed in front of
such a size and still never done.

*Transfer.* `NothingPartial` and `FramingAgrees` hold for each GET of the model: a
response is complete in memory before its first byte is sent, which is why a file that
shrinks leads to an endless wait instead of a wrong answer. `Delivered` says that the
responses that are not stuck end. Four things do go wrong, and the properties state exactly when:
- the body of a CGI program that was only partly read together with its header is sent
  with its first bytes twice and its last bytes missing (`BodyExact`): what was read
  goes into the response, and the file is then rewound to the start of the body;
- an empty custom error page, a file that changes its size, or a length beyond `int`
  leaves a connection that waits for a file that will never be readable (`StuckCauses`);
- the 505 to a program's answer is never sent or made of the program's body;
- HEAD of a directory sends the listing.

*CGI.* `OwnOutput` is the property the shared file names endanger. It holds up to two
exceptions that it names: the program is faster than the server's own
open with `O_TRUNC`, which then erases its output; and a reboot that comes between the
parsing and the serving of the output, after which `parseRequest` is called in
`CGI_PARSING_DONE` and rewinds the file once more. If that goes before the start of the
file, `lseek` throws in every later round (`LoopCauses`). `OneProgram` says that no two
programs use the files of one name at a time, although names are descriptor numbers.
`StuckCauses` lists the programs whose clients wait for ever: no output, no `Status:` or
`Content-Type:`, a bare line feed, a failure before `execve` (every PUT, for which
`_setEnv` exits); the other clients of the model are answered or closed (`Answered`).

*Exchange.* `HttpRequest::initialize` forgets `_cookies` and `_httpVersion`. `EnvIsOwn` says
that nothing but an earlier cookie of the same connection can reach a program this
way, and `ResponseIsOwn` that nothing but the version of a malformed start line reaches a
response, although its fields are static: an answer has the status, the type and the cookie
that its own program has said last, whatever status this is, or is an error page; only
without a program do a redirection and a `Location` go together. `SuccessCauses` records
that requests for programs are subject to the version only, not to allowed methods or
redirections: a program says itself what is a success.

*Configuration and lookup.* `ParsedRight` compares the parser with a definition that looks
at the whole file: for each location its own lines, and those of its server above it.
`PortDecides` says that the name in a Host field never matters, since equal ports are
refused: `findServerId` looks at the port in the Host field, and not at the one that the
connection came in through. `EmptyRootCauses`: a location is left without a root and
without an identifier to append to it only by a server that has neither root nor
locations, or by a line without a value. `LongestFound` is the reference for the loop of
`_findLocationInfo`. The loop does not end for a URI without a slash in front, and only
for such (`EndlessCauses`).

*Reboots.* `_serverSockets` keeps the numbers of every life of the server and `end` closes
all of them each time. `NeverClosesForeign` and `OneListener` hold nevertheless, for a
reason outside the code: the kernel hands out the lowest free number, so every life
gets the same. `RebootExits`: main says "Server Reoot...!" and starts again, but a CGI
program that is still running has inherited the listening sockets, `bind` fails and
`Router::start` calls `exit`. `ExitCauses` says that this is the only reason.

*Files.* `UploadIntact` holds for uploads that nobody else interferes with; two at a
time to one path do mix. `RebootCauses`: PUT of a directory, and PUT or POST of a path
that ends with a slash, throw. `DeleteScope`: DELETE of a directory removes at most one
file, and never a directory.

### Bounds

Two connections are enough for every interaction of the code: a handler touches
its own Event, the change list, and what is shared by all (descriptor numbers,
`closing`, `TEMP_TRASH`), and a second connection is the one that is given the
number, the file or the batch position. Six descriptors let both have a socket, a
page and a temporary file at once, so that running out of them does not hide a
state; a nested DELETE needs none of them, its loss is in `LeakCauses`. `Ports = 1` is one
accept per batch. Connections are interchangeable
(symmetry, in the runs without liveness only). A freed Event is not allocated again,
so a run sees as many connections as it has Events. The failures that `PairFaults` leaves
out lead to branches that `SoloFaults` takes; for two connections under all of them the
theorems stand in. Deadlock is not checked: the server may halt, connections may all be
gone, a response ends, a file has been parsed, a request is parsed for ever.

`HttpRequest`: the requests have payloads of at most six bytes, two chunks and four header
lines, among them data that looks like the framing, and sizes from the least to the
largest `long`; a buffer of five cuts each of them several times. `IntLimit` is 64 and
`LongLimit` 128, both beyond the length of each request; in between lies a size that fits
a `long` and not an `int`. The theorems hold for requests of every length and every
buffer. `Transfer`: with a buffer of 2, a body of up to 5 and program headers of 1 to 4
bytes, a body may fit in the first read, partly or not at all, and take up to three reads;
an `int` of 3 makes 4 and 5 overflow. `CgiHandOff`: two programs on one name are the least
with which a name is used again; output of up to seven lines and a buffer of four puts the
end of the header before, at and behind the end of a read, and one output has an empty
line before its header. `Config`: six lines hold two servers, or one with a location of
each level and repeated settings, and the theorems hold for files of every length.
`Lookup`: four characters hold two segments and doubled slashes; the theorems cover the
rest. `Listeners`: nine descriptors are two standard ones, two sockets and five others,
and four lives are enough for numbers closed twice. `FileManager`: two names and depth two
give every relation of two paths (equal, above, beside). `Exchange` runs one connection
through any number of exchanges, with what the last one left in the static members; of the
statuses one is a success, one the server's own redirection and one makes it close; the
theorems say the same of several connections that share them.

### Fairness

`EventLoop`: the loop never stops by itself, hence weak fairness of applying changes,
routing, accepting (with its failure), serving and rebooting. Strong fairness is assumed of
writing only: kqueue is level-triggered and reports a file that is written to, and the
socket of a client that reads its response, again and again (`ReportsToRoute`, of an Event
that `Writes`); a body whose sizes are not malformed is finite, and so is a response in
memory, hence each write may have more to do, but not for ever (`Completes`). Nothing is
assumed of what comes from outside: that a client sends its next bytes, that a CGI program
writes or ends, that a file being read is ever readable or has the bytes it had. And
nothing in it helps a connection that is not registered.

`HttpRequest`: bytes that were sent arrive and a body that can be written is written: weak
fairness of `ReceiveAndParse` and `Upload`, stated with their guards (`CanReceive`,
`CanUpload`) instead of ENABLED. Nothing is assumed of `NextRequest`.

`Transfer`: a file stays readable while there is more of it, and the client goes on
reading, hence weak fairness of `Download` and `Send`; nothing is assumed of `Touch` and
`Fail`.

`CgiHandOff`: server and programs go on running, hence weak fairness of the server's next
step for a program that has been forked, of every step of the parsing, and of each
program's next step. Nothing is assumed of
reboots, and a program's output is finite.

## 4. What is proved

| Theorem | States, for `Spec` (`LookupSpec` in the case of `Lookup`) |
|---|---|
| `TypeCorrect` | `TypeOK` of `EventLoop` |
| `InvariantHolds` | `IInv`, its inductive invariant |
| `DispatchIsLive`, `DispatchIsUnique` | `LiveDispatch`, `DispatchOnce`: the raw pointers of a round are safe to follow |
| `InterestIsUnique` | `OneInterest` |
| `ClosesAreSafe`, `NumbersAreClean` | `CloseDiscipline`, `NoStaleChange`: closing is in order, reused numbers are clean |
| `DescriptorsAreOwned` | `FdOwnership` |
| `NobodyIsForgotten` | `NeverDeaf`: a connection that nobody serves is registered for what its type waits for |
| `SecondLayer` | `JInv`, inductive together with `IInv` |
| `EveryEndHasItsCause` | `HaltCauses`: what each end, standstill and reboot of the model takes |
| `NoDescriptorIsLost` | `NoLeak`: without a member of `LeakCauses`, a nested DELETE among them, no descriptor is lost |
| `ImplementsConnection` | `EachIsAConnection`: `EventLoop` implements `Connection` |
| `TransferInvariant` | `TInv`, the inductive invariant of `Transfer` |
| `NeverPartial`, `LengthIsTrue`, `BodyIsExact`, `StuckIsExplained` | `NothingPartial`, `FramingAgrees`, `BodyExact`, `StuckCauses` |
| `Invariant` | `IInv`, the inductive invariant of `HttpRequest` |
| `Typed` | its types, and `ReadInMemory`: the read position stays in the memory, but for the loop over chunks of which a size is negative or too large |
| `LoopsEnd` | `ParsingReturns`: the loops of `parseRequest` end, for requests whose chunk sizes are not negative and fit |
| `Exact`, `NeverDone`, `Independent` | `UploadExact`, `MalformedNeverDone`, `SplitIndependent` |
| `LookupInvariant`, `LookupTyped` | `LInv`, the inductive invariant of `Lookup`, and its types |
| `LongestIsFound`, `LocationFits`, `EndlessIsExplained` | `LongestFound`, `CutFits`, `EndlessCauses` |
| `ListenersInvariant`, `ListenersTyped` | `LsInv`, the inductive invariant of `Listeners`, and its types |
| `PortsHaveOneListener`, `EndClosesOwn`, `ExitIsExplained` | `OneListener`, `NeverClosesForeign`, `ExitCauses` |
| `CgiInvariant`, `CgiTyped` | `CInv`, the inductive invariant of `CgiHandOff`, and its types |
| `ProgramsAreAlone`, `AnswersAreOwn`, `LoopIsExplained`, `WaitIsExplained` | `OneProgram`, `OwnOutput`, `LoopCauses`, `StuckCauses` |
| `ExchangeInvariant`, `ExchangeTyped` | `XInv`, the inductive invariant of `Exchange`, and its types |
| `EnvironmentIsOwn`, `HeaderIsOwn`, `SuccessIsExplained` | `EnvIsOwn`, `ResponseIsOwn`, `SuccessCauses` |
| `ConfigInvariant`, `ConfigTyped` | `ParseInv`, the inductive invariant of `Config`, and its types |
| `FilesAreParsed`, `PortsDecideAlone`, `RootsHaveTheirCauses` | `ParsedRight`, `PortDecides`, `EmptyRootCauses` |
| `FileManagerInvariant` | `FInv`, the inductive invariant of `FileManager` |
| `UploadsAreIntact`, `RebootsHaveTheirCauses`, `DeletesStayInScope` | `UploadIntact` and the action properties `RebootCauses`, `DeleteScope` |

### EventLoop

The theorems hold for every set of connections, descriptors and methods, any number of
ports and every set of failures, from `ConstAssumption` (descriptors are naturals, NULL
is no Event) and `InputAssumption`.

*Types.* `TypeOK` is inductive as it stands because it says more than types: the
descriptors of a live Event are valid, which the lemma of every handler needs to know
that the registration it queues exists, and a response that stands for an error page
of a flush carries a valid descriptor, which `_redirectUploadError` and
`_flushBuffer` read rounds after it was opened. `EventOK` and `TablesOK` (lemma
`TypeFromParts`) split it into what a step does to one Event and to the tables, and
there is a lemma for each handler.

*The invariant.* None of the first seven properties is inductive. `DispatchOnce` needs
`OneInterest` before the next `kevent`; that needs to know what the change list will do
(`Effective`), that its changes can be applied in their order (`ChangesApplicable`), and
that a registration never survives the descriptor it is for; `LiveDispatch` needs that
what is dispatched is not idle and that nothing is queued for it until it is served
(`DispatchSettled`); and reused descriptor numbers need `CloseDiscipline`, `NoStaleChange`
and the ownership of sockets (`ClientsRegistered`), files (`ActiveFile`) and unsent pages
(`PageHeld`). `NeverDeaf` needs that the registration which will be effective is of the
descriptor and direction that the type reads (`Demanding`), that a queued removal is of a
socket (`HangupsAreSockets`), that a registered Event is not freed unless a program's
answer was cut off (`StillThere`), and an account of who has given up waiting and why
(`Heard`, `GaveUp`). `IInv` is the conjunction. TLC confirmed it on instances of one and
of two connections before it was proved.

*The argument.* `IParts` states `IInv` connection by connection (`InvIsParts`): `OwnOK`
about one, `ApartOK` about two.
1. `QueueStep`: one more change in the list keeps the list applicable and alters
   `Effective` of its own key only.
2. `Foreign`: the descriptors that a handler of `c` may touch (`Mine`: its socket, its
   active file, the page it holds, what it opens) are registered for nobody else,
   held by nobody else and not waiting to be closed. `OthersKeep`: hence a step that
   touches only such descriptors leaves every other connection's part of `IInv` as it
   was.
3. `ServeKeeps` reduces a handler to what remains about `c`. All handlers have one
   pattern: first the active registration is disabled or deleted (`Quiet`), then another
   one is enabled or added (`ServeWake`), or an exception comes first (`ServeQuiet`).
   `RemovedKeeps` does the same for `removeConnection`. `ServeOneKeeps` collects them.
4. `ClosesKeeps` covers every step that closes descriptors at most (routing, time,
   `kevent`, the idle check, the reboot), `StillEffective` the application of the
   change list, `AcceptKeeps` a new connection, whose number may be that of an idle one
   removed in the same step. `KeventKeeps` is where `OneInterest` becomes
   `DispatchOnce`: every kevent returned leads to another Event (`ReturnedSettled`).

*The second layer.* `HaltCauses` and `NoLeak` say which failure must have come first. The
models keep no record of failures, so their causes must be read off the state: `JInv` adds
to `IInv` which responses and methods an Event of a type can have (`MethodsFit`, through
`FitOK`), that whoever flushes to `TEMP_TRASH` finds it or is not alone (`TrashThere`),
and that every open file can be reached from the Event that is to close it, or is in a
list of descriptors to be closed, unless one of `LeakCauses` is possible (`Reached`,
through `Holds` and `LeftOver`), and that a program's answer which was parsed in an
earlier round and not served stands beside another Event, since the reboot that dropped it
was another's (`RepliesServed`, unless there is a member of `Throwing`). `ServeFits`
proves it handler by handler, the lemmas ending in `Reached` for kernel, routing and time,
and those ending in `Halts` read the cause of an end off the state before it.

*Refinement.* The last part of `EventLoopProofs` shows, handler by handler, that a step of
`EventLoop` changes the mapped variables of at most the connections it is about, and
changes them by one of Connection's steps or not at all. It needs `IInv` because a handler
serves the type its Event was routed with: that a routed Event is alive and has not been
changed since is `LiveDispatch` and `DispatchOnce`.

### Transfer

For every length of header and body, every buffer and every width of `int` and `size_t`
(`SizeAssumption`). `TInv` adds to the types what the constructor fixes (`Fixed`), how many
bytes there are in memory (`Accounted`), what each state of the response implies
about sizes (`Phased`), and at which place of the body each byte of memory is (`Placed`).
`FramingAgrees` needs the first three; `BodyExact` needs `Placed`, which holds up to the
repeated bytes of a program's body, and then says where the repetition begins.

### HttpRequest

For every set of requests, every reading of the symbols as lengths (any `int`) and sizes
(any `long`), every `READ_BUFFER_SIZE`, `HTTP_MAX_HEADER_SIZE` and width of the types,
from the assumptions of the module: CR and LF are no chunk sizes, and what a client sends
is a finite sequence of bytes, fewer than an `int` can count.

None of the three invariants is inductive: what `file` holds depends on where the upload
stands among the chunks, this on where parsing said that the body begins, and this on the
lines before. `IInv` says for each state of the parser where in the request it stands and
what it must have noted there. Its parts are about the request `r` that is sent and the
object `q`:
- `Holding`: the memory is the beginning of the request, wherever `read` is;
- `Steady`: `read` is inside of the memory, and the parsing is not endless, but for the loop
  over the chunks of a request that is not `Harmless` (neither well-formed nor with
  plain sizes only);
- `Begun`: what parsing has not reached is as `initialize` left it;
- `HeaderSaid`: in front of line n + 1, `read` and `headerSize` are those of n lines, and
  method, length and coding are what these n lines say (`Passed`, `Known`);
- `BodyFound`: `_parseChunk` stands at the start of a chunk of the request or behind its
  size line (`Counting`);
- `FlawSeen`: behind a flawed start line or field the state is `PARSING_BAD_REQUEST` and
  the parsing is over;
- `Uploads` and `Writes`: the upload stands at the start of a chunk, in its data or at the
  line end behind it (`Chunking`), or in a body of known length (`Copying`), and the file
  is the payload up to there (`Offset`); all of the request has arrived.

The first six (`Parsed`) are kept by every turn of the loops, shown turn by turn:
`StartLine`, `HeaderLine` (which rests on what `LengthLines` and `SaysChunked` gain from
one more line), `Chunk` and `Body`; a call receives bytes (`SockToMem` makes the memory a
longer beginning of the same request) and then takes turns. A turn in the header consumes
a line. A turn in the chunks of a `Harmless` request finds a size that is `Moderate` (from
-1, for none, up to what fits an `int` with two more) and moves `read` forwards and not
beyond the memory: this is `LoopsEnd`, and `Typed`. Of the turns over other sizes the
proof knows only that the memory stays what it is and the state one of the three that the
loop can leave; where the loop stands is not said, and the upload after it starts from
`_bodyFirst` again. What the line found by `getLine` is, follows from where the next line
feed is; that a chunk's data may look like a size line or an empty line does no harm,
because `_parseChunk` and `memToFile` pass over it by its length.

`MalformedNeverDone` is the one that needs an argument about the code rather than
about positions: `_parseChunk` does not stop at a bad size and may go on to overwrite
`PARSING_BAD_REQUEST` with `UPLOADING_CHUNK_INIT`. The upload then walks the same chunks
from `_bodyFirst`, and comes to the flawed size before it comes to any last one: `Chunking`
holds of a request with a flawed size as well, and of that request no chunk is the last.

### Lookup, Listeners

`LInv`: what is left of the URI is a beginning of it that ends at a segment, and no longer
candidate is a key of a location, whatever the lookup has inserted itself
(`Progress`). `LongestFound` is this at the end of the loop.

`LsInv`: in every life port number p is given the descriptor `First + p - 1`, since nothing
else is open while the sockets are created and the lowest number is handed out. Hence
`_serverSockets`, which is never emptied, never holds a number that is not a port's own,
and closing one twice closes nothing.

### CgiHandOff

For every set of outputs, every buffer and any number of programs, from `CgiAssumption`
and `OutputAssumption` (an output is lines, of which only the last may lack its end).
`CInv` relates what the server has parsed to what its program writes, through a file that
it knows by a number and a name. `Programs`, `Progress` and `SameFile` are about the file:
only the last program may still write, the connection waits for it, both use one inode,
and this holds a beginning of the program's output, unless the server truncated it after
the first write (`late`). `Stages`, `Position` and `Parsed` are about the memory: it is a
beginning of the same output, and the parsing stops at the first empty line that ends the
header (`EndsHeader`). `Placed` is about the descriptor: a parsed header leaves it at the
body, and each reboot takes it back once more by what was read too much. There is one
lemma per action; `ParseLineKeeps` rests on what `getLineFile` returns (`FetchedIs`,
`LineIs`) and on what a further line adds to a header (`HeaderGrows`).

`OwnOutput` says `BodyAt`, not that the body begins behind the first empty line: the server
passes over an empty line that ends in LF alone or comes before Status: and Content-Type:
when more of the output follows in the file. The proof does not go through otherwise, and an
output of the run shows the difference.

### Exchange

`XInv` relates the records of one connection at a time: the request holds what the client
has said or has said last (`Told`), the environment was given by this request and the
program's object holds what the program has written (`Programmed`), and the header is
about them (`Answered`). The static members do not occur in it: `Initialized` leaves
nothing of them, which is what makes the proof independent of other connections.

### FileManager

For every set of names and bodies, every depth and any number of connections. `FInv` is the
tree (`Tree`) and, for each connection (`ConnOK`), that what it has written is what its file
contains as long as no other request has touched that file (`Uploads`); a step writes,
truncates or removes one file, and whoever has it open notices (`FileChanged`). `Made`, the
directories that `isConflict` creates on its way, is shown to be closed under parents and
to avoid files (`MadeIs`), which is why the tree stays one and why an open without a slash
never fails on a missing directory (`AllMade`). `Victims` is a recursive function over the
tree; `VictimsSolves` gives the recursion a solution (`Below`: the files below a path), so
that it may be unfolded, and `VictimsAreBelow` bounds it by a longest counterexample.

### Config

For files of every length over any set of lines that satisfies `ConfigAssumption` (a value
is of the kind that its keyword takes, "server" has no tabs in front). The parser reads a
file once; `ParsedRight` looks at the whole of it. `ParseInv` is `ParsedRight` for the
part that has been read: nothing is known before the first server (`TopInv`); the server
in hand is what the lines since its own say (`ServerInv`, through `AsFar`); the servers
before it are complete and will not change (`EarlierInv`); the location in hand is the
last one of those that the file asks for, and there is one exactly while further lines of
it may follow (`LocationOpens`, `ServerOpens`). Each definition of what a file says is
shown, by a lemma of its own, to change as it should when the file gets one line longer
(`Longer`): a setting of the new line comes after all others, and no line changes its
server or its block. Then there is one lemma per action. A location line with the
identifier of an earlier one replaces it, which is why `LocationLines` keeps of one
identifier only the last.

`PortDecides` rests on `PortsDiffer`, that the servers of a finished file have different
ports. `RootInv` says `EmptyRootCauses` of the servers before the file ends: the exception,
the location that a server without any is given, is for finished servers only; a location
in hand has a root or an identifier, unless the file has a line without a value already.

### What is only model-checked

Every safety property that a passing run checks is the statement of a theorem. Liveness
under fairness and ENABLED are out of the prover's reach and stay with TLC:
`EveryRequestAnswered`, `EventuallyUploaded`, `Delivered`, `Answered`. The two runs that end
in a violation need no proof. What a recursive definition computes for all data cannot be
proved by induction over the data with these provers; where the models need such a fact it
is had in another way, by a solution of the recursion and an argument by a least
counterexample (`VictimsSolves` in `FileManagerProofs`, `TurnsAre` in `HttpRequestProofs`).

## 5. Not modelled

- `Log`, the test client, scripts, test programs, pages: no part of the behaviour.
- Failures of `fcntl`, `lseek` (but for a position before the file), `gettimeofday`, `kevent`
  and of allocating memory; exceptions of the library other than those named in section 2;
  more kevents than `MAX_EVENTS`.
- What the server does after it has followed a dangling pointer, or has read in front of its
  memory: the model stops there, or keeps the state and not the bytes.
- Idle time-outs of connections in other states than reading, which the code does not
  have; `TIME_OUT_HTTP_PARSING`, of 27 hours.
- How the digits of a number are read, one by one: it is a symbol with a value. Pipelined
  requests, whose bytes `initialize` drops: a client that waits for its answer sends none.
- The wording of messages and listings, the table of content types, dates.
- Paths with `..`, symbolic links, permissions, and files that other processes change
  (but for their size, in `Transfer`).
- Splitting a configuration line into its words, and values that are out of range.
- Connections' sockets that a program has inherited, as their clients see it: a connection
  that the server has closed stays open until the program ends.
