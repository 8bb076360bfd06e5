# Narwhal on JavaScriptCore: specifications and proofs

The repository runs Narwhal (a CommonJS standard library) on JavaScriptCore.
Its own code is a set of native modules in C++ ("engines"), each with a thin
JavaScript half in `lib/`, the start-up program, and Jill, a web server for
Jack applications that is built on the vendored `deps/http-parser`. This
directory holds TLA+ modules for that code, TLC configurations and TLAPS
proofs. Paths below are relative to the repository (`src/` in
`PROJECT.json` is the repository's root, so `src/src/...` is its `src/`).

## 1. Inventory

| component | state it keeps | operations | interacts with |
|---|---|---|---|
| **Jill** `src/jack/handler/jill.cc` | the listening socket; the buffer, its size and position, shared by all connections; `client_data` of the current connection (where in the buffer path, query, header name, header value and body lie, the env object, `complete`) | `JILL_run` (accept loop, recv loop, realloc), eight parser callbacks, `dispatch`, `handlerWrapper`, `Jill_writer` | calls http-parser, which calls back; calls the JavaScript application, whose body calls back into the writer; the kernel's sockets |
| **http-parser** `deps/http-parser/http_parser.rl` | machine state, a mark and size for each field, flags, chunk size, content length, keep-alive | `http_parser_init`, `http_parser_execute`, `http_parser_has_error`, `http_parser_should_keep_alive` | calls user code; keeps pointers into the user's data between calls |
| **os-engine** `src/os-engine.cc`, `lib/os-engine.js` | pid of a `Popen` object, its three pipe ends | `popen`, `wait`, finalizer, `system`, `sleep`, `exit` | makes IO objects; child processes, pipes |
| **io-engine** `src/io-engine.cc`, `lib/io-engine.js` | two descriptors of an `IO`; the copied descriptor and iconv state of a text stream; the buffer of a `ByteIO` | `read`, `readInto`, `write`, `close`, `read`/`readInto` of text, `ByteIO` | kernel descriptors, iconv |
| **http-client-engine** `lib/http-client-engine.js` | state of reading (status line, headers, body), the curl process | `open`, `read`, `write`, `copy`, `close` | popen, three pipes to curl |
| **binary-engine** `src/binary-engine.cc` | byte arrays | `transcode`, copy, fill, compare | iconv |
| **file-engine** `src/file-engine.cc`, `lib/file-engine.js` | none (the file system) | one system call each, but `mkdirs` (two for each directory), `touch` (up to three) and `open`, which makes an `IO` | the file system, which other processes change between two calls |
| **interpreter, native modules** `src/interpreter.cc`, `lib/interpreter.js`, `include/narwhal.h`, `bootstrap.js` | contexts; the globals `NARWHAL_MODULE` gives each native library; the loader's caches | `new Context`, `eval`, `load`, `require` | dlopen, JavaScriptCore |
| **narwhal.c, narwhal-jsc.c** | none after start-up | find `NARWHAL_HOME`, evaluate `bootstrap.js`, REPL | readline |
| readline, system.js, NWDebug, build, libedit | none of their own, or third-party | – | – |

### Hard behaviours

* **Jill and the parser.** TCP delivers a request in pieces of any size. For
  each piece the parser reports only the part of a field it has just seen, and
  Jill stitches the pieces together as offsets into a buffer that moves
  (`realloc`), is never cleared between connections and is written to while it
  is still being parsed (a NUL goes after each text that is cut out of it). The
  client may hang up at any point, before, during or after the application runs,
  or not read its answer, for which `send` waits; the application may throw, or
  its body may throw half way; a second request may already be in the buffer
  behind the first; two different callbacks may dispatch the request.
* **Processes and descriptors.** A descriptor number is shared by `IO`
  objects, text streams, children and finalizers and is reused by the kernel as
  soon as one of them closes it; pipes block when full; a child's status can be
  collected once.
* **Text streams.** `iconv` consumes and produces incomplete characters, and
  the loop around it must make progress for every way it can stop.
* **Files.** Between the test and the system call that relies on it another
  process may make, remove, move or empty what was tested.
* **The client.** curl blocks when a pipe is full that the client does not
  read yet, or any more; a redirect has a status and headers of its own.
* **Contexts.** The library's globals are shared by all contexts.

`hazards` in `PROJECT.json` lists each of them at the line where it bites.

### What makes each component correct

* Jill: the application gets exactly the path, query and body the client sent
  and, under each name, the last header of that name, whatever the cuts; it is
  called once per connection and only for a whole request; the response is in
  order and never has a gap; no write leaves the buffer or hits unparsed input;
  `recv` is never called without room; no client waits for ever.
* http-parser: cutting the stream differently changes nothing of what the
  callbacks say; no message overlaps another; nothing outside the data given
  is read.
* os-engine and io-engine: every open descriptor belongs to one live object and
  is closed once; a child's descriptors 0, 1, 2 are its pipes; the parent sees
  the end of a child's output; `wait` returns the status of its own child.
* text streams, `ByteIO`, `transcode`: the characters (bytes) read are those
  of the input, in order, for every split; every call ends.
* contexts: an object made in one context is used with that context's globals.
* file-engine: `mkdirs` and `touch` leave there what they were asked for, who
  loses a race does no harm, nothing that was appended is lost but to a `touch`
  that looked too early, calls end.
* http-client-engine: the request has the status and headers of the response
  whose body it reads; a failed transfer is not taken for a short body; curl
  and the client do not wait for each other.

## 2. Plan

The modules, in the order they were written:

| | modules | what for |
|---|---|---|
| 1 | `HttpParser`, `Sockets`, `Jill` | the parser as actions; clients and kernel; the server, which conjoins its callbacks to the parser's steps |
| 2 | `Message`, `Jsgi`, `JillServer` | a reading of a stream with no parser in it; what a JSGI server promises; the properties of `Jill` and the refinement |
| 3 | `HttpStream`, `HttpStreamProofs` | the parser alone, on streams Jill refuses to go on with |
| 4 | `JillInductive`, `HttpParserProofs`, `JillProofs`, `JillHeadProofs` | the inductive invariants; that Jill implements `Jsgi` and hands on the entire body, and the head as it was sent |
| 5 | `Descriptors`, `Processes`, `Channels`, `ProcessProps` | the kernel's tables; popen and `IO` objects; what popen promises; properties and refinement |
| 6 | `ProcessProofs` | who owns a descriptor, how a child is wired, whose status `wait()` returns; popen implements `Channels` |
| 7 | `Files`, `FilesProofs` | the file engine and `ReadFile()` among other processes |
| 8 | `Iconv`, `TextStream`, `Transcode`, `ByteIO`, `ByteFifo`, `Decoding` | text and bytes, and a script that moves a text through all of them |
| 9 | `DecodingProofs` | a `ByteIO` implements a queue; what `iconv()` does however its source is cut; a text comes through the streams whole |
| 10 | `HttpClient`, `HttpClientProofs` | the client over the channels popen promises, with curl at the other end |

`Decoding` EXTENDS `TextStream`, `Transcode` and `ByteIO` and composes them;
`HttpClient` EXTENDS `Channels`, the abstract specification that `Processes`
implements. What could be added is in section 7.

## 3. The modules

### HttpParser and the abstraction of bytes

A *cell* stands for what the machine can tell apart. In a path, query, name,
value or body a cell is one byte; a delimiter (`GET `, ` HTTP/1.1\r\n`, `: `,
`\r\n`) is one cell, since the machine runs at most one action within it. A
value's last cell may say what the machine learns from it: a digit of
Content-Length, `chunked`, `close`, `keep`. Streams may be cut between any two
cells. `Edge` is the grammar (http_parser.rl:247–343).

`http_parser_execute()` runs user code from within, so it takes many steps here:
`step` says where control is in it, and `Callback(c)` is the call made by the
next step. A module that uses the parser conjoins its handler to
`ParserStep(c)`. A cell that both closes a field and announces something
(`keep_alive`, `chunked`) does so in one step, as the machine does. Of the marks
of the C struct those of path, query, header name and header value are one pair
`field`, `markAt`: two of them are never set at once. The mark of the whole URI
is set together with that of its path or query, and Jill sets no callback for
it; what it does is that a URI that is too long is refused even when its parts
are not (`RefuseURI`), for which `uri` counts its bytes.

Left out: responses; fragments, absolute URIs and request methods as text;
chunk extensions and trailers; `field` being reported once more when the
machine stops in an error inside the bytes of a delimiter.

### Sockets

Each client opens one connection, sends the cells of one stream, reads what
comes for it when it likes, and may hang up (`fin`) or reset (`rst`) at any
time. A piece that was sent may be all the kernel takes: the connection is then
`full`, and `send` blocks, until the client reads. The queue of `listen` holds
`Backlog` connections; `accept` takes the oldest. All of it is external.

### Jill

| in the code | in the model |
|---|---|
| `JILL_run` 552–597: socket, bind, listen, malloc | `Start` |
| 599–641: accept, `client_data`, `http_parser_init` | `Accept`, `NewData`, `AcceptError` |
| 645–659: room, realloc, out of memory | `HasRoom`, `Realloc`, `OutOfMemory` |
| 661–666: recv into the rest of the buffer | `Recv`, `RecvError` |
| 668: `http_parser_execute` | `Execute`, with `Handle(Callback(..))` |
| 670–689: error, complete, end of stream | `ReadOn`, `CloseClient` |
| 73–119 `processHeader`, 438–523 callbacks | `HeaderMem`, `HeadersNow`, `Accumulate`, `on_data`, `on_header_field` |
| 86–97: the key, `SET_VALUE` | `Key`, `Env` |
| 428–436, 525–550 | `on_message_begin`, `on_headers_complete`, `on_message_complete` |
| `dispatch`, `handlerWrapper` | `dispatch`, `AppCall`, `App`, `Send`, `SendThrows`, `Responded` |

`mem` is the buffer by offset: a byte is the cell a client sent (as
⟨client, place⟩), a NUL or junk. Every text given to the application is
read back from `mem` the way `JS_str_utf8` does (up to a NUL, ignoring the
length), so bytes of another request or a NUL in the wrong place would show. The
body is copied from `mem` too, after the NULs behind the last header, the path
and the query were written: one that fell into it would show.
`headers` is the list of what was put into `data->env`, in its order; the
application gets `Env` of it, where a header has overwritten those of the same
key before it. A cell of a name is its letter in that key (upper case, `_` for
`-`). The application is one action with any result of `Results`; sending is one
action for each piece, so clients may go away between two of them, or keep
`send` waiting, which has no timeout.

Left out: `SERVER_NAME` and `SERVER_PORT`, cut out of the Host header; the text
of env keys, status lines and method names; a `send` that takes only a part of a
piece; the listener staying open after a throw other than as `listening`.

### Message, Jsgi, JillServer, JillInductive

`Message` says, without a parser, which cells of a stream are the first
request's path, query, headers and body. `Jsgi` is the promise to the clients
and the application. `JillServer` states the properties below and maps Jill's
state to Jsgi's. `JillInductive` states the inductive
invariants `IInv`, `RInv` and `HeadInv`.

### HttpStream

The parser alone, fed a stream in pieces of any size and then told that it
ended; `heard` is what the callbacks said: two calls in a row for the same
field, or the body, are one text, and a notification is one each time. It
exercises keep-alive, chunks, bodies that end with the connection and refused
input, where Jill would have closed the connection.

### Descriptors, Processes

| in the code | in the model |
|---|---|
| `OS_popenImpl` 122–128: three `pipe()` calls, each of which may fail | `Pipes`, `PipeFails` |
| 130: `fork()` | `Fork`, `ForkFails` (–1 is taken for a child's pid) |
| 133–153 in the child | `Exec`, with `ChildTable` |
| 165–173 in the parent | `CloseOtherEnds` |
| 175–199, `os-engine.js` 12–31: the objects | `Wrap` |
| `IO_readInto`, also the `read()` of a text stream | `BeginRead`, `Read` |
| `IO_writeInto` | `BeginWrite`, `Write`, `WriteKills` (SIGPIPE) |
| `IO_close`, `IO_finalize` | `Close`, `FinalizeIO` |
| `Popen_wait`, `Popen_finalize` | `BeginWait`, `Wait`, `WaitFails`, `FinalizePopen` |

A descriptor is open on an end of a pipe, which is named after the child and
stream it was made for, or on a standard stream of the script. `table` gives
each process its descriptors; `fork` copies the script's, so that a child holds
what earlier popens left open there, and a pipe ends only when nobody holds its
write end. Numbers are handed out lowest first and so are reused at once. The
steps of the child up to `execv()` are one action: nobody else sees its table,
and what it holds before that action is still counted. The script is one thread:
in a blocking call it does nothing else, and the collector runs only between
calls and while `popenImpl` makes its objects. A script may do anything in any
order but read a text stream that it has closed. Children are numbered by the
order of their popens.

A command is any program: it writes to 1 and 2, reads 0, and exits when it
likes. A pid may be used again once its process was reaped.

Left out: failing `close()` and `execv()`, stopped children, signals other than
SIGPIPE, a raw `write()` of many bytes at once, the finalizer of text streams
(it closes no descriptor), `system`, `sleep`, `exit`.

### Channels, ProcessProps

`Channels` knows no descriptors: each child has three channels that hand on
every byte once and in order, of limited size, and tell the reader of the end
only when the writer is through and everything has been read. `ProcessProps`
maps the contents, the counts of bytes written, the running children and the
closed inputs of `Processes` to it.

### Files

Each of `Procs` makes one call, in a process of its own: a script is one thread,
so what races with it is other processes. Every system call is a step. `tree`
says what is at each path, `data` what is in each file, by who wrote it.

| in the code | in the model |
|---|---|
| `mkdir`, `rmdir`, `remove`, `rename` | one action each; fails as the system call does |
| `mkdirs` of `file-engine.js` | `mkdirs` (is it a directory?) and `mkdirsMake`, for each component |
| `FILE_FileIO` 300–358: the flags | `Creates`, `Truncates`, `Writes`, `Allowed`, `FileIO` |
| the `IO` it returns | `writeInto`, `readInto`, byte by byte |
| `touch`, which looks, writes "" and then stamps | `touch`, `touchWrite`, `touchImpl` |
| `ReadFile()` of `narwhal.c`: opens, takes the size, reads | `ReadFile`, `ftell`, `fread` |

`last`, `removed`, `known`, `anew` and `emptied` are histories that the properties
need: who made something last, what was removed, which files there were when a
`touch` looked, which files an `open` was to write from their beginning, and
which `touch` has emptied which file. A
mode is a set of letters; `{"r", "w", "a"}` gives `O_RDWR | O_WRONLY`, which can
neither be read nor written, and `+` is refused. Left out: permissions, links
and their loops, errors of the disk.

### Iconv, TextStream, Transcode, ByteIO, Decoding

A text is a sequence of *kinds* of character, which differ in how many bytes
and UTF-16 units they take, or are no character (`bad`) or the beginning of one
(`cut`). A byte or unit is ⟨character, piece⟩, so that loss, repetition and
reordering show, and `Convert` is one call of `iconv()`: it stops at the end of
its input, amid a character, without room, or at what is illegal, unless the
target says `//IGNORE` (`discards`).

* `TextStream`: the loop of `TextInputStream`'s `read` (io-engine.cc 198–276),
  as `Top`, `Fill`, `ConvertBuffer`, and over it `readLine`, `readLines`,
  `forEach`, `copy` of `io-engine.js`. `read(2)` may fail at any time, which the
  loop takes for the end (`failed` notes it); what a conversion error throws
  leaves every call but `forEach`, which takes it for the end of the lines.
  `inBuffer` has 4 bytes, not 1024, and the first `outBuffer` 2 units, not 512.
* `Transcode`: `transcode()` of binary-engine.cc, a turn of its loop a step.
* `ByteIO`: the list of `ByteString`s, each an extent of an array that may be
  larger and shared; `B_ALLOC` may fail, `B_COPY` checks its bounds.
  `ByteFifo` is a queue of bytes.
* `Decoding`: one script with a text stream, a text output stream and a
  `ByteIO`. Being one thread, it is in one call at a time (`turn`).

### HttpClient

`open` has started curl; `read()`, `read(n)` and `copy()` first close curl's
input and read its log from stderr line by line (`StartLog`, `ReadLog`), then
the body from stdout (`ReadBody`), and `read()` asks for curl's exit status if
it got nothing (`Wait`). A "byte" of the channel `err` is a line of the log,
since nothing depends on how lines are cut into bytes but how many fit. A *plan*
is what curl logs and writes, in order, and its exit status; a signal may end
curl before it is through with it (`CurlKilled`, or SIGPIPE when the client has
closed its end), and `wait()` is `null` then. `headers` has for each name the
line of the log its value is from, 0 if none: a further header of the name
overwrites it. Left out: the read ahead of the text stream around stderr, which
makes room in the pipe for more of the log than the model grants, and the
command line.

## 4. The runs

| run | what it asks | instance | distinct states |
|---|---|---|---|
| `jill_one` | `TypeOK`, `RecvHasRoom`, `TerminatorsSafe`, `HeadAsSent`, `EntireBody`, `IInv`, `RInv`, `HeadInv`, `ImplementsJsgi` | one client, seven streams, every kind of application | 35 811 |
| `jill_two` | `HeadAsSent`, `ImplementsJsgi`, `EveryClientServed` over a shared buffer | two clients, backlog 1 | 266 726 |
| `http_stream` | `ParserTypeOK`, `StaysWithinData`, `InterruptedAnywhere`, `MessagesInTurn` | thirteen streams | 3 503 |
| `popen` | `OneOwner`, `ChildWired`, `OwnStatus` | two children, descriptors 0–10 | 1 020 696 |
| `popen_data` | `TypeOK`, `ImplementsChannels` | two children, up to two bytes | 646 589 |
| `popen_live` | `InputsEnd`, `OutputsEnd` | two children | 64 765 |
| `files` | `TypeOK`, `SomeoneFinishes`, `MadeIsThere`, `AppendKept`, `ReadPrefix`, `CallsEnd` | any three of sixteen calls, three paths | 424 145 |
| `text` | `DecodingTypeOK`, `NothingLost`, `EndMeansEnd`, `LinesWhole`, `RoundTrip`, `ImplementsFifo`, `CallsReturn` | texts of up to five characters of six kinds | 623 253 |
| `http_client` | `ClientTypeOK`, `ResponseKnown`, `FailureTold`, `ReadReturns` | a redirect or less, a response, a log behind it, two names of headers | 239 018 |
| `jill_chunked` | violation of `EntireBody` | one chunked request | – |
| `jill_empty_value` | violation of `HeadAsSent` | a header with an empty value | – |
| `popen_std` | violation of `ChildWired` | a script that closed its stdin and stdout | – |

**Jill.**
* `HeadAsSent`: what the application sees as path and query is what the client
  sent, and its headers are, for each name, the last the client sent under it,
  and no others (that those before it are lost is what `SET_VALUE` does).
  `EntireBody`: the body is what the client sent.
* `RecvHasRoom`: `recv` always has room, so that its 0 means the end of the
  stream. `TerminatorsSafe`: no NUL is written over unparsed input or outside
  the buffer.
* `ImplementsJsgi`: Jill implements `Jsgi` under the refinement mapping.
* `EveryClientServed`: a queued connection is closed in the end, unless
  `JILL_run` has thrown, if clients do not keep `recv` or `send` waiting for ever
  and applications return.
* `InterruptedAnywhere`, `MessagesInTurn`, `StaysWithinData`: cutting the stream
  differently changes nothing of what the callbacks say, no message overlaps
  another, nothing outside the data given is read.

**Processes.**
* `OneOwner`: between two calls every descriptor of the script is held by
  exactly the object it was made for, but for the pipes of a popen that threw.
  `ChildWired`: a command starts with its own pipes as 0, 1, 2 and with no
  other end of them.
* `OwnStatus`: the first `wait()` returns the status of the object's own child,
  unless a pid was used again or a fork failed.
* `ImplementsChannels`: popen implements `Channels`.
* `InputsEnd`: once the inputs of all running children are closed, each of them
  ends. `OutputsEnd`: a read from a child that has ended returns.

**Files.**
* `SomeoneFinishes`: of calls that race to make directories, the one that made
  something last does not fail unless something was removed; if nobody made
  anything, `mkdirs` fails only where a file is in the way.
* `MadeIsThere`: what a `mkdirs()` or `touch()` that returned was asked for is
  there, or someone removed it.
* `AppendKept`: what was appended to a file that nobody opened to write it anew
  stays, in order, whatever others append, rename or remove: all of it, unless a
  `touch()` emptied the file that could not have seen it, because the file was
  made, or moved to the path, after `touch()` had looked; then what was written
  last, from some byte to the end. A `touch()` that looks when the file is there
  empties nothing. `ReadPrefix`: a read gives a beginning of the file, and at
  least what was there when it was opened (or measured), with the same exceptions.
* `CallsEnd`: every call ends, but a `ReadFile()` whose file became shorter after
  its size was taken: its loop then goes round for ever.

**Text and bytes.**
* `NothingLost`: what was returned, what is being returned and what is ahead are
  the text, however it is cut. `EndMeansEnd`: a call that says the text has
  ended is right. `LinesWhole`: each line is one line. Both but for a call in
  which `read(2)` failed, which nothing tells from the end (io-engine.cc:232–234).
* `RoundTrip`: what `decodeToString()` returns is what was written, through iconv
  twice and the `ByteIO` between.
* `ImplementsFifo`: a `ByteIO` is a queue of bytes.
* `CallsReturn`: every call returns but in two cases that the property names,
  where `iconv()` can make no progress and the loop around it does not notice
  (io-engine.cc:246, binary-engine.cc:196).

**The client.**
* `ResponseKnown`: the request has the status of the last response and, under
  each name, the last of its headers of that name (those before it, as of
  several `Set-Cookie`, are lost) and no others, if no "100 Continue" came before
  (its status stays) and nothing stands between them: the first line that is no
  header with a value ends the reading.
* `FailureTold`: a first `read()` that says the body has ended is right, unless a
  signal ended curl: `wait()` is `null` then, which is not above 0, and nobody is
  told (http-client-engine.js:75, os-engine.cc:104–112).
* `ReadReturns`: a call returns if what curl logs after the headers, and what it
  writes before, fit into their pipes.

**Bounds of Jill's runs.** A buffer of 4 (3) cells is smaller than every stream
but the shortest, so it is enlarged once or twice, exactly when full and with
every alignment of the cut to the fields. Names and values of two cells are the
shortest that can be interrupted inside; two headers are the fewest where one
is pending when the next begins, and three where one of another name stands
between two of the same. A second client is enough for stale content
and a queue of one for a refused connection. `MaxFieldSize = 8` is never
reached in Jill's runs; `http_stream` has 5, a name that exceeds it and a URI that
does although its path and query do not, and `MaxLength = 9` with a length of
three digits.

**Bounds of the popen runs.** With two children each inherits, or does not
inherit, what the other left. Two popens need descriptors up to 11: `popen` has
one less, so the last pipe fails unless something was closed before. Pipes hold
one byte, so that every second write finds them full, and a read asks for two.
Two pids are enough for one to be used again.

**Bounds of `files`.** Any three of sixteen calls, from an empty tree or one
file. A third call is what it takes to undo, between two steps of the first,
what the second has just done. A path of two names is the shortest where
`mkdirs` has more than one to make. A writer writes two bytes, so that another
may come between. A file that was made and filled while a `touch()` looked, and
one that `rename()` moved there, are among them.

**Bounds of `text`.** The buffers are smaller than the texts: every text of up
to two characters of any kind in pieces of every size, and longer ones that fill
`inBuffer` twice with a line end in the middle. The widest character has as many
bytes as `inBuffer` and as many units as `outBuffer`. A `ByteIO` holds up to
three `ByteString`s, and reads end before, at and behind the end of each.

**Bounds of `http_client`.** A pipe holds two items, and a body or log up to
three, so both fit or do not. One redirect, information or "100 Continue" may
come before the response, and one response has a header twice, with another
between.

**Fairness of Jill.** `FairSpec` assumes that the server thread runs when it can
and that applications return (weak fairness of `Server`), that a client sends
what it has to send, that one that has sent everything and has no whole request
hangs up in the end, and that one for which an answer has come reads it. The last
two are needed: neither the `recv` of jill.cc:661 (`FIXME: timeout`) nor a `send`
(157, 317–329, 343–381) has a timeout, so the code itself never gives up on a
client, and one that sends a whole request and then does not read stalls the
server for all others.

**Fairness of Processes.** A read returns when the kernel lets it, and a child
reads its input and exits when it has seen its end, as `cat`, `sort` or `curl
--data-binary @-` do; of other commands nothing is promised. Nothing is assumed
of what the script does next.

**Fairness of the others.** In `Files` every process that can go on does: the
operating system schedules them. In `Decoding` a call that can go on does: the
script is one thread, and its descriptor always gives something, its end or an
error, as a file does. In `HttpClient` so do a call of the script and curl; that
a signal ends curl is not assumed.

**Deadlock** is not checked: the server rests in `accept` when all clients are
gone, or has thrown; a script may be killed by SIGPIPE, or wait for a child that
does not end; calls on files are over some time; curl may block on a pipe that
nobody reads (which `ReadReturns` is about).

## 5. Findings

* `jill_chunked`: jill.cc:9 says that Jill "Buffers entire request body before
  dispatching". `on_headers_complete` dispatches every request that has no
  Content-Length, and a chunked one has none; its body is never passed on.
* `jill_empty_value`: a header is pending only when its value has a length, so
  after an empty value the next name is appended to the name before it. The
  parser's README (117–118) says what to do instead.
* `popen_std`: the child closes 0, 1 and 2 before it duplicates its pipe ends. A
  script that has closed two of its standard streams has pipe ends with these
  numbers, and the command starts without its stdout, although the next line
  (os-engine.cc:145) says that the correct ends are set. `EachChildIsWired` shows
  that a script that closes at most one is safe.

What else was met has no line of the repository that says otherwise, and is in
the exceptions that the properties name:

* a `touch()` that looked before a file was there empties it, with what others
  have appended (`AppendKept`, `ReadPrefix`);
* `ReadFile()` on a file that shrinks does not end (`CallsEnd`);
* a `read(2)` that fails is taken for the end of the text (`EndMeansEnd`,
  `LinesWhole`);
* `read(n)` with room for half of the next character and `transcode()` of a text
  that ends amid one do not end (`CallsReturn`);
* of several headers of one name only the last is kept, by Jill (`HeadAsSent`)
  and by the client (`ResponseKnown`);
* a log or body that overflows a pipe blocks the client (`ReadReturns`);
* a status of "100" stays, and an empty-valued header, or another line of the log,
  amid the headers of a response ends them (`ResponseKnown`);
* nobody is told that a signal ended curl (`FailureTold`), and `copy()` never asks
  how it ended;
* the pipes of a `popen` that threw stay open (`OneOwner`), and after a failed
  `fork()`, a pid that was used again or a second `wait()` the status is anybody's
  (`OwnStatus`).

## 6. The proofs

Nothing is assumed but the `ASSUME`s of the modules, which TLC checks for each
instance.

### Jill

`JillProofs` proves, for all sets of clients, all streams, buffer sizes, limits
and applications allowed by the assumptions

* `ParserAssumption`: the two limits are natural numbers,
* `SocketsAssumption`: streams are sequences of cells, the backlog is positive,
* `JillAssumption`: the buffer is not empty at first, `NoClient` is no client,

the theorems `Inductive` (`Spec => []IInv`), `TypesCorrect` (`[]TypeOK`),
`AlwaysRoom` (`[]RecvHasRoom`) and `TerminatorsAreSafe` (`[]TerminatorsSafe`).

`TerminatorsSafe` is not inductive, and neither is `TypeOK`: its conjunct that
every header is a text of bytes needs the NUL that `CString` looks for. `IInv`
adds

* `ParserInv` (of `HttpParser`; kept by every parser step, which
  `HttpParserProofs` shows once): a mark is behind the cursor, and steps that
  are not the machine's happen between fields;
* `LoopInv`: the loop of `JILL_run` and the parser agree on offsets, and no
  more was received than was sent;
* `MemInv`: a byte that is not NUL or junk is a cell of a client's stream;
* `ExtentInv`: what Jill has noted of a field ends at the mark while the
  machine is inside it, at the cursor when it was interrupted, and *strictly*
  behind the cursor once it has ended. The last is what makes the NUL safe: the
  delimiter that ended the field has been read;
* `NameInv`: no value is noted without its name.

The lemmas follow the code: `WriteNul`, `CStringText`, `HeaderText`,
`DispatchText` for the texts, `FieldNoted`, `BodyNoted`, `NameNoted`,
`Forgotten`, `Dispatched` for the callbacks, then one lemma per action and
`NextIInv` over the disjuncts of `Next`.

`InTurn` (`[](IInv /\ RInv)`), `JillImplementsJsgi` (`ImplementsJsgi`) and
`BodyIsEntire` (`[]EntireBody`) need to know where in its client's *stream* the
server stands, which `IInv` does not say. `RInv` does:

* `ConnInv`: the one open connection is the one served, those in the queue are
  different and not open yet;
* `AnswerInv`: `complete` tells whether the application was called, and what was
  sent with what is planned is one response;
* `PositionInv`: unread bytes lie in the buffer as they were received, and the
  parser has read everything when `recv` is called;
* `FirstInv`: until the application is called, the parser is either in the
  headers of the first request (`InHeaders`), with the content length that
  `Message` spells out of the digits up to there, or in its body (`InBody`),
  with as much left as `Message` says, and what was read of it lies in one piece
  where Jill noted it, behind everything noted of the head (`BodyRead`): the body
  is copied after the NULs behind path, query and last header were written, and
  `CutBefore` shows that each of them falls before it.

`Spelled` of `Message` is a recursive function; `SpelledStep` unfolds it for one
cell, and nothing else of it is used. Both theorems assume that no request is
chunked. That is the finding `jill_chunked`: `on_headers_complete` dispatches a
chunked request before its body, so that without the assumption they are false.
`BodyIsEntire` also assumes `BodyDeclared`: of a message that is complete, the
cells behind the headers up to its declared length are its body. `JillMC` states
both of the requests of `jill_one` and `jill_two` as an `ASSUME`. `jill_one`
checks `IInv` and `RInv` with TLC.

`JillHeadProofs` proves `HeadIsNoted` (`[]HeadInv`) and, from it, `HeadIsAsSent`
(`[]HeadAsSent`). A text of the head reaches the application in many steps:
callbacks lengthen an extent, the next name or the end of the headers cuts it
out of the buffer, which may have moved, and both look at what the callbacks
before them left. `HeadInv` says at every one of these steps that

* the first `HeadRead` cells walk through the grammar, and the machine is in the
  state the last of them says (`Walk`, `AmidHead`, `BehindHead`);
* no terminator has hit a cell of a text (`Intact`);
* of the first `HeadNoted` cells, those passed on, path and query are noted
  exactly (`Extended`), the headers that are over are in `env`, in their order
  and each with its value (`HeadersKept`), and the last one is being named
  (`InName`) or waits to be put there (`Waiting`).

The number of a header is the number of colons up to it, so that what was put
into `env`, one after the other, and what `Message` reads off the stream are
compared by counting (`Cardinality`). What is left in `env` is a question of
keys then: `KeyOfRow` shows that the key of a put is the name the client sent,
`ColonOfPut` that every put has its colon, and `HeadersSent` that the puts
nobody overwrote are the headers whose name does not come again (`Stands`).
`HeadIsNoted` and `HeadIsAsSent` hold for any set of clients, any buffer, any
cut and any applications. `HeadIsAsSent` assumes `EachValued`: no header of a
request has an empty value. That is the finding `jill_empty_value`; requests
that break the grammar need no hypothesis, since the application is never called
for them. `JillMC` states `EachValued` of the requests of `jill_one` and
`jill_two` as an `ASSUME`, and `jill_one` checks `HeadInv` with TLC.

### HttpStream

`HttpStreamProofs` proves `ParserTypeOK`, `StaysWithinData` and `MessagesInTurn`
for any streams, valid or not, any limits and any cuts. `MessagesInTurn` speaks of
what was said; `TurnInv` ties the last thing said to the machine: in a state
amid the headers it is a field or the beginning of a message, amid the chunks or
while a body is eaten it is the end of the headers or a piece of the body, and
behind a message its end. One lemma for each kind of callback (`SaysField`,
`SaysBody`, `SaysEnd`, `SaysAdvance`) shows that what is said next may follow.

`InterruptedAnywhere` compares all that was said with the whole stream.
`PassInv`, which is inductive with the invariants above (`PassConsistent`), says
it of what has been read so far, as long as nothing was refused: the places
passed on under a name are the cells of its kinds up to `Passed`, the mark or the
cursor, but for those passed on as a body; what lies between mark and cursor
is of the field that is being read; and as many beginnings and ends of headers
were announced as were read. `StepReadsOn` says in one place what any step of the
parser does to the cell under the cursor (it is passed on, waits, or is of no
data) and `PassedStep`, `CountStep` and `HearInOrder` follow from that alone.

`NoCellLost` is the result for any stream whose end was reported without an
error: each cell of a field once, in order and under its own name, every cell of
a body, every message. What it cannot say of any stream is where bodies are: the
lengths in the headers decide, and a length that is too great makes the next
message a part of the body. `InterruptedWithoutLoss` therefore proves
`InterruptedAnywhere` for a stream that is `Framed`: what was passed on as a body is
cells of a body, and the last message was completed. In `http_stream` every
stream that is not refused is framed, which the run shows too, since
`InterruptedAnywhere` implies it there.

### Processes

`ProcessProofs` proves `TypeOK`, `OneOwner`, `OwnStatus` and, for a script that
closes at most one of its own streams, `ChildWired`, for any number of children,
descriptors, pids and bytes (`DescriptorsAssumption`, `ProcessesAssumption`).
It proves from them, under the same hypothesis, that `Processes` implements
`Channels` (`PopenImplementsChannels`); `popen_data` is such a script, and for one
that closes two
the hypothesis is what `popen_std` refutes.

`OneOwner` speaks of the moments between two calls only, and of descriptors
that have an owner. `ProcessInv` extends it to the calls: `CallInv` says what a
call is about, `ObjectInv` which objects and pipes exist at which line of
`popenImpl`, and `TableInv` that each end of a pipe is in the script's table at
the one place `Home` gives for it, or nowhere. Since a number that was closed is
given out again, it is this "nowhere" that keeps an old object from closing a new
descriptor.

`ChildWired` needs two more. `ForkInv`: until it comes to `execv()` a child has
both ends of its own pipes, each once, and the three it is to keep are above 2;
`ExecWires` then follows the nine `close()` and three `dup2()`. `LowInv(own)`:
why they are above 2. If only `own` may be closed, at most one of 0, 1 and 2 is
free when `pipe()` is called first, and it goes to the read end of the child's
output, which the child closes. With two of them free the write end would be
there as well: that is the finding of `popen_std`.

`OwnStatus` is about an answer; `StatusInv` is about the child too. One that was
reaped has told its own object, or the object is gone, or another object
stands for the same pid (`Alike`). Both ways in which a pid is no one child's
are exceptions of the property: a pid that was used again, and the –1 of a failed
`fork()`, for which `wait()` takes any child.

`ImplementsChannels` needs, besides all of these, `DataInv`: a pipe holds, in
order, the bytes written and not yet read, and who was told the end of a child's
output had read everything. The two sides meet in `FromIs` and `OutputOpen`: the
number the script reads from is the read end of that child's pipe, whoever else
has had this number before, and a child that has not ended has the write end of
its output, so that nobody is told the end too early. Then there is one lemma for
each action of `Channels` (`StartStep`, `WriteStep`, `ReadStep`, `TellStep`,
`EndStep`), and `QuietStep` for what moves descriptors only.

### Files

`FilesProofs` proves `TypeOK`, `SomeoneFinishes`, `MadeIsThere`, `AppendKept`
and `ReadPrefix` for any number of processes, paths and calls
(`FilesAssumption`: the paths contain their beginnings). `FInv` adds that files
are numbered in order (`Numbered`), which steps belong to which call
(`ControlOf`), that what `mkdirs` has passed is a directory or was removed
(`PassedOf`), that there is nothing below nothing (`Closed`), and, the heart of
it, `LeadOf`: below what the last maker has passed there is nothing, so that
nothing is in its way.

For the bytes, `DInv` adds that a file nobody opened to write it anew holds those
of its appenders in the order they were written in, each from the first that is
left to the last written, and from the very first if no `touch()` has emptied it
(`BytesOf`), and that a reader of one nobody has cut short has a beginning of it
(`ReadsOf`). What opens a file otherwise than to append is in `anew` or is a
`touch()` (`OpensOf`), and `Noted` says which files a `touch()` can have emptied:
at the path it looked at there was nothing (`TouchOf`), so the file was made
later or moved there by a `rename()`, which is `TouchRaced`, the exception that
`AppendKept` names.

### ByteIO and text

`DecodingProofs` proves that a `ByteIO` implements `ByteFifo`, initial states and
every step, for any pieces, sizes and shared arrays. `ByteInv` says that the
length is what was written less what was taken and copied, that the list holds
exactly the bytes in between (`Lies`: there are cuts of that range, one for each
`ByteString`), and that a read in progress has copied the bytes that follow the
last taken (`ReadInv`).

It also proves `DecodingTypeOK`, `NothingLost`, `EndMeansEnd`, `LinesWhole` and
`RoundTrip`, for any text, any buffers and any way a descriptor cuts the text.
What is assumed is that the input buffer holds a character and the output buffer
a unit (`TextStreamAssumption`; in the code both have 1024 bytes), and that a
text is a sequence of kinds with half a character nowhere but at its end
(`DecodingAssumption`).

First come lemmas about `iconv()` alone. `Convert` is a recursive function on the
pieces of a text; `ConvertStep` shows that the function exists, by taking a
shortest text on which it would not, and every lemma behind it goes the same way
(`LeastNumber`, `ShortestOne`), since an induction theorem with an operator as its
parameter cannot be used. They are

* `ConvertTypes`: a call writes and leaves pieces, within its room, what it
  leaves is the end of what it had, and it stopped for the reason it gives;
* `ConvertSplit`, which everything rests on: a text may be cut anywhere. What a
  call leaves, joined with what follows, becomes what the whole would have
  become, but after an error;
* `RoomEnough`, `ConvertAgrees`: twice as many units as bytes are room enough, and
  a call that meets no error does the same with and without `//IGNORE`;
* `FaithfulTurn`: what a call of the encoding has written decodes to what it took.

`StreamInv` then says of a stream, besides the three properties, what its parts
are: `BufferOK`, `inBuffer` is the end of what was fetched; `CallOK`, why `Fill` is
entered (`MustFill`) and what the last errno tells of `inBuffer`, so that a
`Fill` that gets nothing means that there is nothing ahead (`NothingAhead`);
`LineInv`, a line in progress has no newline, and one that is over has it last or
nothing is ahead. The last is why `LinesWhole` is not inductive alone.

`DecodingInv` adds the script: which call may run for which writer (`Ways`), that
the bytes in the `ByteIO` decode to the units that were written (`Kept`), that the
same holds of the part of a string `transcode()` is done with (`SendInv`), that
what it decoded with what is left makes what is there (`DecodeInv`), and that
`copy()` has written what was delivered to it but for its line (`CopyInv`).

### HttpClient

`HttpClientProofs` proves `ClientTypeOK`, `FailureTold` and `ResponseKnown` for any
transfers, pipes and chunks. About curl it assumes what `HttpClientAssumption`
says (`LogsResponses`: no status line follows that of the last response).
`ChannelInv` is what the proof needs of `Channels`: no more was read than written,
and the end of the log was told only when all of it was read. `LogInv` says what
the client knows at each phase of the reading: before a status, that no line so
far was a success; then, the status and the headers right behind it, and, once it
has left the log, why. `WaitInv` is about the one call whose answer is curl's exit
status.

`ResponseKnown` compares with the whole plan, of which the client has seen lines
by number. That is counting: `LineAtIs` and `LineAtNumber` relate the number of a
line to its place in the plan, `LinesInOrder` keeps the order, `OneAnswer` says
that there is one line that can be the answer, and `HeadersAre` that the lines
behind it are its headers. Of those with one name the last one's line is what
`headers` has (`HeadFrom`).

`FailureTold` and `ResponseKnown` speak of the whole plan, so that `PlanInv` says
how much of it curl has carried out: all of it when it has ended, unless a signal
ended it.

### Only model-checked

* Liveness: `EveryClientServed`, `InputsEnd`, `OutputsEnd`, `CallsEnd`,
  `CallsReturn`, `ReadReturns`. Fairness is outside what the prover does.
* That a `ByteIO` is a queue while a script uses it as `Decoding` says. The theorem
  is about `ByteSpec`, where any call may come at any time, with pieces of at most
  `MaxBytes`; a string of `Decoding` may be longer than this bound of the model.
* That the streams of `http_stream` are `Framed`: what the lengths in a stream
  cover is arithmetic on its digits from the first message on, and stays with TLC.

## 7. Not modelled

* **Contexts, the loader.** Every native library keeps one set of globals
  (`NARWHAL_MODULE`, narwhal.h:315) and a second context overwrites those of the
  first. What that means depends on contexts of JavaScriptCore and on the module
  loader of `narwhal.js`, and neither is in the repository.
* **Start-up** (narwhal.c, narwhal-jsc.c, bootstrap.js): finds two directories
  and evaluates a script, once, in a straight line. Of it `ReadFile()` is
  modelled.
* **The rest of the file engine**: links, `chmod`, `chown`, `list`, `stat`,
  `canonical`, which are one system call each that nothing else builds on.
  `size()` and `mtime()` use what `stat()` gave without asking whether it failed.
* **The rest of the binary engine**: `B_GET`, `B_SET`, `B_FILL`, single accesses
  with a check of their bounds.
* **The rest of the io and os engines**: `writeLines()` and `print()`, which are
  several writes; `sleep`, `system`, `exit`; a `write()` or `send()` that takes
  only a part; an `execv()` that fails, after which the child goes on as a
  second copy of the script; a text stream that is read after its raw stream
  was closed.
* **JavaScript exceptions and memory of the engine**: out of memory in Jill
  leaves two sockets open, since `close()` stands behind `THROW`.
* readline (one library call), `system.js` (declarations), `NWDebug.m` (needs a
  framework that is not here), the build scripts, and libedit (vendored and
  unchanged).
