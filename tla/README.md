# A TLA+ model of SimpleServ

SimpleServ is a small multi-threaded web server: an HTTP and an HTTPS server,
each with an accept loop and a pool of four worker threads, serve the files
below `../webdir`. This directory holds TLA+ modules translated from the code,
the TLC runs that check them on small instances, and TLAPS proofs that hold for
every instance. `PROJECT.json` lists components, runs, mutants, the map from
definitions to source lines, findings, hazards and theorems.

    tlc -workers 2 -config TCPServer.cfg MCTCPServer     # a run
    tlapm TCPServerProofs.tla                            # the proofs about it

## 1. Inventory

| Component (source) | State | Operations | Talks to |
|---|---|---|---|
| `LockFreeQueue` (`utility/lock_free_queue.hpp`) | `arr_`, atomics `head_`, `tail_`, `size_`, table `next_arr` | `push`, `pop`, `full`, `empty`, `next` | one producer (accept loop), four consumers (workers) |
| `Threadpool`, `ThreadpoolConnectionHandler` (`request_processing/`) | the queue, threads, handlers | constructor starts the threads, `add_task`, worker loop `Start`, `handle_connection` | queue, HTTP handler, sender and closer |
| `TCPSender`, `TCPCloser` | none; descriptors are the kernel's | `SendMsg`, `CloseConnection` | kernel |
| `TCPServer` (`server/tcp_server.hpp`) | `sockfd`, `client_fd`, the pool; `errno` of its thread | `Start`, `Open`/`AcceptIncoming`, `Stop`, destructor | kernel, pool, stop token |
| `TLSServer`, `TLSSender`, `TLSCloser` | the same and `ctx`, `ssl` | the same with handshake, `WANT_READ`/`WANT_WRITE` retries | wolfSSL, kernel, pool |
| `ServerManager`, `main` | servers, `jthread`s | constructor (Start, Open), destructor (request_stop, join, Stop), signal handler | servers |
| `HTTPHandler` | the static `file_manager` (one copy per translation unit) | `handle`, `prepare_response` | parser, file manager |
| parser, messages, `StringParser` | a view into the request | `parse_http_request`, `parse_message_headers`, `to_string` | HTTP handler |
| request handlers, status codes | none | method to result, result to status | not yet used by the handler |
| `FileManager`, fetchers, `Brotli` | `file_descriptors`, `file_cache`, files on disk | `construct_file_descriptors`, `generate_encoded_files`, `get_file`, `encode` | disk, workers of both pools |
| `expected` (`utility/expected.hpp`) | storage shared by value and error, `m_has_val` | constructors, assignments, `emplace`, `swap`, destructor | the parser's result type |
| `URL`, `Cache`, `headers.hpp`, `logger.hpp`, `debug_flags.hpp`, ASIO stub | - | unused string functions, ill-formed and unused, declarations, terminal output, uncompiled stub | not modelled |

What makes the system hard:

* **Concurrency.** Accept loop and workers share the ring without locks; `pop`
  gives a slot back before it has moved the element out; `push` never asks
  whether the ring is full; `size_` is updated later than the cursors.
* **Descriptor numbers.** A number a worker closes is handed out again at once
  by the next `accept4`. Whoever keeps a number after closing it reaches another
  client. `Stop` keeps one: `client_fd`.
* **Errors.** The accept loop looks at `errno` after a call that succeeded,
  gives up for good when one `recv` fails, and spins on a silent client. An
  exception in a worker or a `SIGPIPE` in `send` concerns the whole process.
* **Shutdown** goes through `~ServerManager`, run by a signal handler on any
  thread, and destroys a pool whose threads are never joined.
* **Exceptions** between the end of one object's life and the beginning of the
  next, in `expected`; misuse of `string_view` in the parser, which a normal
  build does not notice.
* **Files.** The cache is shared by eight workers, its mutex is never locked,
  and the copy of `file_manager` that `main` fills is not the one that is asked.

What makes each part correct: the queue loses, doubles and damages nothing and
is FIFO; a descriptor has one owner and a response reaches the client that
asked; every accepted connection is closed in the end; every client is served;
a shutdown completes; the parser accepts the grammar of its tests and rejects
the rest without running past the end; a file is served with its own type,
encoding and whole content. The hazards in `PROJECT.json` give the line each of
these can break at.

## 2. Modules

`TaskQueue` is the promise: tasks leave in the order they came, each goes to one
worker, and the worker gets that very task.

`LockFreeQueue` is the ring, one step per atomic operation or slot access:
`PushBegin`/`PushWrite` (the assignment to the slot, which takes time),
`PushStore`, `PushCount`; `PopLoad`, `PopCheck`, `PopClaim`, `PopLose` (the weak
compare-and-exchange fails, perhaps spuriously), `PopMove`, `PopCount`. The two
overloads of `push` differ only in moving or copying the argument. Elements are
numbered in push order. A slot being assigned reads as `Torn`; a slot moved from
keeps its number and loses `whole` (the string is gone, the descriptor is not).
`size_` is an integer modulo `SizeModulus`. `published`, `returned` and `laps`
are history, and so is `forced` (a push began while `full()` was `TRUE`). `laps`
records the three ways the producer can run into slots in
use: `"full"` (tail catches up with head), `"stale"` (it passes a head some
consumer has checked and not yet claimed), `"inuse"` (it writes to a slot whose
element is claimed and not yet moved). The code prevents none of them.

`TCPServer` is one server: `Start`; `AcceptIncoming` as `AcceptStop`,
`AcceptEmpty`, `AcceptFull`, `AcceptAborted`, `AcceptOk`, `RecvAgain`,
`RecvDone`, `RecvFails`; a worker as `Take`, `Respond`/`Refuse`/`Crash` (the
three ways `HTTPHandler::handle` can end), `SendMsg`/`SendBroken`,
`CloseConnection`; the shutdown as `RequestStop`, `Stop`, `Destroy` (the second
`Stop`, inside `~TCPServer`) and `Terminate` (the pool's threads were never
joined), with workers at work between them. The kernel is external: a table of
descriptors with the lowest free one allocated, a backlog, and per connection the
bytes not yet read. A `client` is one connection, and `recv` takes all that has
arrived. Bytes that arrive after the only `recv` of a connection are never read by the code and are left out. A message is whole, malformed or cut off; what
the parser makes of a cut one depends on where it was cut and is a choice. The
stop check and the `accept4` after it are one step: a stop requested between
them is the same as one requested just after. The pool's queue is a FIFO: with
fewer connections than slots (`ServerAssumption`) the ring laps nothing
(`NoLapBelowCapacity`) and then implements the FIFO (`HandOff`); both are proved.
`HandOff` says of every step up to the first lap that it is a step of `TaskQueue`.

An uncaught exception calls `std::terminate`; `main` handles `SIGABRT` with
`signal_handler`, so `Crash` starts the same shutdown as a signal does, from
inside the worker. A crash during a shutdown runs the destructor a second time,
which is undefined: the model lets it end the process or do nothing more.

`TLSServer` extends `TCPServer`, as the code does with templates: kernel, pool
and handler are the same, `RecvDone` and the workers' steps are reused as parts
of its actions. It adds the wolfSSL objects, named by their connection, the
reference count of the context, the handshake, `ret` (what `wolfSSL_accept`
returned, which the read loop asks about), clients that stop reading, and the
order close, notify, free of `TLSCloser`. wolfSSL is external: a read fails,
wants more, returns data or 0.

`ServerManager` is the process: `main` with the three loops of the constructor,
the move into the global, the empty destructor of the temporary, the handlers and
the wait. Each thread has a stack of runs of `~ServerManager`, because a signal or
a throwing worker starts one on whichever thread it hits. Of a server only its
accept thread, its pool and whether it waits for a silent client are kept.
`Stop` of one server is in `TCPServer`. Joining oneself or joining a thread twice
throws in a destructor and ends the process by way of another `SIGABRT`.

`FileManager` is the disk, the scan and encoding of `main`, two fetchers, Brotli
and `prepare_response`. Workers look up, fetch and insert in separate steps, and
`raced` records two of them in the map at once, one inserting: undefined
behaviour from then on. `write_to_file` does not look at the stream, so what it
wrote is whole, padded or short; `file_size` of a file that went since the scan
throws out of `main` (`EncodeThrows`). Files are edited and deleted at any time and
the program killed (also halfway through writing an encoded file) and started
again. `file_manager` is
`static` in a header, so every translation unit has one: `FillUnit` is where the
scan goes, `RequestUnit` where requests are answered. In the program as built the
two differ; the run with one unit for both shows what the class itself does.

`HTTPParser` is `parse_http_request`, one step per part of the request line and
per header line, on the characters of a message printed by `operator<<`, cut
anywhere or with one character replaced. It works on characters because what goes
wrong in it are positions: `remove_prefix(npos)`, `front` of an empty view.
`Hardened`, chosen at the start, says whether the build checks these
(`_GLIBCXX_ASSERTIONS`). Behind a header of which only the CR arrived the view of a
build without checks begins one character behind the string and its length has
wrapped around (`Length`, modulo `SizeT`); `ReadsOn` is what the loop does there: it
meets something that is no header, a page that is not there, or a line end some
characters on (`Reach`), and then copies what the view has left into a `std::string`,
which takes no more than `max_size` characters.

`RequestHandler` has the seven handlers with the status codes, between a client
that keeps book of what the numbers mean (300: one of several representations,
301: moved for good, 404, 200, 202 and the rest) and an application that implements
the interfaces; both are external. The server does not call these handlers yet.

`Expected` is the life of what an `expected<T, E>` contains. `type` says which
copies, moves and conversions of T and E may throw and whether their destructors
do something; all consistent combinations are initial states. A construction in
storage still in use is recorded in `leak`, a destructor or assignment on what is
not alive makes the object `"undef"`, except that assigning to something with a
trivial destructor works.

`...Proofs` modules hold the theorems about the module they are named after
(section 4). `TLSServerProofs` builds on `TCPServerProofs` as the module does.

`MC...` modules define inputs and symmetry sets. Definitions called `X_Something`
before a definition `X` are faulty variants of it, used to test that the
properties notice.

## 3. Runs

| Run | Question | Result |
|---|---|---|
| `queue` | ring of 3, table branch of `next`, 2 consumers, 5 pushes | Until the first lap nothing is lost (`NoTaskLost`), doubled or damaged (`HandedOutOnce`), the ring implements `TaskQueue` (`HandOff`) and every element reaches a worker (`EveryTaskTaken`); `size_` is off only by the operations under way (`SizeCounts`, modulus 4 so that it wraps); fewer pushes than slots never lap (`NoLapBelowCapacity`); `QueueInv` is the invariant the proofs use |
| `queue_exclusive_access` | does the compare-and-exchange give exclusive access, as its comment says? | violated, although no push begins while `full()` is `TRUE`: the producer may be writing to the slot when the winner moves out of it |
| `tcp_server` | 3 clients, 2 workers, 2 descriptors for connections | `FdOwnership`: a task's descriptor is its own, except for the one `Stop` closes; `RightRecipient`: nobody gets another client's response; `LeaksKnown`: only the two give-up paths of the accept loop leak |
| `tcp_server_liveness` | 2 clients, 2 workers, with fairness | a queued connection is closed (`TaskFinished`) and a queued request answered, unless another client's reset ends the process by `SIGPIPE` (`TaskAnswered`); a shutdown ends the process or hangs in `recv` (`ShutdownCompletes`) |
| `tcp_server_request_served` | is a client whose request arrived answered? | violated by one client: an idle `accept4` leaves `EAGAIN` in `errno`, and the next connection is dropped |
| `tls_server` | 2 clients, 2 workers, one descriptor for connections, wolfSSL objects, fairness | `TLSFdOwnership`: only a worker that is about to notify has a descriptor that is not its own; `ObjectsOwned`: an object is freed once, after its last use; `CtxHeld`: the context outlives loop and objects until the second `Stop`, in `~TLSServer`; `RightRecipient`: close notifications may reach a stranger, responses do not; `TLSTaskAnswered`: a queued request is answered unless its client or all workers are stuck, the server stops or a reset ends the process; the read and the write loop end unless the client stays silent (`ReadEnds`) or does not read (`WriteEnds`) |
| `server_manager` | both servers of `main`, 2 signals, 2 nested handlers | `OneStopper`: at most one destructor gets past its joins and no server is stopped under its loop; `NoJoinCycle`: accept threads that run the handler do not wait for each other in a circle; `ShutdownEnds`: each shutdown ends the process, unless a silent client holds a loop |
| `file_manager` | one file and its encoded form, 2 workers, 2 starts, one edit; scan and requests in one unit | `RightContent`: right file, coded as announced, not older than the start; `EmptyOnlyIfGone`: an empty body with 200 is that of a file that is gone, or the cache was raced on; `StaysWarm`: a filled cache is only read |
| `file_manager_serves_files` | the program as built | violated: the manager that is asked was never filled |
| `http_parser` | all methods and versions, up to two headers, cut or damaged anywhere, builds with and without checks, and two requests that are not `Separable` | `RoundTrip`: read back as printed, and HTTP/1.0 refused although it is printed; `CutNotAccepted`: no cut head is accepted, not even by reading on behind the string; `PathInPlace`: method, path and version stand in their places, but for a path without an end in a build without checks; `ThrowsOnlyCut`: the parser throws only on a cut request line, when a damaged path runs into blanks at the end of the body, or after reading on; `ParseEnds` |
| `request_handler` | 2 paths, 2 bodies, 2 writes each | `TellsTruth`: what a client concludes from the numbers is so, but for resources that have moved; `ConditionHonoured`: conditions reach the application under their own names |
| `expected` | 2 objects, 2 values, 2 errors, all types | `LifetimesKept`: except in three named places each life ends once and `m_has_val` is true to it; `AllOrNothing`: what returns has been done, and what throws while it would change an error into a value has left the error, if E is trivially destroyed and moves without throwing |

**Bounds.** `MaxPushes` exceeds the capacity by two, so that laps of all three
kinds happen and the ring wraps while consumers are delayed; seven pushes
also pass. Two consumers are the smallest number that race, and the
proofs cover any number. Three clients and two free descriptors make a number
reused while another task is under way, and make `accept4` run out of
descriptors; in `TLSServer` two clients and one free descriptor are enough, since
the number is reused between close and notification. The queue runs with the
table of successors; that the remainder is the same is proved (`NextValue`). Two signals and two nested handlers suffice to
meet every pair of destructors on the same and on different threads. Two starts
and one edit make every combination of old and new file and encoded file. Two
headers, one with an empty value and one whose key ends in a colon, and a body
that looks like the end of a head cover the branches of the header loop; bodies
that end in a blank or look like a version let a path without an end run into them.
`SizeT` is 2^16 instead of 2^64 and `Reach` has a line end at once, one character on
and a page on; the proofs need only that memory that can be read is shorter than
half of `SizeT` (`ParserAssumption`). Two
objects are all that an operation of `expected` takes. Symmetry (consumers,
clients, workers) is used only in runs without liveness properties.

**Deadlock** is checked for the queue (workers poll for ever) and not for the
servers, the manager and the files, which end: the process dies, or all clients
are done; nor for `HTTPParser` and `Expected`, where a result, or the end
of the program, is the end.

**Fairness.** Queue: every step of a worker's loop is weakly fair, since the loop
never blocks; `PopClaim` is strongly fair, since a compare-and-exchange that
could succeed again and again is not failed spuriously for ever. The producer
owes nothing. Server: accept thread, workers and the thread that runs the
shutdown are weakly fair; clients and signals owe nothing, so a client may stay
silent. The same for `TLSServer`, where a client may also keep from reading, and
for `ServerManager`, where each thread's run of the destructor is weakly fair and
so is the return of an accept loop once it has been asked to stop. The parser is
sequential: the next step is taken.

## 4. Proofs

The theorems hold for every value of the constants, under the assumptions named in
the modules and no others. Together they state all safety properties of the runs
that pass. Every proof has the same shape: an inductive invariant that TLC checked on the run's instance first, one
lemma per action, and theorems that draw the properties from the invariant.

| Module | Theorems | Invariant |
|---|---|---|
| `LockFreeQueueProofs` | `TypeCorrect`, `QueueCorrect`, `NothingLost`, `NothingDoubled`, `NoEarlyLap`, `SizeCorrect`, `HandsOffInOrder` | `QueueInv`, `FewPushes` |
| `TCPServerProofs` | `ServerTypeCorrect`, `DescriptorsOwned`, `RecipientsRight`, `LeaksAreKnown` | `Ownership` |
| `TLSServerProofs` | `TLSRecipientsRight`, `ObjectsAreOwned`, `ContextHeld`, `TLSDescriptorsOwned` | `Ownership`, `Held`, `Refs` |
| `ServerManagerProofs` | `OneStops`, `NoCycle` | `OneJoiner`, `Counted`, `Downward` |
| `FileManagerProofs` | `ContentRight`, `WarmKept`, `EmptyExplained` | `FileInvariant`, `EmptyInvariant` |
| `HTTPParserProofs` | `ParserTypeCorrect`, `PathFound`, `ThrowsRarely`, `ReadsBack`, `CutRefused` | `PlaceInvariant`, `LineInvariant`, `Reading`, `Tracks` |
| `RequestHandlerProofs` | `ClientTold`, `ConditionsKept` | `Promised` |
| `ExpectedProofs` | `ContentsTyped`, `LivesKept`, `AllOrNothingHolds` | `Accounted`, `Lost` |

**The queue.** `NextValue` shows that the table and the remainder are the same
successor. The *age* of a slot is how many pushes ago it was published; ages
range over `1 .. Capacity`, identify slots, and a slot is in the ring exactly
when its age is at most the ring's length (`AgeFacts`). `SlotContents` says that
slot `i` holds element `published - Age(i)`, lapped or not, and `AgeStep` that a
push makes all other slots one older. Neither property of interest is inductive
by itself: to see that a claim does not hand out an element twice one must know
that every element older than the ring has left it, that a claimed slot is out
of the ring and unshared, and that no checked head is the tail. That is
`RingInv`, `ClaimedInv` and `CheckedInv`, which hold while `laps = {}`; the
guards that `laps = {}` stands for are used in `PushBegin` and `PushStore` and
nowhere else. `NoEarlyLap` has its own invariant: before the first wrap-around
the cursors are ordered as plain numbers (`FewPushes`). `SizeCorrect` counts the
consumers between claim and decrement and needs them to be finitely many
(`ConsumersAssumption`); the `Mod...` lemmas say that counting commutes with the
remainder. `HandsOffInOrder` is the refinement of `TaskQueue`: the mapping
(`Waiting`, `Hold`) reads the ring from `head_` to `tail_`; `StoreAdds` maps the
store of `tail_` to an append, `ClaimTakes` the compare-and-exchange to taking the
head, `MoveDelivers` the move to the delivery, and all other steps leave it alone.

**The servers.** That a task's descriptor is its own is inductive only together
with where connections are: in the backlog (once, without a descriptor), in the
accept loop, in the queue or with one worker, never in two places, and never back
in the backlog (`Settled`). That is `Ownership`. It is stated so that it also holds
of a TLS worker, which keeps a task for one step after closing its descriptor;
the lemmas about the actions the servers share are proved once and used by both.
`Held` ties WOLFSSL objects to connections in somebody's hands, `Refs` is the exact
reference count of the context, from which `CtxHeld` follows with cardinalities.

**The manager.** `OneJoiner`: two runs of the destructor, on whatever threads and
however nested, never have joined, or be joining, the same accept thread. The run
that is past its joins has all of them, so there is at most one; `Counted` bounds
how often it can have stopped each server. The joins go up from the first server,
and a thread that would join itself ends the process instead; so a handler on
an accept thread waits only for servers below its own
(`Downward`), and the lowest server of a set waits for none of the set (`NoCycle`).

**The files.** `FileInvariant` follows a content from the disk to the response:
what an earlier, perhaps killed, run left (`SoundDisk`), that nothing became older
since the scan (`NotOlder`), that a descriptor names an encoded form only once it
is written whole (`AllDescribed`, `Encoding`), and that cache and workers hold what
was read that way. Whether what was written is short is not known to anybody in the
program, so `ContentRight` says only that this run wrote it to its end. The two
look-ups of `get_file` agree because nothing is ever taken out of the cache: whatever is
empty in it, or in a worker's hands, was made up after a race or read from a file
that is gone (`EmptyInvariant`). None of this needs scan and requests to be in one
unit.

**The parser.** `PathInPlace` is about the end of a parse; `PlaceInvariant` says what
has been passed over at each step before, and `LineRemembered` where blanks, path and
version began, since the view has long gone on when the request is accepted. Behind
the string the view's length is `SizeT` less a few characters; what can be read
there is less than half of that, so the rest is longer than `max_size` and the copy
throws (`TooLong`): the over-read never becomes a request. `ThrowsRarely` needs to know what arrived
(`Delivered`: a prefix of the message or the message with one character changed,
`WireLaid`: where the parts of a message are) and where the view can be when the
version is read (`Reading`). No single damaged character turns a method into
another (`MethodsDiffer`), so a path that arrived whole is read from its start to
its blank; from there the version ends before the string does. The proof
corrected the property: in its first form it took no account of a damaged path
that runs on into a body ending in a blank, and TLC then found the case once
the run had such bodies.

`ReadsBack` and `CutRefused` are about requests whose parts can be told apart on
the wire (`Separable`: no blank or line end in the path or a header's name, no
line end in a value, no name twice). The hypothesis is needed: the run has
requests without it, and the parser does not read them back. The argument has two
halves. The first is about the message alone. `FlattenSeq` is a recursion over
the list of header lines; `FlattenDefined` and `FlattenLined` say what it returns,
by looking at the first length at which they would fail (`FirstPosition`), and
give a position for every line. `Charted` is the map of the message drawn from
them: where each header begins, has its colon and ends, and where the body
begins. The second half follows the parser over that map. At each step `Tracks`
says where the view is and what has been read: after `j` headers it is at the
line `j + 1`, and the map of headers has exactly the first `j` (`MapGrows`, where
names must differ). A message that was cut leaves the map in two ways only. In
the path, the view steps back by one (`Lost`) and finds no line end from there on;
in the version, it finds none before the string ends. So the parser gives up
before it comes to a header, and among the headers it comes to the end of the
string before an empty line. That the view can be where it should not be without
the request being accepted is what makes `CutNotAccepted` hard to test.

**Handlers and `expected`.** `Promised` is about what the client *will* believe once
it has read the response on its way, since a deletion may be carried out in
between. `Accounted` and `Lost` also describe the objects `LifetimesKept` excuses,
whose destructors still run. `AllOrNothing` and `StaysWarm` are action properties,
proved step by step from the invariants.

**Only model-checked.** Everything under fairness (`EveryTaskTaken`, `TaskFinished`,
`TaskAnswered`, `ShutdownCompletes`, `ReadEnds`, `WriteEnds`, `TLSTaskAnswered`,
`ShutdownEnds`, `ParseEnds`): liveness and `ENABLED` are out of the prover's reach. `Spec` of each
module has what fairness it needs; the safety proofs do not use it. The library's
induction theorems take an operator as a parameter, which the installed provers
cannot instantiate; the one induction over data that is needed, in
`HTTPParserProofs`, is written out with the least counterexample.

## 5. Where code and comments disagree

Three runs end in a counterexample; `PROJECT.json` quotes the lines:

* `lock_free_queue.hpp:86`: no exclusive access to the slot won (`ExclusiveAccess`).
* `tcp_server.hpp:102`: a stale `errno` drops an accepted connection (`RequestServed`).
* `http_handler.hpp:23`: the manager that is asked is not the one that was filled
  (`ServesFiles`).

The models hold further disagreements, each inside a definition or named as the
exception of a property that passes:

* `lock_free_queue.hpp:80`, "Boundary check": a consumer delayed for one lap after
  it claims a slot of an empty ring (the `"stale"` lap).
* `tls_server.hpp:163`: the error of `wolfSSL_read` is looked up with the result of
  `wolfSSL_accept`, so a request that comes later than a successful handshake ends
  the accept loop (`ReadFails`).
* `tls_server.hpp:107`: the `Stop` inside `~TLSServer` drops a reference of the context
  that is an object's or nobody's; `CtxHeld` says nothing after it.
* `tls_connection.hpp:37`: the close notification goes to a number that is closed and
  may belong to another connection (`strayed`).
* `content_coding.cpp:58`: an encoded file is as long as its source, with the rest
  of the buffer behind the compressed bytes (`"padded"` in `FileManager`); `:27`: a
  file the disk did not take whole is entered as the encoded form (`"short"`), while
  `file_manager.hpp:40` speaks of representations of the file.
* `parser.cpp:98`: behind a header of which only the CR arrived, a build without checks
  reads on behind the string (`ReadsOn`). It is undefined; what it cannot end in is an
  accepted request (`CutNotAccepted`).
* `string_parser.hpp:110`: without a space behind the path, a build without checks takes
  all the rest for the path and reads the version where the path begins; "GET 2" with
  two line ends is accepted (the exception in `PathInPlace`).
* `string_parser.hpp:89`: an empty string, a lone `P`, a message cut before its
  version and some with a damaged path throw `std::out_of_range` where everything else
  returns a `parser_error` (`ThrowsOnlyCut`), and the worker does not catch.
* `http.hpp:81` and `:83` write "300 Moved Permanently" and "301 Found", the table
  in the same file has 301 and 302 (`status_code_to_string`, the exception in
  `TellsTruth`).
* `expected.hpp:768`: the helper in the `try` block of `assign` is `noexcept`, so a
  copy that throws ends the program and the error is never restored as the comments
  at `:719` and `:755` say (`Terminates` in `assign`).
* `expected.hpp:1777`: `emplace` that throws over a value leaves `m_has_val` set
  with nothing alive, and the destructor destroys it again; `:1788`: putting the error
  back may throw as well; `:1606`: converting constructors construct over a default
  value (the exceptions in `LifetimesKept` and `AllOrNothing`).
* `message.hpp:149`: `HTTPRequest::to_string` prints its `this` pointer; nothing
  uses the text, and `HTTPParser` models `operator<<`.

## 6. Not modelled, and the plan

* The queue is sequentially consistent. `head_` is loaded relaxed, so a compiler
  or a weakly ordered processor may load it after `tail_`; with two workers head
  may then have overtaken the tail it is compared with, and a slot is claimed that
  was never published. With one worker the order does not matter.
* Short writes of `send`, terminal output, address resolution.
* Allocation inside the signal handler, which is not async-signal-safe. What a
  second run of a destructor does is a choice between ending and doing nothing.
* `Cache` (`cache.hpp`): included nowhere and not well-formed, so there is no
  behaviour to compare a model with. `URL` is called nowhere and touches no other
  part. `FileEncoder::encode_directory`, `is_supported_extension`,
  `Threadpool::join`, `add_connection` and the stream compressor are called
  nowhere or commented out.
* `headers.hpp`: declarations of header names without operations.
* Of `expected` the accessors, the monadic functions and the comparisons, which
  keep no state, and the specialisation for `void`.

Next: a composition of `TCPServer` and `TLSServer` over one descriptor table.
