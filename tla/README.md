# TLA+ models of libkahana

libkahana is a C library: memory pools and strings on top of APR, a threaded TCP
server on top of libevent, a loader of shared objects, and wrappers of libcurl,
imlib2, libmcrypt and oniguruma. This directory keeps TLA+ modules translated
from its source, TLC configurations that check them on small instances, and
proofs that TLAPS checks for every value of the constants. Paths below are
relative to `src/src/` of the repository.

## 1. The system

| part | source | state | operations | what is hard |
|---|---|---|---|---|
| string buffer | buffer.c | block, its recorded size, text length, allocation unit | create, set, append, insert, shift, replace, compact | sizes that are off by one, `size_t` wrap-around, `realloc()` failing |
| socket server | socket.c | thread pool, one event base per worker, the listening socket all share, one client per worker, one stop signal | loop, unloop, destroy; accept, recv and signal callbacks | threads racing for connections, events rescheduled by hand, a signal that reaches one base only |
| socket creation | socket.c | descriptor, event base, copies of kernel options, signal events | create, set options, register signals, destroy | eight steps that can fail, copies that drift |
| module loader | module.c | hash table by label, a pool and a method table per module, a count | load, list, look up, invoke, preload, unload, terminate | keys and entries that outlive their module |
| library object | kahana.c | `kObj`, its pool, loader, logs, file cache | initialize, terminate, `kahanaMalloc` | failure half-way, use after termination |
| image context | image.c | an image per context, geometry; imlib2's current image, which is global | create, load, crop, resize, save, destroy | two contexts sharing the library's current image |
| HTTP client | curlw.c | curl handle, query table, receive buffer, last error | create, set query, request | options that stick to the handle, body memory, lost data |
| command runner | cmd.c | three temporary files of an attribute, its error code and text | create, run, destroy | files used for several runs and never cut, offsets shared with the child, the loop that reads errors |
| files and paths | io.c | one load, one loop over paths; a cache that is never enabled | load, read, make directories and links | a file that changes between `stat()` and `read()`, a path that changes between `stat()` and `mkdir()` or `symlink()` |
| logs | log.c | a list of items per label | put, output | appends from worker threads without a lock |
| strings | string.c | none, but for onig's objects | conversions, replacement, matching | loops over matches that grow or shrink the text, empty matches, conventions for counts |
| positions | geo.c | coordinates, their sines and cosines, a geohash and its precision | set, encode, decode, move | fields that must agree, an array that is full |
| network | net.c | none | CIDR | sums in the byte order of the network |
| cipher | cipher.c | an initialization vector, the texts last made | create, set vector, encrypt, decrypt | when the vector is made and kept, texts of whole blocks |
| utilities | util.c | none | digests, random numbers | - |
| stock | stock.c | pool of values | - | dead: the constructor never returns its object |
| database | database.c | pool of connections | - | not compiled |

How they interact: everything allocates from APR pools below `kObj->p`, whose
destruction runs the cleanups of all the objects in them; everything logs through
log.c; the socket server's callbacks run on the threads of its pool and may log;
io.c, curlw.c and string.c build their results in buffers; an application reads the
output of a command with io.c; cmd.c uses string.c. The only threads are the socket
server's; cmd.c has a child process beside it, and io.c all other processes.

`PROJECT.json` lists each component with its status, and under `hazards` what is
hard to test in each, at its line, with the properties that watch it.

For each component, what makes it correct:

- buffer: no write outside the block; `kahanaBufPtr` is a NUL-terminated string;
  `kahanaBufAllocSize` is true; only a compaction shrinks the block.
- server: one worker per client and one `close()` per descriptor; a worker
  listens or serves, never both; connections and stop signals are attended to;
  after the pool is gone no thread runs.
- socket creation: nothing stays open when a step fails; the options reported are
  those in force.
- loader: the table, the modules and their count agree; freed modules are not
  found.
- image context: a context's image exists, is the one its geometry describes, and
  is freed once.
- HTTP client: the query is what was set; a request is of the kind asked for; the
  responses arrive whole and in order.
- logs: calls that do not overlap lose nothing; calls that do must leave a list that
  ends and must not write through `NULL`.
- file loading: the size returned describes the data; nothing stays open; it ends.
- paths: what is reported made is there; what was there is left alone.
- command runner: what is read after a run is the run's output; it ends; the
  temporary files go, however far the attribute came.
- positions: the geohash, its precision and the sines are of the position.
- cipher: what was encrypted since the vector was set can be decrypted. CIDR: the
  range is the network.
- strings: each function does what its kind does elsewhere (replaces, splits,
  encodes, counts), leaves its text alone beyond its end, and returns.

## 2. Modules and the code

One module per component; `MC*` modules give the constants small values, `.cfg`
files name the properties of a run; `*Proofs` modules hold theorems.

### Buffer (buffer.c)

State: the fields of `kBuffer_t` (`mem`, `nmem`, `size`, `nalloc`), and `cap`,
what the allocator really holds at `bo->mem`. The text is its length and whether
`mem[size]` is the NUL. Every call of `kahana_buffer.h` but `kahanaBufStrReplace`
(see Strings) is an action; most are `Store(req, newsize, extent, failsize)`: ask `BufRealloc`
for `req` bytes, write below `extent`, terminate at `newsize`, or fail. `size_t`
arithmetic is modulo `SizeMod`, so that a shift to the left is the large number it
is in C. A write outside the block or through `NULL` sets `fault`, where the C
program has no defined behaviour and the model stops. The inverted test of
`realloc()`'s result in the compactions is kept: success returns whatever errno is.
Shifts have padding 1, which is what the library passes wherever it shifts itself.
kahanaBufStrShift leaves the padding to the application, and with 0 its NUL
(buffer.c:213) falls one past a block that was just grown: that call is not modelled,
and every statement here about "all calls" is about calls without it.

### TextBuffer, what Buffer implements

The abstract specification: a buffer is a text of some length which is a C string,
or is not one for the time being, or is lost. A string stays one through every edit;
only what is not a string can be overrun; a call without room loses the text and
says so; a compaction may take the NUL and says nothing of a failure. `Buffer`
instantiates it with the mapping `Seen` (from `st`, `mem`, `heap`, `fault` and
`IsString`), `len <- size`, `answer <- rc`. The run `buffer` checks
`ImplementsText`, and `BufferProofs` proves it for every value of the constants.
CurlWrap goes on to use the detailed buffer; FileRead and Command take a buffer to
be its text, as TextBuffer says.

### SockServer (socket.c)

The main thread (`mpc`) runs `kahanaSockLoop` (`Loop`, one `PushWorker` per task,
`EnterMainLoop`, or `PushFails`, `Unwind`, `FailedLoopReturns`), `kahanaSockUnloop`
(`Unloop`, `UnloopReturns`) and `kahanaSockDestroy`. Each worker (`wst`) runs
`WorkerThread`: `StartWorker`, `SetWorkerSignal`, `EnterWorkerLoop`, `ExitWorker`;
inside its loop the callbacks `SocketAccept`, `SocketRecv` and `WorkerSignal` are
actions, and `WakeAccept` and `WakeRecv` are libevent finding an event ready, which
is a step of its own because the event is no longer pending while its callback
waits to run: two workers can wake for one connection. `pend` is what
`event_add()` has scheduled, `cfd` is `core->fd`.

Outside the code and modelled from its use: libevent delivers a signal to the base
that last registered one or entered its loop with one (`sigBase`), saves and
restores dispositions (`disp`, `olddisp`); APR's thread pool drops queued tasks
and waits for running ones when it is destroyed; clients connect, send, finish
or reset as they like.

### SockSetup (socket.c)

(Checked as a part of `Parts`; by itself for `sock_snd_timeout`.)
`kahanaSockCreate` is an action for each call that can fail (`Malloc`, `EventBaseNew`,
`Getaddrinfo`, `Socket`, `Configure` for setsockopt, bind, fcntl and listen,
`ReadDefaults`), `phase` being the one it is at. `held` is what has been acquired and
not released: the pool, the event base, the list of addresses, the descriptor; each
failing call releases what its own error path does, the first ones the pool, those
after `socket()` what `CleanUp` does (`close()` of `sock->fd`, which may be -1, and the pool). The
setters and getters of options are a pair of functions, `kern` (in force) and `copy`
(in the object); `kahanaSockSetOnSignal`; the cleanup.

### ModuleLoader (module.c, kahana.c)

`table` is the hash by label, `state`, `label`, `file` and `methods` describe each
`kModule_t`. `Cleaned` is `cbModuleCleanupMod`, whose key is the FILE name.
`MethodPreload` is the whole loop over its labels, up to the one it stops at. `Initilize` and `Terminate` are
kahana.c's as far as `kObj` and the loader go.

### ImageContext (image.c)

Each context's pointer (`img`) and geometry (`geo`), the images that exist with
their sizes (`dim`) and imlib2's current image (`cur`). `DestroyContext` frees the
current image, whichever that is; `Save` is one action: clone, crop, resize,
save, free, go on with the clone. Ratios are exact fractions.

### CurlWrap (curlw.c), composed with Buffer

The query hash keeps pointers to the caller's strings (`entries`, `text`) and
compares keys by text; `method` is the option that stays in the curl handle;
`cw->rcvd` is an instance of module Buffer (one byte wide, no slack, as
`kahanaBufCreate( &bo, rp, sizeof( char ), 0 )` makes it), and `Receive` is
`B!StrNCat` with its result ignored. Buffer knows lengths only; here the bytes are
added, numbered as curl delivers them: `rcvd` is what lies at the offsets below
`size`, and `BytesWith` writes a piece where the code does, at `Offset` (`bo->mem +
bo->size`), keeps what was below it, and loses all of it with a block that
`realloc()` could not grow. `sent` counts what curl has delivered, whether or not it
was stored.

### LogList (log.c)

`_kahanaLogPut`, called by the server's threads on one label's list with no lock.
Every access to what the threads share is a step: `GetLog`, `SetLog` (a new log
enters the table in place of any other), `LogItemCreate`, `LoadCount` and
`StoreCount` (`log->nitem++`), `TestHead`, `SetHead`, `SetPrev`, `LoadLast` and
`Link` (`log->last->next = item`), `SetLast`. `pc` and the locals are each thread's
place in the function. A log lives in the pool its creator names; `DestroyPool`
destroys that of the application. `puts`, `overlap` and `early` are history
variables the properties speak through. `kahanaLogOutput` only reads the list:
`OutputEnds` says that its walk ends.

### FileRead, FileLoad and Command (io.c, cmd.c)

`FileRead` is `kahanaIOReadFile`: from the offset `at` of an open `file`, in pieces of
up to `Chunk` bytes, into a buffer whose C string is the result. It is instantiated
twice. In `FileLoad`, `kahanaIOLoadFile` goes through `Stat`, `Open`, `ReadFile`,
`Finish`, while `Others` (external: other processes) append to the file, cut it, give
its name to another file or take it away between any two of them. In `Command` the
file is the output a child process has written.

`Command` has `kahanaCmdNewAttr` with each of its thirteen steps that may fail
(`AttrSteps`), what each opens (`Opening`) and in which pool (`PoolOf`), so that the
error path, `apr_pool_destroy( sp )`, closes what is in that pool and nothing else;
`DestroyAttr`, and `kahanaCmdRunProcess` as `RunProcess` (the first
seek), `Spawn`, `Wait` (with the second seek) and `ReadError`, the loop over the error
output. Its child (`ChildWrites`, `ChildExits`) is a process of its own: its writes
go where the offsets it shares with the parent are. A byte is the number of the run
that wrote it, so that a content tells whose it is. What APR gives a second child in
place of the ends that were closed after the first is left open (`deaf`).

### Paths (io.c)

`kahanaIOMakeDir` and `kahanaIOMakeSymlink`: loops over paths in which looking
(`CheckDir`, `CheckSource`, `CheckLink`, each a `stat()` by `kahanaIOPathTypeIs`) and
making (`MakeDir`, `MakeSymlink`) are steps, and other processes make and remove
(`Interfere`) between them, anything at any path. `prc` is the `rc` the loop carries
along. `Followed` is what `stat()` does with links, of which the system follows
`MaxLinks` at most. `removed` and `foreign` are history: whether another process has
taken away or changed what was there, and where one has made something other than a
directory; as long as nothing was removed, `MadeAsTold` says what the answers mean.

### Geo, Cipher, Cidr (geo.c, cipher.c, net.c)

`Geo`: the coordinates are integers from 0 to `Scale`, which can be halved as often as a
geohash has bits for a coordinate (`HashAssumption`), exactly as the doubles are, of which
16 characters of 5 bits need 40 of 53; a geohash is its bits. `rad` is `lat_rad` and
`lon_rad`, which the code makes from degrees by multiplying by `degree`, 180/pi, and `trig` the
angles it takes the sines and cosines of, the degrees taken for radians: both as the code
has them (`Radians`, `Trig`). A movement by an angle and a distance counts
the new longitude from `lon_rad` and brings it into range with `fmod()`, whose result has the sign
of what it divides (`Fmod`), so that from an origin of negative `lon_rad` the new longitude
may be below -180 degrees, a negative number here. Left open are what the conversion
from the Tokyo datum computes, and the latitude and the turn of a movement, which depend
on sines of the wrong angles: any of `Coords`. That `asin()` of a number above 1 is not a number is
left out. `Cipher`: a ciphertext is what it depends on, a key, a vector and the padded
text; when `mcrypt_generic()` refuses, bytes of the same number are kept all the same (`Garbled`);
`CreateIV` numbers the vectors. `Cidr`: addresses of `Bytes` bytes of `ByteBits` bits as `inet_addr()` gives
them, with the byte swaps and the sum that wraps. The copy of the text is an array
without room for its NUL (net.c:18), so that a call may also end as "wild".

### Parts

SockSetup, FileLoad, Command, Paths, Geo, Cipher and Cidr keep their state to
themselves. `Parts` instantiates them all and chooses one for each behaviour
(`part`), so that one run checks them and the variables that two of them name
alike are shared without either seeing the other.

### Strings (string.c, and kahanaBufStrReplace of buffer.c)

One behaviour is one call: `Begin` chooses the function and its arguments (`call`),
each round of its loop is a step (`Round`), and it returns or fails. `text` is the
string being made, `at` the offset the next search starts from, `out` the array of
results. Texts are sequences of two characters, which are CR and LF where that
matters. What oniguruma does is external: a pattern is the set of words it matches,
found at the first place any of them is, the longest of them there; groups are left
out. kahanaBufStrReplace keeps a pointer across `BufShift`: when that may have moved
the block the call may end as `stale`, when the pointer is outside the text as
`wild`. `at` of kahanaStrRegexpReplace goes past the end of the text when an empty match was
left alone. kahanaStrDeleteOverlap writes its NUL behind an array on its stack
(string.c:1051): each call may end as `wild` there, or go on as if there were room.
kahanaStrRegexpReplaceByCallback gives the size of the text for the address
of its end, so that nothing is ever found and the callback never called. The last
piece of kahanaStrRegexpSplit has a pointer cut to an `int` for its length: any
length. The UTF-8 functions work on texts of their own, of bytes that begin a character
of one to six bytes, that are inside one, or that are of none (0xfe and 0xff):
`ByteCount` is how wide a character is by its first byte, `Pass` a step past it, `Strlen`, `StrPos` and `StrtoBytes` the
loops over them, which read past the NUL if the text ends inside a character.
kahanaStrEOLtoLF copies overlapping bytes with `memcpy()`, which is taken to
copy forwards.

What the run found out by the way, none of it contradicted by a doc: with a count
of 0 kahanaStrReplace replaces nothing (so kahanaStrSanitize does nothing) where
kahanaBufStrReplace replaces all, and a negative count is 1; each piece of
kahanaStrRegexpSplit after the first is too long, because an offset is used as its
length; kahanaStrRegexpReplace does not look at `global`.

## 3. Runs and bounds

`PROJECT.json` lists the runs and their properties. All set `CHECK_DEADLOCK
FALSE`: objects are destroyed, bounds are used up, and the server can hang by
design of its stop signal, so that states without a successor are legitimate.

| run | instance | what it shows |
|---|---|---|
| buffer | lengths 0..3, text up to 6, slack 0 or 2, `size_t` modulo 64 | memory safety of all sequences of calls, with the two exceptions named in the properties (after a compaction, after `realloc()` failed); that they implement TextBuffer |
| sock_server | 2 workers, 2 connections, all inputs and faults | ownership of descriptors, endings, signals, the quiet state before destruction |
| sock_live | 2 workers, 2 connections, no faults | the three liveness properties |
| parts | sockets: 3 option values, 2 signals; files of up to 2 bytes read by 2; 2 runs of up to 2 bytes; 2 paths, lists of up to 2; positions 3, 8 and 16 of 0..16, geohashes of 2 characters of 3 bits; 2 keys, 4 texts of up to 3 characters, blocks of 2, vectors of the right size and one of the wrong; addresses of 2 bytes of 3 bits | what each failing step leaves open; that sizes and outputs describe what was written; what paths are made of; conversions and their inverses; that each call that looks at files ends |
| path_type | 2 paths, lists of 1 | violation: a link that is there is not found (io.c:310) |
| sock_snd_timeout | 3 option values, 2 signals | violation: the send timeout is never set (socket.c:590) |
| module_loader | 3 names, 3 modules, 1 method | table, modules and the count kahanaModuleList relies on, in any order of loads, unloads and terminations |
| image | 2 contexts, one of them edited, 3 images, 2 files | which image is freed, and whether a context still describes its own |
| curl | 2 strings, 2 texts, 2 requests, pieces of 1 or 2 bytes, 3 bytes in all | the query as set, responses in order, and what is left of them after a failed `realloc()` |
| curl_get | the same | violation: a GET after a POST is a POST |
| strings | texts up to 4 characters, words up to 3, counts up to 2, URIs of 6 kinds of characters, UTF-8 of 8 kinds of bytes | replacing, splitting, encoding, counting characters against definitions of their own; which calls leave the text, which do not end |
| log | 3 threads, 3 items, 2 logs | what overlapping calls can and cannot do to a list; one at a time they lose nothing |

Why these bounds are enough to meet the interesting cases. Buffer: a text of 6 with
slack 0 and 2 meets texts that fill their block exactly, shifts either way, and
growth after compaction; 64 is more than twice the text, as 2^64 is. Server: two
workers are the least that race for a connection, and with two connections one is
served while another waits; more of either only repeat pairs, and the safety
properties are proved for any number. Loader: two loadable files and three
modules allow a label that is another file's name, a reload after an unload and a
module that stays behind. Image: a file of 4x2 and one of 1x1 make crops in both
directions and lengths that round to 0; three images are two in use and one
clone. Curl: two strings that may hold the same text are what tells keys by
address from keys by text; two requests are what tells options that stick; three bytes
are one kept, one lost by a failed `realloc()` and one put behind it. Log:
three items are a first, a middle and a last one, and three threads let two race
while a third has already published; two logs let two threads create one each.
Strings: in four characters words of one and two occur twice, adjacent, overlapping
and at either end; replacements of up to three grow and shrink them; a growing text
is cut off at 12 (`MaxText`), three times the longest. Parts: a file of two bytes is
read in one piece or two, and can grow, be cut or be replaced in between; a second
run can write less than the first left behind, and the error output can fill its room;
two paths are a link and what it names, or two links that name each other, and of two
in a list one can be made by another process while the loop is at the other; a geohash
of two characters is full, one of three is asked for, and 16 is the least scale whose
cells are wider than one; a text of three characters needs two blocks, one of two none;
two bytes are the fewest between which a carry can go. In texts of up to four bytes a
character of five or six always passes the end; the theorems are about texts of any length.

A call of string.c that leaves its text, or holds a pointer to a block that has moved,
has no defined outcome; `StaysInText` names the calls that can, and no other property
speaks of those behaviours.

Each property has a mutant in `PROJECT.json`: a plausible bug of the code, as an
operator beside the definition it would change, under which the property fails.

## 4. Fairness

`sock_live` uses `FairSpec`. Each worker's own steps are weakly fair: a thread
that can run is run, and libevent dispatches a ready event. `WorkerSignal` is
strongly fair: libevent looks at its signal pipe in every round of its loop, so a
signal that is pending again and again between client events is dispatched. The
main thread's steps out of the joins are weakly fair. Nothing is assumed of the
clients or of the application: they need not send, and need not call
`kahanaSockUnloop`. Callbacks are assumed to return. Two facts these runs rest on
are also limits of the code: a client that sends nothing holds its worker
forever (`cb_timeout` is stored but never called), hence the exception in
`WaitingIsAccepted`; and one `raise()` stops one worker, hence the hypothesis of
`UnloopCompletes` and the property `UnloopStopsOne`.

`parts` has weak fairness of the caller's own steps, once a call has begun: of
`LoadFile`, of `CmdStep` (`Spawn`, `Wait`, `ReadError`) and of `PathStep`. A thread that
is not stopped goes on, and a read, a `stat()` or a `symlink()` returns. Nothing is
assumed of other processes, of the application or of the child: `Returns` speaks of
commands whose child has ended, since `apr_proc_wait()` waits as long as it runs. A file that
another process makes grow for ever would be read for ever; `MaxFile` bounds it.

That the loops of string.c end needs no fairness: `GoesForward` says that each round
leaves less of the text to search, or counts one of the rounds the call is limited to.

## 5. Proofs

TLAPS checks, for every value of the constants that satisfies the named
assumptions of the modules:

- `BufferProofs`: `TypeOK`, `InBounds`, `StringReadable`, `NoPromiseBeyondBlock` and
  `TextInBlock`. None is inductive: that a write stays inside the block depends on
  what `nmem` was when it was compared. `LiveInv` says how `cap`, `nmem`, `size` and
  the NUL relate while nothing has failed, apart for a block with room and one
  without; `FaultInv` says what any fault must have come from; `StartInv` covers the
  buffer that is not created yet. `StoreKeeps` is the one step all string calls
  share, and the lemmas about `Diff` and `Wrap` show that the wrapped
  sums of a shift, of padding 1, are the true lengths. Assumed: a positive element width, natural lengths, `SizeMod` above
  twice the text. `AllocSizeHonest` (`NoPromiseBeyondBlock`) has no run of its own. The
  theorem `Refinement` is `Spec => ImplementsText`, that Buffer implements TextBuffer: the
  invariant says in which states a step can begin; each call is then an edit, a
  compaction or a stutter of the text (`StoreEdits` for the string calls, `SeenLive` to
  read the mapping).
- `CurlWrapProofs`: `UsesBuffer` is that every step of the client is a call of module
  Buffer or leaves the buffer alone, so that the client's behaviours are behaviours of a
  buffer, and the invariant of `BufferProofs` holds of them without a proof of its own. From it
  and `BytesInv`: `TypeOK`, `ReceivedInOrder` and, as `NoOverrun`, that the buffer has no
  fault as long as no block was lost. `ReceivedInOrder` needs that the text and the bytes
  sent are equally long while nothing was lost, and that a byte that is there has the
  number its distance from the end tells (`BytesKeep`): it is what writing at `bo->size` and adding
  to `bo->size` come to, call by call. `QueryAsSet` rests on `QueryInv`: while no string in the
  table was overwritten, the hash an entry was put under is that of its key. Assumed: the
  null pointer is no text and no string.
- `SockServerProofs`: `TypeOK`, `ServeXorListen`, `FdOwnership`,
  `QuietWithoutPool`, `EndsOnce` with its part `ClosedOnce` (theorem `NoDoubleClose`), and `RaiseIsHandledWhenServing`, for any set of
  workers and connections, any faults, any inputs. The strengthening has five
  parts: a worker outside its loop has no client and nothing pending
  (`OutsideInv`), while a callback runs its event is not pending (`CallbackInv`), a
  connection whose ending is known is closed (`EndingInv`), workers run only under a
  live pool (`PoolInv`), and libevent's handler stays installed from the first
  registration to the first base freed (`DispInv`). Each action has its lemma.
  `OneRaiseStopsOne` is the action property `UnloopStopsOne`: kahanaSockUnloop
  returns only if at most one worker served when it raised the signal. One base takes signals
  (`BaseInv`), none is pending before the joins (`UnraisedInv`), and of two such workers
  one has none pending and never will (`StuckInv`). Assumed: there is a worker, and
  workers, connections, the main thread and the marks for no descriptor are told apart.
- `LogListProofs`: `TypeOK`, `OutputEnds`, `CrashOnlyIfEarly` and `SerialInOrder`, for any
  threads, items and logs. What makes a circle impossible although the threads overwrite each other:
  `Link` writes the `next` of an item that was already in a list, and points it to
  one that is not yet. So the invariant keeps, with the ranges, what each thread's
  place says of its item (`FlightInv`), that `next` always leads to an item that
  was published after the one it leads from (`ChainInv`), and how a `NULL` tail can
  come about (`EarlyInv`). A set of items closed under `next` would have no last
  member in that order, which the library's theorem on least elements refutes. The bound
  on `log->nitem` in `TypeOK` is `TallyInv`: whatever the threads overwrite, the count is
  no more than the items that are past it. `SerialInOrder` says that calls that do not overlap
  lose nothing, and its invariant `SerialInv` says of each place of `_kahanaLogPut` what
  the one call there has done: to the count (`CountedInv`), to both ends
  (`EndsInv`) and to the links (`LinksInv`); `AloneInv` is that there is one.
- `ModuleLoaderProofs`: `TypeOK`, `NoUseAfterFree` and `TableAgrees`, for any names,
  labels, methods and modules. A dangling entry needs a module whose file name is
  not its label (`EntryInv`), a module the table has forgotten needs another that was
  unloaded under its label (`FoundInv`); until the application takes a module's pool
  down itself the table names loaded modules only (`ListedInv`), which is why a lookup touches
  no freed memory; and the table never has more entries than were counted
  (`CountInv`, with the library's facts about finite sets), which is what the array
  of kahanaModuleList relies on. `DownInv` and `NamedInv` are about the times before and
  after.
- `ImageContextProofs`: `TypeOK`, `NoUseAfterFree`, `LeakOnlyByReload` and
  `SizeDescribesImage`, for any contexts, images, files, ratios and lengths. While no two
  contexts have lived together, all live ones are one (`AloneInv`), its image exists
  (`ExistsInv`), and unless an image was loaded over another it is imlib's current
  one (`CurrentInv`): so that freeing the current image frees the right one. That
  offsets are natural numbers needs more than their ranges: a crop's part is no larger than the
  image only because the ratio kept in the context is the one of its size
  (`RatioInv`), by a fact about integer division (`DivBound`). Assumed: sizes and ratios are
  positive, and the null pointer is no image and no size.
- `PartsProofs`, for the parts that move files about. `NothingLeftOpen` from `OpenInv`, what is held or open at
  each place of a call: of a socket at each step of its creation, of an attribute only
  what is in its pool. `PathsAsTold` from `MadeInv`: as far as no other process
  removes anything, what was there is as it was, and at every path up to the one the loop is
  at there is something, which is a directory unless it was a link or another process made it; that making a path never changes what another leads to, unless it led to
  nothing, is an induction over the links followed. `DataAsWritten` from `LoadInv` (what
  was read is a beginning of what the file held when `stat()` saw it, as far as the file
  only grew) and `CmdInv` (each file has what the current run wrote, then what runs
  before it left; the parent's and the child's offsets are the same). `TypeOK` of all parts.
  Before them, in the same module, `ConversionsAsTold`, for any sizes and contents. It has four
  arguments. *Geohashes* (`GeoInv`): the loops, which are recursive functions, are unrolled
  by `LoopExists` and `LoopStays`; the range left after some rounds is a cell of a width that
  halves exactly (`Covers`, `WidthsExist`), and a position set or decoded is in the cell its
  geohash numbers (`EncodedIn`, `DecodedIn`). *Ciphers* (`CipherInv`): a padded text has whole
  blocks and reads as the text again, and no vector made later is one made before.
  *Address ranges* (`CidrInv`, `RangeIs`): swapping bytes twice is nothing, a sum without
  carries swaps to the sum of the swapped (`AddBytes`, `SwappedBytes`), and the bits of the
  host are such a sum (`HostBytes`). *Numbers*: powers of 2 are the numbers of subsets, since
  the provers know no power; quotients by `Divided` and `Divides`. Induction is done by hand
  from the library's theorem on well-founded orders (`Least`, `UpTo`), as statements about
  sets and functions.
- `StringsProofs`: `TypeOK`, `StaysInText`, `GoesForward`, `URIRoundTrip` and `ResultsAsTold`, for
  any patterns, texts and bounds. `IInv` relates the place of a search to the text searched (`PlaceInv`) and
  the count to its limit (`CountInv`), and each lemma about a function shows with it that a
  round went forward (`Goes`). That the pointers leave a text in no other case needs of
  the functions of UTF-8 that they stand where a character begins (`LeadInv`), and of
  kahanaBufStrReplace that with a limit it goes on within what it has just made (`StrayInv`); how far
  kahanaStrRegexpReplace passes the end, and for which patterns, is `OvershootInv`.
  For `URIRoundTrip`, `UriInv` says that the text so far is what the characters so far
  became, each from an offset of its own (`Encodes`). Back from its end, what
  kahanaStrDecodeURI makes from the offset of a character on is that character and all
  after it (`EncodedDecodes`, `EncodesBack`); that its loop comes to anything at all is an
  induction of the same kind (`DecodesEarlier`).
  `ResultsAsTold` (theorem `ReturnsAsTold`) has an invariant for each of its parts.
  *Characters* (`CharInv`): the count so far is that of the characters before the place
  of the search. *Replacements* (`ReplaceInv`): `Subst`, a recursive function, is unrolled
  (`Unrolls`, `SubstIs`) into its values from every offset with every number of words left;
  then, in the middle of a call (`Midway`), the text is what has been replaced and the rest
  of the source, and what has been replaced with what `Subst` makes of that rest is what it makes of
  the whole. A search in the changed text finds what one in the source would find
  (`SameSearch`), and one more word replaced is one step of `Subst` (`MidwayGoesOn`,
  by the algebra of texts cut and joined before it); then each of the four functions is shown to take
  such a step, in its own way of keeping its place. *Pieces* (`PieceInv`): `Gaps` is unrolled
  alike, and each gap so far begins a piece (`Between`); the words kahanaStrDeleteOverlap
  keeps are those that begin before its pointer (`DeleteInv`), of which each round finds
  exactly one more (`OneRun`).
  Assumed: the bounds are numbers, a text may grow beyond what a call is given, and NULL is
  no text and no call.

The assumptions of Parts are the ones its proofs need: positive sizes, bounds that are
numbers, paths that are not names of what can be at one, commands that do not write a NUL
and texts that have none, vectors an application gives that are not the ones the library
makes, and a `Scale` that halves as often as the loops do.

Only model-checked: the liveness properties `SignalledStops`, `UnloopCompletes`,
`WaitingIsAccepted` and `Returns` (fairness and ENABLED are out of TLAPS's reach); and the
three runs that contradict a doc, whose properties are false.

## 6. What is left out, and why

- Server: `kahanaSockUnloop` called from a worker's callback, where it waits for
  its own thread; an error return of `event_base_loop()`; `kahanaSockSetOnErr` and
  its like, which store one pointer. `kahanaSockDestroy` without
  `kahanaSockUnloop`, or with a stale pool, leads to the state "undefined"
  (`MisusePool`) and no further.
- SockSetup: that Linux doubles buffer sizes; `kern` is what was asked for.
- Loader: a failing allocation in the middle of a method lookup, a second
  `kahanaInitilize` over a live library, a failing `apr_pool_create` in
  `kahanaInitilize`.
- Buffer: a padding other than 1 (section 2).
- Image: the files are different ones, so imlib2's cache never returns an image
  twice; a clone that fails for want of memory; a freed address given to another
  image while a live context still points to it. Edits are bounded to one context,
  because the geometry of two contexts never interacts.
- Curl: the process-wide `curl_global_init()` and `curl_global_cleanup()`; messages.
  What a query reads as is compared at any time rather than kept with each URL.
- Logs: the key and the item's strings are made by `apr_pstrdup` in pools the threads
  share too, and `apr_hash_set` may be interrupted half-way: both are APR's, and
  each is one step here. The application's pool is destroyed when no thread logs.
- Strings: compiling and freeing regular expressions; the groups of a match, which
  kahanaStrRegexpMatch and kahanaStrRegexpSplit put into their array behind the word
  and between the pieces (string.c:1484, 1549), so that results are told for patterns
  without groups; path components, numbers, iconv, tables as strings (kahanaStrTable2Str never stores its result). The
  Japanese conversions are dead code: InitJaCharMap never stores its map in
  kahana->jaMap.
- Files: the cache, which is dead code (`_kahanaIOInit` sets `store` to FALSE and nothing
  sets it again); kahanaIOReadDir, which stores into an object through a pointer that
  is NULL; the temporary names, which touch nothing.
- Commands: what follows line 139 of cmd.c is a comment. How a program is found, and
  its arguments and environment, are the caller's and APR's.
- Positions: the values of sines and arcs, what is not a number, rounding, degrees as
  text. Ciphers: base64 and the form `data@vector`; what libmcrypt computes; the text an
  error is told by, so that a failing `mcrypt_module_close()` is a success here. CIDR: reading dotted numbers.
- util.c: digests and random numbers of libraries, no state.
- stock.c cannot be used: its constructor never stores the object, and no item is ever
  given its list, so that there is no behaviour to model. database.c is not compiled.

Two comments differ from the code without a run of their own, because a look at the lines
shows it: kahana_module.h:12 calls kahanaModuleNum the number of loaded modules, but
nothing ever decrements `loader->nmods` (so it is in ModuleLoader, where `TableAgrees`
needs only that it is not too small); and the comment of net.c:42 counts the number behind an
address from the end of its mask, where the shift below it, and `RangeIsNetwork`, count it
from the beginning.

Met on the way, and contradicted by no line of a doc:
the declaration in kahana_cmd.h is of kahanaCmdDestroyAttr while cmd.c defines
kahanaCmdDestroykAttr; a message of the library in `attr->errstr` points into a buffer
that is gone when the run returns; a
cipher in a stream mode encrypts nothing, and a text of whole blocks is copied to
address 0; a full geohash makes `geo->precision` 0; kahanaGeoSetLatLon ignores the
precision it is given unless the datum is WGS84; a CIDR range whose address is not the
first of its network ends at an address of no use.

## 7. Plan

Done: buffer, server, sockets, loader, images, HTTP client, logs, most of strings,
files, commands, paths, positions, ciphers and address ranges; the refinement of the
buffer; the proofs of section 5, which state every safety property of the runs.
What would add most next:

1. `kahanaSockUnloop` from inside a worker, as an action of SockServer, once it is
   told apart from the main thread's in the proofs.
2. The rest of string.c: numbers and path components.
