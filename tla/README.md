# A verification project for cgym

`cgym` downloads one file in pieces ("segments") from several mirrors that run
`cgymd`. This directory holds TLA+ models of the program, configurations that
check them with TLC, and proofs that TLAPS checks. Source lines are quoted as
`file.c:line`; the paths are below `cgym/src`, `cgymd/src` and `libcgym/src`.

## The system

| Part | Files | State it keeps | Operations |
|---|---|---|---|
| download | `cgym/src/get.c` | the entry `e`, the array `segm`, the sets of `select()`, the pointer `serv` into the list of servers | `cgym_get`: entry over a blocking connection, cutting, one connection per segment, `select()` loop in two passes, assembly |
| segment arithmetic | `get.c:72-121` | none | clamping `-n`, segment length, start and stop |
| segments and assembly | `segment.c` | status, start, stop, buffer, socket | set/get, `cgym_segment_done`, `cgym_segment_assemble` with the MD5 check |
| socket layer | `sock.c` | `sockfd`, `state`, `buf`, `pos_recv`, `pos_send` | create, connect, `cgym_recv_handshake`, `cgym_recv`, `cgym_send`, clear, close |
| SIZE and GET | `cgym_get.c` | in the socket | send the request, parse the reply, `cgym_sock_setup` |
| list of servers | `server.c` | an array of pointers ended by NULL | parse `host:port`, `cgym_server_remove` |
| entries | `entry.c`, `misc.c` | name, size, MD5 | from text, to text, compare |
| client's LIST | `cgym/src/list.c`, `cgym_list.c` | one socket | connect, LIST, print |
| command line | `cgym/src/cgym.c` | options | parse, dispatch |
| server | `cgymd.c` | listening socket; per client a buffer and the words of the command | accept, greet, `readline`, command table, send |
| server's files | `cgymd_get.c`, `cgymd_size.c`, `cgymd_list.c` | the working directory of the process | open and read a range, describe a file, walk a directory |
| MD5 | `compute_md5.c` | none | digest of a file |

How they interact: `cgym_get` calls the segment, SIZE/GET and server-list
functions; those call the socket layer, which talks to a `cgymd` over TCP. The
client is one thread; the server starts a thread per client and *joins it*
before the next `accept()` (`cgymd.c:79`), so that it serves one connection at a
time, while each file is opened anew for each request. The shared state is
the stream of each connection and, at a mirror, the file.

What makes it hard:

* *ordering*: connections of several segments, of one or several mirrors,
  progress in any order, and every reply may be cut anywhere. A partial read is
  carried by `pos_recv` and `state` to the next event;
* *stale state*: a finished segment keeps the number of the descriptor it
  closed; the mirror's file may change between SIZE and GET; `*serv` is the
  server to be used next, not the one that answered; in the server, `command`
  keeps the words of the request before, and LIST moves the working directory
  that all later requests are resolved in;
* *partial failure*: a connection is refused or cut, a server has another file
  or none, `socket()` fails; replacement connections, removal from the list; a
  partial `send()` that starts again; a client that leaves in a reply (SIGPIPE); a
  file that `stat()` finds and `fopen()` cannot open, whose MD5 is then never set;
* *interleaving*: a file changes between the `stat()` and the MD5 of a SIZE or of
  an entry of a LIST, or between two entries;
* *deadlock and liveness*: two segments on one serial server; a `select()` that
  has no timeout; a client that stays and says nothing;
* *numbers*: `-n` is an `int` compared with an `unsigned long`, and divides;
  `readline()` counts in a signed `char`.

What makes each part correct: the segments partition the file; a finished
segment is exactly the slice that was asked, of one version; mirrors that hold
another file contribute nothing; the assembled file has the announced digest;
the loop handles only live descriptors; `serv` stays in the list; without
failures the download ends, and delivers. A server answers each request of a
client that speaks the protocol once, in order and whole, with what was true of
its files at one moment; whatever one client does, it does not keep the others
waiting once it leaves. A listing that is printed was true, if the files did not
change under it, and the program that prints it ends.
`PROJECT.json` lists the hazards at
their lines.

## The modules

| Module | Models | Kind |
|---|---|---|
| `CgymSegments` | `get.c:72-121` | operators with the widths of `int` and `unsigned long` as constants |
| `CgymArgs` | `main()` of `cgym.c`, `cgym_server_info_create` | a function from argv to the call it makes, and the usage message as a grammar |
| `MCCgymSegments` | | every short command line, then every `-n` and every size of small machine types |
| `CgymSock` | `sock.c`, the reply parsers of `cgym_get.c` | operators from (segment, connection) to (segment, connection, code) |
| `CgymGet` | `cgym_get()`, the network, the servers as this client sees them | state machine |
| `CgymDownload` | what `cgym_get()` promises | abstract specification |
| `CgymGetProps` | | the properties of `CgymGet`, the inductive invariants `IInv`, `StreamInv` and `Healthy`, the mapping to `CgymDownload` |
| `MCCgymGet` | | small instances |
| `CgymSetup` | `cgym_sock_setup`, `cgym_server_remove` step by step | state machine, properties, invariant |
| `CgymLine` | `readline()` and the words of a line | operators; the widths of `char` and of the buffer are constants |
| `CgymFiles` | names, directories, the reply to a request at one moment | operators |
| `CgymServer` | `main()` of `cgymd.c` from `accept()` on, `client_handler`, `size`, `get`, `list` | state machine |
| `CgymService` | what a server promises | abstract specification |
| `CgymServerProps` | | the properties of `CgymServer`, the mapping to `CgymService` |
| `MCCgymServer` | | small instances |
| `CgymList` | `list.c`, `cgym_list.c`: programs `cgym list` | state machine, composed with `CgymServer` |
| `MCCgymList` | | small instances |
| `CgymSegmentsProofs`, `CgymUsageProofs`, `CgymGetProofs`, `CgymHealthyProofs`, `CgymSetupProofs`, `CgymLineProofs`, `CgymServerProofs`, `CgymListProofs` | | theorems and lemmas |

`CgymSock` and `CgymSegments` are used by all that come after them. `CgymGet`
composes the download with servers reduced to what one file needs; `CgymList`
composes the list programs with the whole server.

### Data

The byte stream is cut into units: a protocol word, an end of line, the
description of a version of the file (the entry), or one of its bytes. A version
is its MD5: versions with equal digests are equal. A unit is what `recv()` never
cuts in the model. Replies are thus cut between words, between an end of
line and what precedes it, and between bytes, which is where the parsers' state
changes; a cut inside a word only lengthens the same wait. The codes 2 (closed)
and 3 (error) of `cgym_recv` are one, since no caller tells them apart.

`MaxLine` stands for `MAX_LINE_LEN + 1`, in units: a SIZE reply is shorter, as it
is in the code (`cgym_get.c:87`).

A request, at the server, is a sequence of symbols: a command, a digit or a
character of a name, `SP` between words, `CR` and `LF` at the end. `checkCommand`
compares the command in upper case (`cgymd.c:89-91`); of the symbols only the upper
case ones are commands, the others stand for words that are none. The server's
splitting of a line works on these, so that an empty name, a double space, an
extra word and a line that is too long are all what they are in the code. A
name that begins with `/` is a path below the home directory. A line of a
listing is one item, of a file with its version or of a directory.

### `CgymGet`: state and actions

`pc` is the place in `cgym_get`: one label per blocking call of the first part
(`connect`, `handshake`, `sizeStatus`, `sizeLine`), `plan` for the cutting and
segment 0, `init` for the loop over the others, then the loop (`loop`, `build`,
`select` inside `build`, `pass`), then `assemble`. The final labels are `exit`
with the code in `ret`, `killed` (SIGPIPE, SIGFPE) and `spin` (an endless loop
in the library).

`segm[k + 1]` is `segm[k]` with the fields of its socket; the two are one record
because the program never gives a segment another socket. `slist` and `serv` are
the list and the pointer into it. `conn[f]` is the connection behind descriptor
`f`; new sockets take the lowest free one, as the kernel does.

The actions: `Connect`, `Handshake`, `ReadSizeStatus`, `ReadSizeLine` for the
blocking part; `DivideByZero`, `InitFirst`, `InitSegment`, `InitDone`;
`Loop` (the `while` condition), `BuildSets` (first pass, one segment),
`Select`, `Pass` (second pass, one segment: `Connecting`, `Sizing`, `Getting`
by state), `PassDone`, `Assemble`. Every early return, error branch and retry of
these lines is a disjunct. `Retry` is the block of six copies that begins
"Incercam sa ne conectam la alt server": as in the code, the new connection is
opened and stays open, and the segment keeps its old socket.

`cgym_sock_setup` is one step here: `Dialled` returns a socket for the server at
`serv`, `SetupFails` is every other end. That this is right (no call ever ends
with the socket of another server) is `OnlyTheFirstChoice` of `CgymSetup`, where
the function and `cgym_server_remove` run step by step.

Around the client: `Establish` and `Refuse` (the end of a non-blocking
`connect()`), `Accept` and `Answer` (a server), `Deliver` and `Drop` (the stream),
`Edit` (a mirror's file is replaced or removed). A server accepts only when it
serves nobody else, answers from the file it has at that moment, and closes after
an ERR. A SIZE is one step here: that a file may change between its `stat()` and
its MD5, or not be opened, is in `CgymServer` only. Code 0 does not rest on it, as
the digest of what was fetched is compared; what is said of versions before
that is said of entries whose size and MD5 are of one version. Requests are kept whole: both programs send them in one call. Once the
client has stopped, nothing else moves.

### `CgymGet` implements `CgymDownload`

`CgymDownload` has four variables: the phase, the entry that was described, the
pieces and the file. It learns once what the file is (`Describe`), fetches each
piece once, from one version (`Fetch`), puts them together and says that it
succeeded only when the file is the one described (`Deliver`), or fails at any
time, leaving at most the first bytes of the pieces (`Fail`). The mapping, in
`CgymGetProps`: the phase comes from `pc` and `ret`; a piece is the buffer of a
finished segment without the end of line the parser leaves there (`Kept`); the
file is `out`. An unfinished segment has an empty piece, whatever it has read.

### `CgymServer`: state and actions

`pc` is the place in the server: `accept`; `send`, the loop around
`cgymd_send()`; `read`, in `readline()`; `exec`, the command table; `md5`, between
the `stat()` and the MD5 of a SIZE; `list`, between two entries of a LIST, or, when
`job.stat` is set, between the `stat()` and the MD5 of one; `dead`.
`job` is the variables of `client_handler()`: the words of the command, what
`stat()` and `readdir()` have found, the messages still to be sent and where it
goes then. As threads are joined at once (`cgymd.c:79`), there is one `job`. `home`
and `moved` say how the home directory was given and whether LIST has left it:
`chdir()` is of the process, so a relative home is not found afterwards.

The actions: `Accept`, `AcceptFails` (`pthread_create()`), `Read` (`readline` and the
words; each word after the fourth is answered with ERR, and the command is run
all the same), `Execute` (`Size`, `Get`, `List`, QUIT, a command left from the
request before, one that is unknown or was never set, arguments that are NULL),
`Md5`, `ListEntry` (`stat()`), `ListMd5`, `ListDone`, `Transmit`, `TransmitPart` (the loop sends the
whole buffer again; the OK of a GET is not completed), `TransmitInVain` (the
client is gone: the message is lost, the plain `send()` fails, or SIGPIPE ends
the server). Around it: `Edit`, and the clients, which `Dial`, `Send` any of their
lines once greeted, and `Leave` at any moment, in the middle of a line too.

Undefined behaviour is a choice: `command` before the first line, the words that
`strtok()` finds past the end of a line that was cut (`CgymLine!Words` gives `past`),
`pthread_join()` of a thread that was not created, and the MD5 of an entry that was
never set: `compute_md5()` returns NULL for a file that `fopen()` does not find or
cannot open (`Unreadable` are the names it cannot open), `entry.c:27` then leaves
the field as it is, and its `strlen()` is taken when the entry is written
(`entry.c:183`). For a SIZE this is in `Md5`. In a LIST the lines are written one by
one while they are sent, so `ListDone` sends either all of them or those before
such an entry, after which the process ends (`after = "abort"`).

`CgymLine` keeps the recursion of the code: `lim[size]` is the value of the `char`
`lim` when `size` bytes are stored, with the wrap of a signed `char`; `HasRoom` is
whether `realloc()` is asked for a non-negative number of bytes.

### `CgymServer` implements `CgymService`

`CgymService` says what a client can count on: served one at a time; one reply to
each request, in order, whole, computed from the files at one moment; closed
only after ERR, QUIT or its own leaving; nobody but an *excused* client can end
the server. `excused` is `spoilt`: the clients that sent a line libcgym would not
send, that left while something could still be sent to them, that got a partial
send, whose thread could not be created, whose file changed under their SIZE
or LIST, or who had the server look at a file that it finds and cannot open.
Those cases are in the model, with all they do to the server and to the
others; only the promise to that one client is lifted. The mapping: `answers` is
what was sent and what is still owed (`job.todo`); a request is answered when its
line was read and the handler is past `exec`, `md5` and `list`; `lost` is a relative
home that was moved from.

`PartNotTaken` is about the excused too: after a partial send, the client's own
parser of `CgymSock` is run on what was sent, and must not take it for the bytes
it asked for. The units are what makes this checkable: a byte of the file that
happens to be CR or LF is a byte, so a file with an end of line exactly where
the reply should end is outside the model (the MD5 of the whole then differs).

### `CgymList`: state and actions

Each program `cgym list DIRECTORY server` has a `pc` per blocking call: `connect`,
`handshake`, `send`, `recv` (one byte, here one unit, at a time, as the code
does), `print`, then `exit` with its status or `killed`. The clients of
`CgymServer` do what these programs do and nothing else. `Stopped` ends the server
from outside at any moment. Two things are histories: `ended`, what ended
`cgym_recv_list_reply`, which its result does not say, and `seen`, the files that
there have been since a program asked: `ListingShown` compares what it prints
with the listings of those (`Listings`), since `cgymd_list.c` reads the directory
entry by entry while others may change it.

### `CgymArgs`

`main(argv)` is the call the program makes. `Readings(argv)` are the calls that
the usage message (`cgym.c:10-11`), read as a grammar, gives the same words.

## What the runs show

| Run | Configuration | Bounds | Shows |
|---|---|---|---|
| `segments` | `MCCgymSegments.cfg` | command lines of up to 6 words; `int` of 4 bits, `unsigned long` of 6; all `-n`, all sizes | the program does what its usage says (`UsageUnderstood`); the cut is a partition (`SegmentsPartition`, `PositiveCountPartitions`) wherever the division is defined and the size is an `int`, and, for a positive `-n`, for every size |
| `get_healthy` | `GetHealthy.cfg` | 3 segments, 2 mirrors that agree, no failure, replies whole or unit by unit | the download ends (`Settles`), delivers when replies come whole (`WholeDelivers`), never leaks a connection then (`NoLeak`), never gives a server up (`NoSpuriousFailure`); `Healthy`, the inductive invariant behind the last two |
| `get_faulty` | `GetFaulty.cfg` | 2 segments, 2 mirrors that may hold another version, none or an empty file; 1 failure, 1 edit | `StreamInv`, `DoneIsOneVersionSlice`, `AssembledMatches`, `MirrorAgrees`, `ReadyFdIsLive`, `DoneIsStable`; the refinement `ImplementsDownload` |
| `setup` | `Setup.cfg` | every list of up to 4 servers, every set that answers | `OnlyTheFirstChoice`, `NoUpServerLost`, `UpServerReturned` |
| `server` | `Server.cfg` | 2 clients, any 2 of 9 lines and 1 of 2; 1 trouble | the refinement `ImplementsService`; `PartNotTaken` |
| `server_live` | `ServerLive.cfg` | 2 clients, 2 of 4 lines and 1; 1 trouble | `EveryoneServed`, `EveryLineRead` |
| `list` | `List.cfg` | 2 programs, 6 directories and 1; 1 trouble | `ListingShown`, `KilledWithCause`, `ServerSurvives`, `EveryListEnds` |
| `get_straggler` | `GetStraggler.cfg` | replies unit by unit | violation of `NeverUnhandled` |
| `get_replacement` | `GetReplacement.cfg` | 1 failure | violation of `ErrorRestarted` |
| `setup_next` | `SetupNext.cfg` | 3 servers | violation of `NextServerTried` |
| `server_names` | `ServerNames.cfg` | 1 client, 1 line | violation of `NamesReadWhole` |
| `list_error` | `ListError.cfg` | as `list` | violation of `ListErrorReported` |

The five violations are disagreements between the code and its own comments:

* `get_straggler`: the SIZE reply is taken for complete at the entry's line, and
  the buffer is cleared with whatever came with it. If the end of line that
  closes the reply arrives later, it is read as the status of the GET; the
  segment is then CONNECTED at the next cycle, which `get.c:211-219` says should
  not happen, and the download returns 2.
* `get_replacement`: an ERR segment "must be restarted" (`get.c:192`); the new
  socket is stored in a local variable only.
* `setup_next`: "trecem la serverul urmator" (`cgym_get.c:359`), but
  `cgym_server_remove` never advances, and does not end unless the removed
  server was the last.

* `server_names`: a name may have `MAX_LINE_LEN` characters (`libcgym.h:7-9`), but
  `readline()` counts in a `char`: after 127 bytes `lim + ADD` is negative,
  `realloc()` fails and the line is taken as it is, cut (`cgymd.c:263-273`).
* `list_error`: "0 la succes, 1 la incomplet, 2 la eroare" (`cgym_list.c:44-47`); when
  the server is stopped in the middle of the list the function returns 0, and a
  part is printed as the whole.

Modelled facts that are not runs of their own:

* a wrong mirror makes `*serv`, not the mirror, be removed; a connection at end of
  file while data is expected is reported by every `select()`, and each turn
  opens one more connection, bounded here by `MaxFd`;
* a name with a space in it is sent as it is and cut into words at the server,
  so that another file may be described; each further word is one ERR more,
  which the client reads as the reply to its next request;
* listing an empty directory kills the list program: the NULL that ends its
  table is stored through a NULL pointer (`cgym_list.c:131`). `KilledWithCause` says
  that nothing else does, while the server lives;
* a client that leaves inside a reply can end the server for everyone
  (SIGPIPE). `ServerSurvives` says that the list programs never do that when they
  ask for names of the protocol; with a name that is cut into words they can;
* a file that `stat()` finds and `fopen()` cannot open may end the server when it is
  asked for by SIZE or is in a directory that is listed (`cgymd_list.c:78`,
  `entry.c:183`). `ServerSurvives` is about directories without one (`Opens`); `list`
  has a program that lists one with such a file too, which `ListingShown`,
  `KilledWithCause` and `EveryListEnds` must stand;
* with a relative home directory, the server finds nothing after its first
  LIST (`cgymd_list.c:45`).

### The bounds, and why they are enough

* Two mirrors and three segments: the third segment shares the first's server,
  which is serial, so it waits for the first to close. Two segments suffice for
  any pair to interleave, one of them finished and its descriptor used again.
* Sizes 3 and 2, and 0: one byte for each segment, and the empty file. The
  lengths that are not 1 are the business of `segments`.
* `MaxFd` leaves room for the segments and two or more replacements, and is
  reached in `get_faulty`: `socket()` then fails, as at the process's limit.
* One failure and one edit: each property speaks of one damaged segment beside
  a sound one; a second failure repeats the first from a state already reached.
* `Deliveries` says whether what is in flight arrives at once or a unit at a time.
* `CHAR_MAX = 15`, `ADD = 4`, `MAX_LINE_LEN = 20`: a `char` of 5 bits instead of 8,
  with the same relations (`LineAssumption`, `CHAR_MAX < MAX_LINE_LEN`): the buffer
  grows several times, wraps, and names of a legal length are longer.
* Two clients, two lines for one of them: one that misbehaves, before or after a
  line that is fine, and one that waits for it. The second line meets the
  `command` of the first, the moved directory, the ERR that closes. What a third
  client would see is what the second one sees.
* `MaxTroubles = 1`: a partial send, an edit, a failing thread or (in `list`) the end
  of the server, each of them at any place; together with clients that leave in
  mid-line, which is not counted.
* In `list`, a home directory with two directories, one that is empty or has two
  files, one with a file that cannot be opened, and one that is missing; in `server`
  such a file in the home directory, asked for by SIZE, GET and LIST: every branch
  of `list()`. The line without a name (`NoName`) is in `server_live` only.
* Command lines of up to 6 words: `get -n N file` with two servers, and every other
  form with words to spare.
* Deadlock is checked in `segments`, `get_healthy`, `get_straggler`, `setup`,
  `setup_next`, `list` and `list_error`. It is not in the runs of `CgymGet` with
  failures: there the program really may stop, its `select()` having no timeout,
  when a connection it waits on is behind a leaked one in a serial server's
  queue; nor in those of `CgymServer`, where it waits in `accept()` or
  `readline()` once its clients have done all that they may do.

### Fairness

`FairSpec` asks for weak fairness of `Network \/ Client` only: as long as the
client can run, or the kernel can carry something, or a server that is free can
accept or answer, some such step happens. That is the scheduling of a machine
that is not stopped and a TCP that works. No failure and no edit is ever forced.
`Setup` has weak fairness of the function's own steps: it is sequential.

`CgymServer`'s `FairSpec` has weak fairness of the server, one sequential process,
and of each client's `Leave`: that a connected client does not stay for ever.
The code has no timeout, so the second is an assumption on the clients, and
without it nobody could be promised anything. It is discharged for the list
programs: `EveryListEnds` holds with weak fairness of the server and of each
program only. For the download `Settles` does it where nothing fails; where
something fails the download may stay, as `get_replacement` shows.

## What is proved

For all values of the constants (any `-n`, sizes, numbers of servers, clients, lines,
of descriptors, of failures and edits), from the assumptions named in the modules:

* `WidthAssumption`: an `unsigned long` is at least as wide as an `unsigned int`;
* `SockAssumption`: a SIZE reply is shorter than a line;
* `GetAssumption`: `-n` is an `int`, sizes fit one;
* `LineAssumption`: the buffer of `readline()` grows by `ADD` symbols, which divides
  `CHAR_MAX + 1`, as 16 divides 128;
* `FilesAssumption`, `ServerAssumption`: the root is a directory; lines and names are
  made of `Symbols`, and a line has no two `/` in a row (`Denoted` takes one away at
  the end of a directory's name, the kernel would take them all); nothing is assumed of
  `Unreadable`;
* `SetupAssumption`: there is a server.

What follows holds for every value of the constants that satisfies them, and TLC
evaluates them in the runs.

* `CgymSegmentsProofs`. `PositiveCount`: with any positive `-n` a non-empty file
  is cut into a balanced partition. `AnyCountPartitions`: the same partition for
  every `-n` but 0 when the size is an `int`. The argument: the clamped count
  `n` is between 1 and the size, so the segment length `q` is positive and
  `n * q <= size`; no product wraps; `Start(k) = k * q`.
* `CgymUsageProofs`. `AnyCommandLineUnderstood`: for a command line of any length and
  any words, the call that `main()` makes is one that the usage message gives these
  words. `AnyDownloadPartitions` joins this to the partition: `-n N get FILE` with a
  positive `N` cuts every non-empty file whole. `RunTypeOK`, `RunUsage`,
  `RunSegmentsPartition` and `RunPositiveCount` are the invariants of the run
  `segments` for machine types of any width.
* `CgymGetProofs`. What each reply parser returns: its types, that it keeps the
  descriptor and the connection, where it leaves `pos_recv`. `Inductive: Spec =>
  []IInv`, and from it `TypeCorrect: Spec => []TypeOK`, `SelectedSegmentsWait: Spec
  => []ReadyFdIsLive` and `DoneSegmentsStay: Spec => DoneIsStable`. Then the content
  of what is read: `RepliesInStep: Spec => []StreamInv`, and from it `DoneSegmentsAreSlices: Spec => []DoneIsOneVersionSlice`,
  `FileIsTheOneDescribed: Spec => []AssembledMatches`,
  `AskedOfAgreeingMirrors: Spec => []MirrorAgrees` and `DownloadImplemented: Spec =>
  ImplementsDownload`: `CgymGet` implements `CgymDownload`.
* `CgymHealthyProofs`, for a download that nothing disturbs (`Undisturbed`: no failure, no
  edit, mirrors that agree). `UndisturbedStaysHealthy: Spec => [](Healthy /\
  HealthyEnd)`, `NothingLeaks: Spec => [](Undisturbed => NoLeak)` and
  `NoFailureOfItsOwn: Spec => [](Ample => NoSpuriousFailure)`.
* `CgymSetupProofs`. `SetupTypeOK: Spec => []TypeOK`, `FirstChoiceOrNone: Spec =>
  []OnlyTheFirstChoice` and `UpServersStay: Spec => NoUpServerLost`, for any number
  of servers.
* `CgymLineProofs`. `LineLimit`: for every width of `char`, `readline()` has room for
  exactly `CHAR_MAX` bytes. And what the splitting into words returns for the
  lines that libcgym sends.
* `CgymServerProofs`. `ServerTypeOK: Spec => []TypeOK`, `ServerUnderstands: Spec =>
  []IInv` and `ServerImplementsService: Spec => ImplementsService`: `CgymServer`
  implements `CgymService`. `PartsNotTaken: Spec => []PartNotTaken`, for any file, range
  and number of partial sends.
* `CgymListProofs`. `ListUnderstood: ListSpec => []ListInv`, and from it
  `ListingIsTrue: ListSpec => []ListingShown`, `KilledForAReason: ListSpec =>
  []KilledWithCause` and `ListServerSurvives: ListSpec => []ServerSurvives`, for any
  number of programs, any paths, files, directories and any number of troubles.

*`IInv`.* `TypeOK` is not inductive. `cgym_recv` asks for `len - pos_recv` bytes, so the
read position must be known to stay below what the *next* call asks for in the
state the socket is left in (`PosOK`); the bytes of the assembled file are units
only if every finished segment has all its bytes and every byte an owner (`SegmOK`,
`Planned`, `OwnerExists`). `ReadyFdIsLive` needs the segments' descriptors to be
distinct (`FdsDistinct`), which holds because a socket gets a *free* descriptor
and no segment is finished while the others are opened (`Stage`); and the sets
given to `select()` to have only descriptors of unfinished, waiting segments
(`FdsWaited`), which `Pass` keeps because it touches one segment and takes its
descriptor out. The proof has one lemma per action, over `Sound(sg, cn)`: the
part of `IInv` that a handler may break half-way, said of any segments and
connections, so that it can follow the buffer through a handler.

*`StreamInv`.* That a finished segment is a slice does not follow from the segment:
it must be known what is still on its connection. `StreamInv` says, for each
state a socket can be in, that what the segment has read followed by what is in
the stream begins the greeting or the reply to what it asked (a failure may have
cut it anywhere), or is something that the parser will not take for a positive
status (ERR, or the end of line that SIZE left behind); that nothing has been sent
while the request is still at the server; that the version in a reply is one
the server held (`Held`); and, as long as no file was edited, that it is the one it holds now and
the one first described. It is carried through each parser
(a parser reads a prefix of the reply and leaves the state that
awaits the rest), then through each thing the network does, deliveries, cuts,
drops and answers, and each action of the client.
`MirrorAgrees` in the states where the program has stopped needs one more fact,
that a finished segment has nothing left to ask.

*`Healthy`.* It says of an undisturbed download that the list of servers is whole, that no
connection ends before it is closed or has a request for bytes that the file
does not have (`Steady`), and that no segment is in ERR. When replies come whole,
a segment waits for a message of which all is there or nothing (`OnePiece`), so
that no parser stops in the middle, and every open descriptor is that of an
unfinished segment: this is `NoLeak`. When they come in pieces, the
end of line of the SIZE reply may arrive late (the straggler of `get_straggler`);
`Retry` then opens a connection that nobody uses. But the segment is left
CONNECTED, a state in which it is never selected again, so it opens no second one:
the open descriptors are at most the segments and those that are `Stuck`. Two
descriptors for each segment are thus enough, which is what `Ample` asks, and
`socket()` never fails. `Ample` is not a convenience: without a byte to fetch the
division by zero ends the program, and without a descriptor it stays in the loop
of `cgym_server_remove`. The theorems hold for both `ConnectModes` of the run and for
`"greeted"`, which the run leaves out.

*The refinement.* Each action of `CgymGet` maps to one of `CgymDownload` or to a
stutter: `ReadSizeLine` to `Describe` (with `StreamInv` for the version), the step
of `Pass` that finishes a segment to `Fetch` (`DoneIsOneVersionSlice` after it),
`Assemble` to `Deliver` or `Fail`, every other end to `Fail`. `Written` speaks of the
pieces one by one, `out` of the bytes by their owners: the two agree as each byte
has one owner only (`OwnerIs`), which is the partition of `CgymSegmentsProofs`.

*`CgymSetup`.* The invariant says that the place `curr` holds the caller's choice or
nobody until a removal begins (`Choice`), that a socket is for that place
(`Socket`), and that what a removal overwrites does not answer or is in the next
place as well (`Overwritten`).

*`CgymServer`.* The refinement needs to know that what a client is owed is what it
asked. `IInv` is `Base`, the types and what `job` may hold at each `pc`, and
`Understands`: for each client that is not excused, what is still unread is
exactly its lines after those that were read; and the command and arguments in
`job` are those of the line being answered, with what `stat()` and `readdir()` have
returned up to now still true of the files (`StillThere`: a file that `stat()` has found
is there, and can be opened, until its MD5 is computed). That `Execute` answers what was sent
rests on `CgymLineProofs`: a line of the protocol (`Speaks`) is shorter than what
`readline()` takes, and the words cut out of it are the command, the name and the
numbers that were put into it. Each action then maps to one of `CgymService` or to a
stutter: `Accept` to a greeting, `Execute`, `Md5` and `ListDone` to one whole reply,
`Transmit` and `TransmitPart` to nothing.

*`PartNotTaken`.* It is about what was sent, and says nothing of how the server gets
there: after a message that was torn, the same message is sent again from its
start, and what the client reads then depends on how many units came before. The
lemmas on the parser (`ReplyTaken`, `NoneMistaken`) reduce it to the units sent: a
positive result needs OK and an end of line at the places 3 and 4 and, for `n` bytes,
an end of line at the place `n + 5`. So what was sent is `TooFew` for a reply, or
`Amiss` at one of these places, or `Complete`; the last two stay whatever follows
(`DecidedStays`). `PartInv` says that this is so for every client, and for the one that
is served what makes it stay so (`Stage`): its greeting was torn, and then it is never
taken for one; or it was greeted and its first line, a GET, takes its `Course`: unread
at the front of `in`, then the command in `job`, then ERR or the rest of the reply to be sent,
with what was already sent (`Sends`). The case that matters is a slice that was
torn: no byte of it is an end of line, so of the second copy some byte
stands at the place `n + 5` (`SendsPart`, `SendsWhole`). This needs the bytes of the first line
only: what later lines are answered with comes after a reply that is decided.

*`CgymList`.* While the server runs, what the programs and the server do are steps of
`CgymServer`, so that `IInv` and the refinement are used as they are; `Stopped` ends
the server, a step that `CgymServer` alone does not have, and of what `IInv` says only
`Base` is left, with what was sent so far. `ListInv` says of each program that is not
excused that there is a reply `R` (none yet, ERR, or the whole listing of one of the
states in `seen`) such that what was sent and what is owed are the greeting and `R`
(`Story`; once the server has ended, what was sent is a prefix of them), and that
the program stands at a place of that reply (`Reads`): at its beginning, after the
status, before or after the item `k + 1` with the first `k` items in its table, or
with the whole of it read. A step of the server makes the reply of a program
that had none, or keeps it (`Onward`): this is the step of `CgymService` that the
refinement gives. A step of a program takes the next unit of `R`; what it does with
it (`Reaction`) is the next place. That the end of file comes before the end of
the reply only when the server has ended (`EofAfterReply`) rests on: it closes a
connection only after ERR, and then nothing is owed. `ServerSurvives` needs that
nobody becomes excused without trouble. The server excuses a program only when it
looks at a file it cannot open; what it looks at is in the directory that the
program has asked for (`NeverBalks`). And a program that leaves has either
been greeted and asked nothing, or has the whole of its reply, and in both cases
the server is in `readline()` or has closed (`GreetedSettled`, `RepliedSettled`,
from `Attended`: who was accepted is served or closed).

*Recursion.* `Words`, `lim` and the listing are recursive functions. The library's
induction theorems cannot be instantiated by the installed provers; the proofs use
an induction over a *set* of numbers instead (`NatSetInduction`: a set that holds 0
and the successor of each of its members holds all), which is first-order.

Only model-checked: every liveness property (out of the prover's reach). Every safety
invariant and action property that a passing run checks is also a theorem.

## What is not modelled

* MD5 (`compute_md5.c`): an external library behind the reading of a file. That
  the file is opened when it is called, and that it returns NULL when it cannot be,
  is modelled.
* Why `fopen()` fails: a name is in `Unreadable` for the whole run, or the file is not
  there. A server without descriptors, where any file cannot be opened, and
  permissions that change are left out. The string of an MD5 that was never set
  is one that has no end of line in it and fits the client's buffer: `CgymList`
  takes it for a field, or for none (`Receive`).
* The text form of entries and the name of the output file (`entry.c`, `misc.c`):
  an entry is the version it describes. Two details are lost with it: `list.c`
  is given `type[0] == 'd'` where `entry.c` has an enumeration, and the comment of
  `cgymd_list.c:13-17`, by which the first element of the list is the one that was
  asked for, though `add_entry` prepends.
* The set-up of the listening socket and the options of the server
  (`cgymd.c:27-66`): straight calls before anything can go wrong between two
  actors.
* A `socket()` that fails and later succeeds: in `CgymGet` and `CgymSetup` it fails
  for good once it fails, and `cgym_sock_setup` then loops.
* Out-of-band data, failures of `malloc` (code 8), a SIZE of a directory
  (code 5), numbers out of the range of an `unsigned long`, a listed line longer
  than the 1024 bytes of its buffer.
* The descriptor that `get()` of the server does not close when the file is
  shorter than the range (`cgymd_get.c:57`): it needs a bound on the server's
  descriptors, and a client that asks for bytes beyond the size it was told.
* QUIT, as sent by the client: no program of the repository does. The server's
  side of it is modelled.
* The Eclipse build files.

Hazards that no property covers, with the reason in `PROJECT.json`: the repeated
end of file of `cgym_get.c:299`, the endless loop of `cgym_get.c:338` without a server,
the server that `get.c:349` removes (`*serv`, not the one that disagrees), a server
whose port is no number (`cgym.c:66`) and the descriptor above. Others are covered in
part, and have a note there: what the server does to a client that is excused is
in the model and promised nothing; `ImplementsService` then speaks of the others.

## What is left

* A server and a download composed directly. The servers inside `CgymGet` answer
  as `CgymService` does, restricted to one file; this correspondence is by reading.

## Running

    tlc -workers 2 -config GetFaulty.cfg MCCgymGet
    tlc -workers 2 -config Server.cfg MCCgymServer
    tlapm CgymListProofs.tla
