# A verification project for fa22-csf and the segmentation exam

The repository holds the programs of a systems course and one Java exam. Five of
them have state worth a specification: a **multithreaded chat server with its two
clients** (`src/hw5`), a **parallel merge sort over processes** (`src/hw4`), a
**cache simulator** (`src/hw3`), **fixed point numbers** (`src/hw1`), and **image
segmentation over a union-find raster** (`src/final-starter`). The chat system is
the largest and the only one with shared state, locks, sockets and failing peers;
it comes first here.

This directory holds TLA+ modules translated from that source, TLC configurations
that check them on small instances, and TLAPS proofs of what matters most about
them for every size. `PROJECT.json` names, for every definition, the lines it was
translated from; for every property, a plausible bug that it catches.

    tlc -workers 2 -config ChatServer_chat.cfg MCChatServer     # one run
    tlapm ChatProofs.tla                         # one proof module

## 1. Inventory

### Chat system (`src/hw5`)

| part | code | state it keeps | operations |
|---|---|---|---|
| message queue | `message_queue.cpp`, `guard.h` | deque, mutex, semaphore | `enqueue`, `dequeue` (waits one second at most) |
| room | `room.cpp` | set of `User*`, mutex | `add_member`, `remove_member`, `broadcast_message` |
| server | `server.cpp`, `user.h`, `server_main.cpp` | map of rooms and its mutex, listening socket, one thread per connection, each user's room and queue | accept loop, login, `chat_with_sender`, `chat_with_receiver`, `find_or_create_room` |
| connection | `connection.cpp`, `message.h`, `csapp.c` (rio, open_*fd) | descriptor, rio buffer, last result | `connect`, `send`, `receive`, `close` |
| clients | `sender.cpp`, `receiver.cpp` | one connection, last reply | log in, command loop / join, delivery loop |

How they interact. A client's line goes through a socket to the one worker that
reads that connection. A sender's worker looks its room up (server mutex), joins
it (room mutex), and broadcasts: it holds the room's mutex and enqueues into one
member's queue after the other (queue mutex, semaphore). A receiver's worker takes
messages from its own user's queue and writes them to its client. Locks are taken
in the order room, queue; the server's mutex is held alone.

What is hard: every worker runs concurrently with every other; a client may close
or reset its connection at any point; a write to a closed peer succeeds once; a
read error is reported as success with an uninitialized buffer
(`connection.cpp:76`); a thread may fail to start; a request path may use a pointer
that was never set (`server.cpp:70`). Correct means: only members of a room get its
messages, each sender's in order, none twice; a queue never hands out what was not
put in it; nobody keeps a lock; a receiver that stays gets everything; one that went
is forgotten; client and worker stay in step.

### Parallel merge sort (`src/hw4/parsort.c`, `is_sorted.c`)

State: one file mapped shared into a tree of processes; every process's private
array and exit status. `merge_sort` forks a process for each half, waits for both,
merges and copies back. Hard: `fork` may fail, a process may die anywhere, an error
must reach the exit status of the program through every level, and only the waits
keep two processes off one part of the file.

### Cache simulator (`src/hw3/csim.cpp`, `helper_functions.cpp`)

State: sets of blocks with tag, valid and dirty flag and time stamp; six counters.
One operation, a line of the trace, in six legal modes. Hard: LRU and FIFO rest on
time stamps kept in two places, write-back on a flag set in several branches.

### Fixed point numbers (`src/hw1/fixedpoint.c`)

Values only: whole and fraction in a 64 bit word each, and a tag. Add, subtract,
negate, halve, double, compare, parse, print. Hard: carries and borrows between the
words, overflow found by wrap-around, zero with a sign, padding of fractions.

### Segmentation and labelling (`src/final-starter`)

`RasterUnionFind` keeps a forest over the pixels and a count of its trees;
`ImageRegions` unites similar neighbours in one pass and prints the labels;
`ImageSegmentation` runs Kruskal's algorithm over a priority queue of edges down to
a wanted number of regions and paints each in one colour. Hard: labels that meet late
in the pass, ties in the queue, a count kept apart from the trees.

### Not modelled

Image files and printing (`ImageUtility` but for `distance` and `average`, `Demo`),
the data generator, an earlier cache simulator (`old.cpp`) that the Makefile does not
build into `csim`, unit tests and the test framework (read for what they expect),
scripts, build files, vendored jars: they are I/O around a loop, or no part of the
programs.

## 2. Modules

| module | stands for | relation to the others |
|---|---|---|
| `FifoQueue` | what a message queue promises | abstract |
| `MessageQueue` | `message_queue.cpp`, `guard.h` | implements `FifoQueue` (`FifoSpec`) |
| `AtomicRoom` | what a room promises | abstract |
| `Delivery` | whom a broadcast reaches (`room.cpp:33-37`) | used by `AtomicRoom`, `ChatServer` |
| `Room` | `room.cpp`, its callers in `server.cpp` | implements `AtomicRoom` (`AtomicSpec`) |
| `Directory` | what `find_or_create_room` promises | abstract |
| `RoomDirectory` | `server.cpp:256-267`, the map of rooms and its mutex | implements `Directory` (`DirectorySpec`) |
| `ChatServer` | `server.cpp` | uses rooms, queues and the map as these abstractions |
| `Connection` | `connection.cpp`, rio in `csapp.c` | one direction of one socket |
| `Session` | `sender.cpp`, `receiver.cpp`, composed with the server | extends `ChatServer` and implements it (`ServerSpec`); uses lines as `Connection` delivers them |
| `ParSort` | `parsort.c`, `is_sorted.c` | |
| `CachePolicy` | LRU and FIFO as a list of blocks per set | abstract |
| `CacheSim` | `csim.cpp`, `helper_functions.cpp` | implements `CachePolicy` (`PolicySpec`) |
| `FixedPoint` | `fixedpoint.c` | |
| `Raster` | pixel numbers, neighbours, parents | used by the next three |
| `Picture` | the colours of an image and their distance (`ImageUtility.java`) | shared by the two programs |
| `DisjointSets` | the interface `UnionFind.java` | abstract |
| `RasterUnionFind` | `RasterUnionFind.java` | implements `DisjointSets` (`SetsSpec`) |
| `Components` | connected components by definition | the reference for the two programs |
| `Labelling` | `ImageRegions.java` | drives `RasterUnionFind` call by call |
| `Segmentation` | `ImageSegmentation.java` | uses the labels of `DisjointSets` |
| `*Proofs` | theorems about the module of that name; those of `ChatServer` and `Session` are in `ChatProofs`, those of `RoomDirectory` in `RoomProofs`, those of `RasterUnionFind`, `Labelling` and `Segmentation` in `ImageProofs` | |
| `MC*` | who takes part in an instance | |

How the large ones correspond to the code:

**MessageQueue.** A step is one operation on shared state: lock, `push_back`,
`sem_post`, `sem_timedwait` (success or timeout), `front`/`pop_front`, unlock. A
dequeue between its wait and its pop is a *claimer*. `front()` of an empty deque
returns `Garbage`; that no run meets it is part of `IInv`.

**Room.** The walk of `broadcast_message` over the live `std::set` is one step per
member, in any order. The abstract broadcast happens when the mutex is taken; what the walk
still owes a member counts as queued already (`QueueBar`). Dequeues run beside it.

**RoomDirectory.** A worker calls, locks, looks its name up, makes a room, and inserts
it: an insert into the `std::map` finds the place (`Place`) and then links the node
(`Link`), so that two of them without the mutex would make two rooms of one name.
The result is there before the guard unlocks.

**ChatServer.** `pc` is where a worker is: `login`, `delete` (an invalid login), `request`,
`find`, `add`, `broadcast`, `leave`, `quit` for a sender; `join`, `find`, `add`, `loop`,
`deliver`, `remove` for a receiver. A method of a room, a queue or the map is one step,
which `Room`, `MessageQueue` and `RoomDirectory` justify. A client's line and the reading of
it are one step: nobody else reads the socket. `peer` is the client's end: `open`, `closed`
(the first write to it still succeeds), `reset` (the next read is an error, taken for
success), `gone`. `fds` are the descriptors the server holds: a sender's is given back when
it quits, at the end of `chat_with_sender`; a receiver's never is. `AcceptFails` is the
wrapper `Accept`, which ends the process.

**Connection.** A line is a sequence of characters that know their message and their place
in it (0 for the newline);
`Write` writes a prefix of any length that the socket has room for (`SocketSize`) and
waits otherwise, `Refill` reads one of any length up to `RIO_BUFSIZE`, `TakeChar` is
the loop of `rio_readlineb`. Either end may close at any point, in mid-line too: a
write that nobody will read is taken and lost, or fails and gives up the rest
(`WriteToNobody`). The length limit is the code's: `MAX_LEN - 1` characters and a NUL.
`new_msg` is the buffer that `receive` declares without a value. After a read error
(`ReadError`) it is taken for a line as it is: the characters received so far, and behind
them nothing, a byte of no message (`Stray`), or what the line before left on the stack
(`Uninitialized`). The history `received` tells how many characters of each request were
received for it, so that the properties can tell them from what was merely lying there.

**Session.** The server and its clients as one system. A step of a worker is a step of
`ChatServer` together with the lines it reads (`requests`) and writes (`replies`); what
`ChatServer` lets a client do at will, the two programs here do line by line. `prog` is where
a program is: a sender at its prompt or waiting for its reply, a receiver joining or
listening. The server may start late, fail to bind, and die (`ServerDies`: a failed
`accept`, or one of the aborts of section 6); a program may find no server, be killed, or end
on an empty line. What is typed is a kind of line: a `text` that fits both ways, one too
long as a delivery (`wide`), one too long as a request (`long`), the commands. A line
that was cut arrives as itself and its tail, and the tail is looked at for a tag like any
line: that of a request may begin like any command, and is carried out as one (`Tails`), that
of a delivery may begin like a delivery, and is printed as one (`AsDelivery`), or either like
neither (`rest`). So a worker may make more requests than were typed, or quit while its
program goes on (`Deserted`, `WorkerQuits`).

**ParSort.** A process is its path in the call tree. `Fork` may fail and `Dies` may happen
anywhere, `MaxFailures` times in all; so may opening and mapping the file (`Map`) and
unmapping it (`Unmap`), which comes when it is sorted. `begin` and `end` are variables, set for
a child when it is forked. `merge` and the copy back are one step per element, so that a
process can die in them. The library's `qsort` sorts in place, in an order that is its own:
between its call (`CallQsort`) and its return (`Qsort`) any number of `QsortMoves` put any of
the part's elements at any of its places, so that a process that dies there leaves some values
twice and others nowhere. When it returns the part is a rearrangement in order of what it was.

**CacheSim.** One line of the trace is a step. `Init` lets through exactly the
arguments that `validate_input` does. `trace` and `stale` are history: the blocks
with a store that memory lacks.

**FixedPoint.** A word is `Digits` digits of base `Base`; arithmetic wraps. One
value is kept and every call made on it, with every valid argument, and remembered in
`call` with its result, so that an invariant speaks about every call.

**Labelling.** `labelRegions` and `printLabels` choose the calls; the steps of
`find` and `union` are those of `RasterUnionFind` itself. `LabelSpec` implies
`Spec` of that module, so what is proved there holds in the program.

**Segmentation.** The priority queue is a set from which `poll` takes any lightest
edge, and `joined` remembers those whose union merged two regions. A region is known by the
label that `find` returns (`region`) and `count()` is `regionCount`; a union changes both as
`RasterUnionFind` does, which `RasterImplementsUnionFind` justifies.

## 3. Runs

TLC finds no error in any run but `chat_leak`, which is a disagreement (section 6).

| run | instance | distinct states | shows |
|---|---|---|---|
| `message_queue` | 2 producers of 3 messages, 1 consumer | 8,830 | mutex, semaphore and deque agree; implements a FIFO; every message is popped |
| `room` | 2 senders, 2 receivers, one person twice | 146,276 | the walk sees one set; broadcasts are atomic; the mutex is given back |
| `chat` | 2 senders, 1 receiver under a sender's name, 1 stranger, 2 rooms, 3 lines each, 4 descriptors, 3 threads | 4,086,599 | right room and no unset room used, rooms and users agree, order kept |
| `chat_leak` | 1 sender, 1 receiver, 2 descriptors | (violation) | a removed receiver keeps its descriptor |
| `room_directory` | 3 workers, 2 names, 3 rooms | 218,452 | a name has one room, and every caller gets it |
| `connection` | 3 lines of 2 to 6 characters, limit 4, buffer 3, socket 8 | 367,558 | a line that fits arrives whole, in order, and is read; no character is received twice, nor made up but at a read error; a send returns; `ConnectionIInv` (section 5) |
| `session` | a sender and a receiver with their server, 2 rooms, 2 typed lines, each of which may arrive as two | 304,816 | client and worker in step; every line answered; every text heard, in order; who is gone is removed; implements `ChatServer` |
| `parsort` | 6 elements, threshold 2, 7 processes, 2 failures | 58,840 | no race; status 0 means sorted; values are lost only in parts left unfinished; orphans explained; everyone ends |
| `cache` | 2 sets of 2 blocks, 5 addresses, 5 lines, 6 modes | 666,666 | time stamps implement LRU and FIFO; stack distances; no store lost or written back twice |
| `segmentation` | 6 pixels, 3 colours | 1,310,750 | minimum spanning forest; number of regions; one colour each |
| `labelling` | 9 pixels, 3 colours, every image | 1,443,697 | forest, disjoint sets, labels are the components seen so far |
| `fixedpoint` | words of 3 bits, every pair of values | 52,153 | results exact or flagged; compare; parse and print inverse |

Why the bounds are enough:

* `message_queue`: with one more producer than consumer, a post, a claim and a pop
  of three calls overlap in every order; three messages let the deque grow while a
  claim is pending. `QueueInvariant` and `QueueRefinesFifo` remove the bound, and
  allow several consumers.
* `room`: two walkers and a leaver compete for the mutex; the two logins of one
  person exercise the name filter. Proved for any users.
* `chat`: with three lines a sender can join, leave and join another room, or join,
  send and quit, against a receiver of its own name and one more sender. Four
  connections reach the limit of four descriptors, and the fourth worker finds no
  thread left. The symmetry is in the names of the rooms; no liveness is checked with it.
  All four properties are proved for any clients.
* `room_directory`: two workers contend for one name while a third makes the other
  room, or all three contend for one. Three objects are enough for the two names and, if
  the mutex were forgotten, for a second room of one name. Proved for any workers.
* `connection`: three lines of up to 6 characters do not fit a socket of 8, so that a writer
  waits in the middle of one. With a limit of 4, lines of 2 to 6 characters are below, at,
  one and several above it; the buffer of 3 is refilled inside a line. Only these
  comparisons occur in the code. All three invariants are proved for any sizes.
* `session`: two lines are up to four requests. A join and a text that is cut, with a tail
  that is a text, a leave, a quit or another join; or a text that is cut, whose tail is a
  join, and then a text, for which the late reply to that tail is taken. So a text that is cut
  as a delivery, one that fits and the tails of both meet at a receiver.
  The receiver's room is one of two, so that a sender may be in the other. `MaxLines` of 5 is
  all that a worker can read: two lines, the tails of two that are cut, and a read error.
  More clients at once are `chat`'s question; a step of `Session` is proved to be one of
  `ChatServer` for any number, and so are `InStep` and `HeardInOrder`.
* `parsort`: halves of three are split again, unevenly; two failures can hit a
  process in its sort and its parent, the same level twice, or one process and the final unmapping. The four invariants are
  proved for any file, threshold and number of failures.
* `cache`: three of the five addresses are in one set of two, so that there is an
  eviction, a return of the evicted and another eviction within five lines; one
  address is no multiple of the block size. All three properties are proved for any cache.
* `segmentation`: six pixels have cycles with ties; every image but those whose
  corners are equal. Wishes of 2 and 6: inside the range and as many as pixels. All four
  properties are proved for any image and any wish.
* `labelling`: a pixel in the middle has all four neighbours; three colours are
  the smallest number for which similarity is not transitive. Proved for any image.
* `fixedpoint`: the code's constants are 16 digits of base 16; it uses nothing of
  them but that the base is even and arithmetic wraps. Texts have every
  length up to one digit too many. All three properties are proved for any even base up to
  16, which is as many digits as there are, and any number of digits in a word.

`CHECK_DEADLOCK FALSE` is set where the program may really stop: clients that sent their
last line, a server that ended, a connection closed and read to its end, a sort that is
done, a trace at its last line, an image that is painted. In `message_queue` (the consumer
polls for ever), `room` (members may always come and go), `room_directory` (workers call
again) and `fixedpoint` a deadlock would be an error, and TLC looks for it.

The properties, by what they are about:

* *shared state*: `IInv` of `MessageQueue` (the deque is as long as the semaphore
  says, less those who have claimed) and of `Room`; `WalkStable` (nobody changes the
  set under a walk); `RaceFree` (no two processes on one part of the file).
* *implements*: `FifoSpec`, `AtomicSpec`, `DirectorySpec`, `ServerSpec`, `SetsSpec`,
  `PolicySpec`.
* *two records of one fact*: `Membership` (users and rooms), `CacheInv` (dirty flags
  and what memory lacks), `IInv` of `RasterUnionFind` (count and trees), `PassInv`
  (labels and components), `InStep` (what a client waits for and what is under way).
* *order*: `InOrder`, `InSequence`, `HeardInOrder`.
* *failure*: `RightRoom` under garbage requests (with it, no room that was never set is
  used), `InSequence` and `HeardInOrder` under read errors and cut lines, `GoneIsRemoved`, `FitsArrivesWhole` next to lines that do not fit, `StatusHonest`,
  `NothingLost`, `OrphansExplained`.
* *in the end*: `EventuallyPopped`, `LockReleased`, `WrittenIsRead`,
  `Answered`, `EveryTextHeard`, `EveryoneEnds`.
* *results*: `StackDistance`, `MinimumForest`, `RegionsAtEnd`, `OneColourEach`,
  `ArithmeticExact`, `ComparesNumbers`, `RoundTrip`; each compares the code with a
  definition that knows nothing of its data structures.

## 4. Fairness, and why the code justifies it

Fairness is weak and is asked only of threads and processes that can go on by
themselves; nothing has to fail, and no client has to do anything.

* `MessageQueue`: a call of `enqueue` once begun goes on, and the consumer's
  loop goes on (`while(1)` in `chat_with_receiver`). The mutex needs no strong fairness for
  `EventuallyPopped`, because producers send a bounded number of messages; with
  unbounded senders a mutex that lets no one overtake for ever would be needed.
* `Room`: `LockReleased` asks only that the holder's own critical section goes on.
  It contains no wait but that for a queue's mutex, which `MessageQueue` shows to be free again.
* `ChatServer`: `Handler(c)`, what a worker does without its client. Reading a
  request, accepting, closing and failing are never forced.
* `Connection`: a write that can go on, or fail, does (`Write \/ WriteToNobody`), and so
  does the reader (`Receive`): loops that run until they are done. Neither end has to send
  or close; a write that waits for room in the socket is not enabled.
* `Session`: for each client, its program, its worker, and the `accept` of its
  connection (one `while` loop, and as many connections as clients). The user need not type,
  the server need not start, nobody has to die, and `accept` has to fail for nobody.
* `ParSort`: every process that can run does, `main` before and after the sort
  included (`Map`, `Unmap`); a process waiting for a child cannot. `qsort` returns: fairness is
  asked of `Proc(p)`, which has its return and not its moves. Nothing has to fail.

`RasterUnionFind`, `Labelling`, `Segmentation`, `CacheSim` and `FixedPoint` are
sequential and have safety properties only.

## 5. What is proved

All theorems hold for every value of the constants that satisfies the named
assumptions of the module; none is assumed that the code does not give (distinct
threads, a finite set of consumers, `Nothing` is no message, a raster has pixels).

| theorem | says | argument |
|---|---|---|
| `QueueInvariant` | `[]IInv` of `MessageQueue` | below |
| `QueueRefinesFifo` | `Spec => FifoSpec` | from `IInv`, a step at a time |
| `RoomInvariant` | `[]IInv` of `Room` | below |
| `RoomWalkStable` | `Spec => WalkStable` | from `LockInv`: who inserts or erases holds the mutex the walk holds |
| `RoomRefinesAtomic` | `Spec => AtomicSpec` | from `LockInv`; `BcastLock` is the broadcast |
| `ServerTypeOK`, `ServerRightRoom`, `ServerMembership` | `[]` of that property of `ChatServer` | from its `IInv` |
| `ServerInOrder` | `[]InOrder` of `ChatServer` | from `OrderInv`, below |
| `DirectoryInvariant`, `DirectoryRefines` | `[]LookupInv` of `RoomDirectory`; `LookupSpec => DirectorySpec` | below |
| `SessionImplementsServer` | `Session` behaves as `ChatServer` for any clients | a step at a time |
| `SessionInStep` | `[]InStep` of `Session` | from `SessionIInv`, below |
| `SessionHeardInOrder` | `[]HeardInOrder` of `Session` | from `HeardIInv`, below |
| `ConnectionInvariant` | `[]ConnectionIInv` of `Connection` | below |
| `ConnectionFits`, `ConnectionOrder`, `ConnectionTypeOK` | `[]` of `FitsArrivesWhole`, `InSequence`, `TypeOK` | from `ConnectionIInv` |
| `SortInvariant` | `[]SortIInv` of `ParSort` | below |
| `SortRaceFree`, `SortStatusHonest`, `SortNothingLost`, `SortOrphansExplained` | `[]` of that property of `ParSort` | from `SortIInv` |
| `UnionFindInvariant` | `[]IInv` of `RasterUnionFind` | below |
| `RasterImplementsUnionFind` | `Spec => SetsSpec` | from `LabelInv` and `CallInv` |
| `LabellingKeepsForest`, `LabellingOverSets` | the same of `LabelSpec` | `LabelSpec => Spec` (`ProgramOnlyCalls`) |
| `LabellingPass` | `[]PassInv` of `Labelling` | from `PassIInv`, below |
| `KruskalForest` | `[]ForestInv` of `Segmentation` | from `KruskalIInv`, below |
| `KruskalLeast` | `[]MinimumForest` of `Segmentation` | from `KruskalIInv`, by counting edges and parts |
| `KruskalStops` | `[]RegionsAtEnd` of `Segmentation` | from `KruskalIInv`; the grid is connected |
| `KruskalPaints` | `[]OneColourEach` of `Segmentation` | from `KruskalIInv` |
| `CacheInvariant` | `[]CacheInv` of `CacheSim` | from `CacheIInv`, below |
| `CacheStackDistance` | `[]StackDistance` of `CacheSim` | from `StackIInv`, below |
| `CacheImplementsPolicy` | `Spec => PolicySpec` of `CacheSim` | from `CacheIInv`; ages are places in the line |
| `FixedArithmetic`, `FixedCompare`, `FixedRoundTrip` | `[]` of `ArithmeticExact`, `ComparesNumbers`, `RoundTrip` | from what each function returns, below |

**Message queue.** `SemCount` alone, `Len(m_messages) = m_avail + claimers + (1 if a
post is pending)`, gives a pop its message, since a thread that pops is a claimer and
`m_avail` is a natural number. It is not inductive: that a post makes up for the one
push still open needs that no other producer is between push and post, which is
`LockInv` (the holder of the mutex is exactly who is in a critical section), and the
types of the variables. `IInv` is the three together. For the refinement, the abstract
queue is the deque without a message that is pushed and not posted (`Announced`); an
abstract claim is `DeqWait`; `GiveUp` is the timeout, which `SemCount` shows to
happen only when every announced message is claimed. No producer's message can
overtake, since push and post are under one mutex.

**Room.** `IInv` is types, `LockInv` and `MembersMatch` (a sender whose `users_room` is this
room is in its set). In the refinement `BcastLock` is the broadcast and each `Walk` a
stutter: it moves a message from what is owed to the queue. That the owed message comes last
in the queue needs that no other walk runs, and that every member is owed it needs that the
set is the same from first to last; both are `LockInv`.

**Room directory.** Who is between `Lock` and `Leave` holds the mutex, so that what a worker
saw when it looked is still so when it links: its name has no room, and its new room is
under no other name. Every room that was made is under its name or in the hands of that
worker. The abstract `Find` is the step that finds the name or links its node.

**Chat server.** `RightRoom` and `Membership` are not inductive.
`ReceiverInv(c)` adds what the worker's place implies about its room variable: it is
unset until `find` has run; at `add` it is the room asked for, which is in the map;
at `remove` the client is gone. And that everything queued, in hand or delivered is
*hearable*, of the room and not under the user's own name. `SenderInv` says at
which places `users_room` is set. The step lemmas follow the code: `Find`,
`AddMember`, `Broadcast`, leaving, the delivery loop, and one lemma for the steps
that touch only `pc` and the connection (`ControlPreserves`).

**Order.** That a receiver has heard ascending texts says nothing of what it will hear.
`InSeries` takes what it was delivered, the message in its worker's hand and its queue as
one series, and asks that the texts of each sender ascend in it; `Issued` that none in it is
above the number of texts its sender has sent, and all are below the one still in the
sender's hand. A broadcast then appends a text that is above all of its sender's; a dequeue
and a delivery move the border inside the series; no other step changes it (`QueueStep`,
`TextsStep`).

**Session.** Each step is one of `ChatServer` or leaves its variables alone, so the
invariant of the server holds, and every theorem about it, in the whole system.
`InStep` counts what is under way; for induction one has to know of each client what its worker
does while its program is at each place (`StartInv` up to the greeting, `SenderStage`,
`ReceiverStage`): before it is accepted nothing was answered, a receiver's worker that reads
has one request or none, a reply is no delivery until it has joined. A sender's worker is
known to serve, or to be at a quit, or to be gone with nothing left to read; that it has not
quit before its program did is known only of a sender of whom no line was cut.

**What is heard.** That what is printed is the first part of what the server delivered says
nothing of what is still on the way. `Follows` says that the lines under way to a receiver go
on where its printed texts end: `Tally` counts along them from the number of texts that were
`Heard`, and each one that carries a text of the server's holds the next that was delivered,
up to the last one as long as the server lives (`Carries`). The tail of a delivery that begins
like one carries none and is not counted: `BehindCut` says that such a line is right behind a
text that was cut, and `InTurn` that what was printed is of either kind. The count is a witness, not a recursive definition, so a line that is taken, a
reply or a delivery that is added shifts or extends it (`TallyTaken`, `TallyReplies`,
`TallyDelivery`). A delivery must not be taken for a reply, and no text for the reply to a
join: until its join a receiver has no delivery under way, and then the first line is its
reply (`HeardBy`). For `OnlyTyped` the texts among the requests are counted as a set of places
(`TextsIn`), which each line that is sent or read changes by one at most, and a line that is
cut by two when its tail is a text too: `split` allows for it.

**Connection.** What is promised is about lines that were handed out; what decides it is what
is still under way. `Stream` puts the line in hand, the buffer of `rio_read`, the socket and
the rest of the write after one another. `StreamInv` says that this is one run: each character
is followed by the one that was sent after it (`Follows`), it begins with the message after
the last newline consumed, and, unless the connection has ended, it ends with the newline of
the last message sent. So `Write`, `Refill` and a `TakeChar` that completes nothing leave
the stream as it was (`WriteMoves`, `RefillMoves`, `TakeMoves`), `Send` adds a line at its
end, the end of the writer cuts its end off, and a completed line takes its beginning away
(`RestIsRun`). `MayFit` is what makes long lines harmless: the line in hand is the beginning
of its message if that one fits (`LineInv`), so a line that fits is never cut, and
`HandedOut` says that no such message has been begun in a request before. `InSequence` follows
from the order inside the stream, since everything that was received for a request comes
before all of it. What a read error finds in `new_msg` does not count as received; that it
shows in the last request only is because the stream is then exhausted (`Exhausted`), and
the next receive meets the end. With the reader's end closed nothing of this is needed, nor
holds.

**Parallel sort.** `SortIInv` has three layers. *The tree*: a process is a path, and each has one
parent (`OneParent`); `TreeInv` says of a process at each place which children it may have and
how they ended: none before it forks (`Childless`), status 0 only over two that ended with 0.
*The parts*: a child's part is a half of its parent's, so two parts are nested when one process
is above the other, and disjoint otherwise (`Placed`); whoever merges, copies or has succeeded
has nobody below it that is not done (`Settled`). From these, what shares an element with the
part of a process that sorts, merges or copies is a process that has succeeded below it, or one
above it that waits, or forks the other half, or has failed (`WriterAlone`): that is `RaceFree`,
and it is what lets every process reason about its part alone. *The data*: what has not been
given away is as it was in the file (`Untouched`), a merge has taken the least of its two
halves, rearranged (`MergeInv`), what is copied so far is the private array (`CopyInv`), and
who has succeeded has a sorted part (`InOrder`). A process whose parent has died may be
overwritten by nobody, but a grandparent that was told of success may copy over it: order is
promised only as long as nobody above has begun to copy or is gone (`Clean`). `Kept` says that
no value is lost while somebody still has it: what a place holds *once those who write over it are
done* (`Holds`: the cell of their private array, which in `qsort` stands for what it was called with,
or the cell of the file if there is none) is a rearrangement of the original. Outside of the parts
that somebody writes over, or died writing over (`Unfinished`), that is the file itself, and the
bijection gives every value there a place of its own in the original: hence `NothingLost`.
It is a bijection and no count, so that a step composes with the one before it; that equal
bijections give equal counts (`SameValues`) is shown once (`RearrangedHasSameValues`). The
steps are dealt with in two groups: forks, and those that change one process only.

**Union-find.** That `find` returns the root would be an induction over the climb. The
module keeps the label of every pixel as a history variable instead: `LabelInv`
says that a pixel has its parent's label, and that a pixel is its own label exactly
when it is its own parent. The climb keeps the label it started with (`CallInv`), so
where it stops it has found it. `Downhill` (no parent is larger than its child)
shows that the climb ends and that the larger root goes under the smaller. `CountIsRoots`
is about cardinality: `Link` removes exactly one root (`LinkFacts`). The history variable is
also the refinement mapping, so `DisjointSets` needs no construction.

**Labelling.** Every step of the program is a call that `RasterUnionFind` allows, a
step of that call, or a stutter; this needs that the neighbour of a pixel is a pixel
(`NeighboursAreLater`, by arithmetic on rows and columns). For `PassInv` the labels must be
exactly the components of the edges seen. `EdgeInv` says it without a path or a partition,
so that it is kept by a union: the two ends of a seen edge have one label, but for the edge
whose union is under way, and *every* set that no seen edge leaves (`NoneLeaves`) holds all
of a label or nothing of it. That the fold in `Partition` computes the least such sets, for
every set of edges, is `PartitionIsParts`: these sets solve the recursion of the fold, and a
solution that differs would differ at a smallest set of edges. In the same way `find` returns the label
(`FindIsLabel`): the label solves its recursion, and by `Downhill` nothing else does.
The label is the first pixel of the region because a root is the least of its tree
(`LabelDown`).

**Segmentation.** `ForestInv` speaks of a partition and of paths; `KruskalIInv` says the same of
sets and numbers, so that every step keeps it. `RegionInv` is the `EdgeInv` of the labelling with
no union under way, and counts: a union joins one edge and takes one region away. `QueueInv`
says what the order of the queue has brought about: no queued edge is lighter than one that has
joined, and the two ends of an edge that has left the queue are in the same parts of the edges
*no heavier than it* that have joined (`JoinedBy`), whichever of equal edges came first. `StopInv`
is why the test after each edge cannot miss the wish, and why the queue cannot run empty before:
a drained queue has joined all neighbours, and then pixel 0 and all others (`GridConnected`, by
going to the left or up from the least pixel that is not). `PaintInv` follows the two loops over
the pixels.

That the forest is a least one is not shown by exchanging edges, which would be an induction over
them, but by counting. One edge more leaves at most one part less
(`EdgesJoin`). So for every weight `w` the edges of a forest up to `w` are at most as many as those
that have joined up to `w`: these leave no more parts than any edges of the grid up to `w`
(`FewerParts`, `JoinedAreMost`). Two forests of as many parts have as many edges, so the
joined ones have at most as many *above* each weight, and an injection from them into the
other's (`CostsNoMore`); since the cost of a set of edges is the number of its pairs of an
edge and a number from 1 to its weight (`CostIsUnits`), it is at most the other's.

**Cache.** `CacheInv` is not inductive alone: a new block has a time stamp of its own because
every other was given by a line that was read before (`Stamped`). A store is never
lost since whatever memory lacks is in a block marked dirty, and a block that goes is written
back when it is; nor is one counted twice, since a dirty block is one that memory lacks
(`StaleIsDirty` says both). For `StackDistance`, `RecencyInv` ties time stamps to the trace: that of a
block is the last line that named it (`LastTouch`), and a block that is gone gave way to a
full set of blocks that have all been named since (`GoneForNewer`). So the line in
hand finds its block in the cache exactly when fewer than `num_blocks` others were named
since: if it is there, each of those others is, or gave way to newer ones, and there is a slot
too few; if it is gone, the blocks in the slots are the others, by counting. For the policy, the
place of a block in the line is the number of those older than it (`Rank`), which is a bijection
because ages differ (`Ranks`); a touched or new block goes to the back and those that were
younger than the one it takes the place of move up (`MovesBack`, `JoinsBack`).

**Fixed point.** The three invariants together are inductive: they speak of the last call, whose
operand the state before has shown to be a valid value. All that matters is what the functions
return. Two words are one magnitude (`Mag`), ordered as its words are (`TwoWords`), so
`AddExact` is about magnitudes: with one sign their sum, where the carry of the fractions
and the wrap-around of the whole parts are told from the sum alone (`PlusExact`); with two
signs their difference, the smaller from the greater, with the borrow (`MinusExact`).
`sub` and `double` are `add`, and of `halve` only the bit that leaves each word is to be
accounted for. For texts, `Number` is a fold: `NumberIs` gives a function on the places of
the text that solves its recursion, `NumberBy` says that any other that does ends in the
same number. So the digits of a word have the word as their number (`DigitsOfWord`, the
quotients by the powers of the base solve it), zeroes in front are worth nothing
(`LeadingIs`), and those taken off at the end of a fraction are what `Fraction` puts back
(`TrailingIs`). What is read back then has only to be cut at the sign and at the point
(`ReadsBack`).

*Only model-checked*: every liveness property, and the fairness that `ServerSpec` asks for (no
proof of properties under fairness is attempted). The library's induction theorems
are out of the prover's reach, so what a recursive definition computes for every input is
proved only where the result is known otherwise and shown to be the one solution (the root
that `find` returns, the parts of a partition, the cost of a forest, the powers of a base, the
number that digits stand for): that a solution exists, or that there is only one, is shown by
the least argument at which it fails.

## 6. Where the code and its documents disagree

**A run shows it.** `chat_leak` checks `DescriptorsReturned`: the accept loop meets an
empty descriptor table only when no connection of a departed and removed receiver
holds a descriptor. TLC refutes it. A receiver leaves; the worker's second write
fails; the user is removed from its room (`server.cpp:181-184`), but the loop goes
on for ever, the connection is never closed, and once the table is full `Accept` ends the
process. `test_concurrent.sh:120-138` kills and reconnects a receiver in a loop and lines
306-310 say that the server is then to be up; the test is only short enough for the
usual limit.

**Observations**, modelled as the code has them, with no run of their own:

* An invalid login deletes a `User*` that was never set (`server.cpp:70`), so the server
  may end: `UndefinedAbort`. So may `pop_back` on the empty data of a failed receive.
* A sender that joins twice and quits stays a member of its first room
  (`server.cpp:130-131`), and every broadcast is queued for senders too, whose queue
  nobody empties (`room.cpp:33`).
* After the end of its stream a sender's worker answers and receives for ever.
* `message.h:8-11` allows 255 characters with the newline; `receive` cuts a line of 255
  in two (`connection.cpp:72`). A delivery may be longer than any line allowed (`room.cpp:35`).
* A read error counts as success, because its -1 is stored in a `size_t`
  (`connection.cpp:76`): the beginning of a line, or the whole of the line before, which is
  still in the buffer, is then carried out as a request. `InSequence` and `HeardInOrder`
  say that this is one request, and the last.
* The tail of a line that was cut is dispatched by its own tag. A user can type a text whose
  tail begins with `sendall:` or `quit:`, and it is carried out (`server.cpp:97, 129`); a
  text that is too long as a delivery can end in `delivery:`, and its tail is printed as a
  text of whoever it names (`receiver.cpp:86`). `HeardInOrder` says how far this goes.
* An empty line, or the end of the input, ends `sender` in an abort (`sender.cpp:61`).
* Kruskal asked for as many regions as there are pixels merges everything, since the
  count is compared after the first union (`ImageSegmentation.java:29`); the colour of
  a region is a running average of two, not its average (lines 54, 68). The height of
  a tree can be 2, where the exam's README (lines 93-94) has flat trees.
* `is_neg` and `compare` take "-0" for negative (`fixedpoint.h:153, 187`); 34 bytes are
  allocated for what can be 35 characters (`fixedpoint.c:256`). `create_from_hex` stores the
  digits before it looks at how many there are (lines 38, 53, then 62), so a run of more than
  17 is written past the end of its array; the texts of `FixedPoint` end at 17.
* `is_power_of_2(0)` does not return (`helper_functions.cpp:13-16`), so a size of 0, or one
  that is no number, hangs the simulator. Nothing bounds the sizes from above: when the number
  of sets times that of bytes does not fit in 32 bits, `get_tag` divides by 0
  (`helper_functions.cpp:25-28`); `SizeAssumption` leaves out these sizes and no others. With a sequential threshold of 0 `parsort`
  forks without end.

## 7. Abstractions

* A message is its sender and number, a name is a model value, a text is a kind of
  line. Tags are told apart only as the code tells them apart.
* Undefined behaviour is a choice between what the build can do: a pointer that is
  unset or freed and is deleted, and `pop_back` on an empty string, abort or have
  no effect; the buffer of a failed read holds any command, or none. In `Connection`, where
  what it holds matters, it is the line before, a stray byte, or nothing.
* A request that is carried out and the reply to it are one step (`AddMember`, `Broadcast`,
  `LeaveRoom`, `Quit`): only this worker writes to its socket, and a client sees the reply
  no earlier than the effect.
* What was under way when a program or the server dies may be lost or not, as the
  state of the socket has it. A client that writes to a dead server may be ended by a signal:
  that is `Killed`.
* A file, an image and a trace are given in memory; `mmap` succeeds or fails, PNG decoding
  and reading lines are left out, and colours have one channel.
* The limit on descriptors and threads is a number of connections.
* `waitpid` does not fail: each call names a child that has not been waited for, and no
  signal handler is installed (`parsort.c:97, 122` are not reached).
* A line that is cut arrives as two lines and not as more; its tail fits in the buffer.
* A receiver that has joined sends nothing more, so its worker has read all that it sent, and
  its end is seen as an end of the stream unless it leaves deliveries unread. A read error at a client
  (`ReceiveFails`) may be taken for any reply.
* The reply that a rejected or unfinished request gets, and what it does to a client that
  has closed or reset its end (`Reply`), is part of the step that reads the request; the two
  replies to a failed receive (`server.cpp:85, 140`) are one.
* Names of rooms and users are legal; a client logs in with one role.
* Destructors of queue, room and server, which run only when the process ends or on a
  path that frees a receiver, have no action.

## 8. Plan

Done: the chat system from queue to client, and the composition of server and clients; the
sort, the cache, the fixed point numbers, the two image programs; the proofs of every
invariant that a run checks, and of every refinement (of `ServerSpec`, all but its fairness).
Next:

* **Both directions.** `Connection` twice, for a client that does not read while its worker
  writes (two full sockets, and both writers waiting).
