# c-net-repo: specification and verification

TLA+ modules of the programs of this repository, the TLC configurations that
check them on small instances, and theorems about them that the TLA+ proof
system checks. Paths are those of the repository (`src/`, `lib/`, `include/`).

## 1. The system

### Components

| part | code | state it keeps | operations |
|---|---|---|---|
| store server, parent | `src/server-exclusive.c`, `run_server` | listening socket, accepted socket, `child_process_counter`, its children | accept, fork, close, `terminate_exited_processes`, `terminate_all_childlen`, the two error paths |
| store server, child | `child_process` of the same file | store descriptor with its offset, the flock, the messages to send and to store | lock, read the last record or take the default one, send, receive, count up, append, unlock |
| server without lock | `src/server-no-exclusive.c` | the same without the flock | the same; lost records are intended (`memo.md:44`) |
| clone server | `src/server-exclusive-clone.c` | the same, in memory shared by all processes: the argument structure in the parent's loop, one heap, a stack per child that is never unmapped | `mmap` and `clone(CLONE_VM)` instead of `fork` |
| client | `src/client.c` | turn of the loop, socket, the message received | connect, receive, answer, close, `loop_max` times |
| messages | `lib/messageutil.c` | none | `message_extract`, `message_t_init`, `message_string_new` |
| store file | `lib/messageutil.c` | a file of records of 100 bytes, offset of the descriptor | `message_store_new/read/write/delete`, `continue_reading`, `continue_writing` |
| sockets | `lib/sockutil.c` | none | listen (queue of 5), accept, connect |
| reaping | `lib/waitutil.c` | none | `wait_exit`: `waitid(WNOHANG)` |
| errors | `lib/errorutil.c` | `errno` | `error_new`, `error_exit` |
| janken | `src/proc-janken.c` | two queues, the round of each process, the cards | user's card, command, child's card, results, waiting for the child |
| queues | `lib/qutil.c` | the kernel's queue | `q_new`, `q_push`, `q_pop` of C strings |
| random | `lib/randomutil.c` | generator state | `init_seed`, `randint` |
| helpers | `lib/utils.c` | none | `trim`, `split`, `mili_sleep` |
| echo server | `src/sample-server.c` | accepted socket, `child_process_counter`, its children; in a child one character and its answer | accept, fork, reap; read a character, write the answer, end with ^A, kill all |
| echo client | `src/sample-client.c` | one character for each direction and the flags `ready_to_read`, `ready_to_write` | a loop over three non-blocking descriptors, ^A, `clean_up` |
| playground | `src/playground.c` | a queue | a demonstration of ten messages |
| build script | `build.sh` | object files and their times | build what is older than its source, tests |

### Interaction

The clients connect to the parent over TCP. The parent forks a child for each
connection and only counts and reaps children. A child and its client exchange
one message each way; the child works on the store file, which all children
share and which only the flock protects. The client closes the connection as
soon as it has written its answer: nothing tells it when the record is stored.
Nothing but the file outlives the server; flock, sockets and children's exits
are handled by the kernel when a process dies.

The clone server does the same with processes that have descriptors of their
own but share every variable with the parent.

In the game, parent and child share two System V queues, one for commands and
one for cards; no message carries the number of its round.

The echo server's child and its client exchange single characters, each answered
with several, over two buffers that may be full; the client never waits in a
system call. A child whose connection ends without ^A kills the process group.

### What is hard

* children interleave between reading the last record and appending the answer;
* a client's next session may start before its previous record is stored;
* the lock is held while a child waits for its client;
* processes die at any point, the parent leaves children behind, and a new
  server is started on the store of the old one;
* the counter of children is passed by value and never goes down, so the two
  reaping loops count something else than what is left to wait for;
* children of the clone server read a variable that the parent writes again and
  leaves behind, allocate from one heap, and use up address space that is never
  given back;
* a message is whatever one `read` returns, scanned without widths, from names
  that nobody looks at, and sizes are computed with `log10`;
* transfers to the file may be cut short at any byte;
* the game has no round numbers, and a card whose value is 0 is an empty text;
* the echo client tries every read and write again in a later turn, with one
  character kept in between, and ends with answers unread, so that the reset of
  its connection may take its own last character with it.

`PROJECT.json` lists each of these under "hazards" with its line and the
property that covers it.

### What makes each part correct

* Server and client: a session is one atomic append of the answer to the last
  record, and recorded once; a client sees its own writes; no exited child is
  forgotten; nobody waits for a process that died or that waits for him, and
  every step brings somebody forward; undisturbed sessions are all served.
  Without the lock: nobody waits for a suspended client, and numbers do not run
  ahead of the records.
* Clone server: whatever holds of the fork server, until its shared memory makes
  the behaviour undefined, which takes a failing call, a kill or the end of
  `run_server`.
* Messages: texts are complete, fit where they are stored, and mean the message
  they were made from; what they are scanned into is overrun only by a text that
  was cut.
* Store file: a sequence of texts addressed from both ends; appending touches no
  earlier record, and an index that counts whole records only touches no other;
  an operation that succeeded did all of its work.
* Game: the cards shown are of this round; the child does not choose before
  the user; the game ends.
* Echo: answers complete and in order; the whole server is killed only after a
  client was killed or a connection was reset; nobody blocks but in the one way
  that is named.

## 2. Modules

| module | contents |
|---|---|
| `Message` | messages as a C int and two identifiers; what client and child do to them |
| `AtomicStore` | abstract: a store where one step serves a session |
| `StoreServer` | server (with or without lock), its children, the network and the clients |
| `StoreServerInv` | the inductive invariants of `StoreServer`, and why everything comes to an end |
| `StoreServer_proofs` | theorems about `StoreServer`: types, the store, the refinement, the numbers |
| `Progress_proofs` | theorems about `StoreServer`: the parent and its children, who waits for whom, what a step brings forward |
| `MCStoreServer` | instances for TLC |
| `CloneServer` | `StoreServer` with children in shared memory |
| `CloneServer_proofs` | theorems about `CloneServer` |
| `MCCloneServer` | instances for TLC |
| `MessageText` | the text form of messages, and sessions over texts that arrive in part |
| `MessageText_proofs` | theorems about `MessageText` |
| `MCMessageText` | instances for TLC |
| `RecordStore` | abstract: a sequence of texts with indexed reads and writes |
| `StoreFile` | `message_store_*` and the two transfer loops over the bytes of a file |
| `StoreFile_proofs` | theorems about `StoreFile`: types, records |
| `RecordStore_proofs` | theorem: `StoreFile` implements `RecordStore` |
| `MCStoreFile` | instances for TLC |
| `Janken` | the game: parent, children, two queues |
| `Janken_proofs` | theorems about `Janken` |
| `MCJanken` | instances for TLC |
| `SampleEcho` | the echo server, its children and its clients |
| `SampleEcho_proofs` | theorems about `SampleEcho` |
| `MCSampleEcho` | instances for TLC |

How they are put together: `CloneServer` extends `StoreServer` and takes over the
actions that shared memory does not change; what a child sends and receives goes
over the connection that its argument stands for, which only the refinement
shows to be the one of `StoreServer`. `StoreServer` implements `AtomicStore` and `StoreFile`
implements `RecordStore`, both under a mapping. `StoreServer` and `MessageText`
both take their messages from `Message`: the first looks at who writes which
message when, the second at what becomes of the text of a message.

Names are those of the code where a function or variable exists (`tosend`
stands for `message_string_tosend`, `left` for the parameter of the two
`terminate_` functions). Definitions called `Mutant_...` are changed versions of
the definition that follows them. They are part of no specification; with one
of them in the place of the original a property must fail, which shows that the
property says something about the code.

### StoreServer

A session `<<c, i>>` is turn `i` of client `c`; its name also stands for the
child that serves it. One action is one system call together with the
computation around it that no other process can see: `SeekLast` and `ReadLast`
are separate because the file may change between `lseek` and `read` when there
is no lock, and so are `SeekEnd` and `WriteRecord`. The parent's loop is
`Accept`, `Fork`, `CloseAccepted`, `Reap`/`ReapDone`; the error paths are
`AcceptFails` and `ForkFails`, then `Drain` and `DrainDone`.

* `wait_exit` takes one exited child away and otherwise returns 0 or -1, which
  its callers do not tell apart. In `terminate_all_childlen` that is a step
  that changes nothing (the loop spins).
* A server that dies leaves its children to init; they keep the lock, the
  connections and, until their first step, the listening socket. When the last
  descriptor of the listening socket goes, the kernel resets what is queued.
* A failed `accept` ends in `error_new(NULL)`, which takes the length of no
  string: `DrainDone` ends such a server in "crash", after it has waited for its
  children as it does after a failed `fork`.
* End of file is not an error for the code: child and client then extract a
  message from uninitialised memory. `StackMessages` is what that may yield.
* `WriteRecord` writes a whole record. `StoreFile` is about writes in pieces.
* Messages arrive whole (`MessageText` is about those that do not) and a child's
  `write` always succeeds (at most 100 bytes into the empty buffer of a fresh
  connection). A client killed with unread data resets the connection, otherwise
  its child sees end of file.
* Numbers wrap at `IntMax`, as the compiled `+ 1` does.

With `Exclusive = FALSE` the step `AcquireLock` takes no lock and the module is
`server-no-exclusive.c`, which differs from the other program in nothing else.

### CloneServer

Descriptor tables are copied when a child is made, memory is shared. `open` is
the parent's table (number to connection), `table[s]` the copy that child `s`
got, `args` the variable of `run_server`, and `arg[s]` what the child has read
from it. The child works on `Connection(s)`, what `arg[s]` stands for in
`table[s]`: `CloneSend` and the three outcomes of its `read` act on that, so that
a child with another's number would talk to another's client, and one with a bad
number would fail. The parent may have come round its loop before the child
reads `args`. Numbers are handed out as the kernel does, the lowest free one
first; those of other descriptors are not counted. The other steps of a child
are those of `StoreServer`.

Where the shared memory makes the behaviour undefined in C, the model stops and
sets `undefined`. Everything claimed is claimed until then.

* `HeapRaced`: two processes are in `malloc` at once (`InMalloc`, and `reporting`
  of the parent). Children that make or scan a message do so with the lock of
  the store file (`NeedsHeap`); an error text is allocated without it, by
  children whose `open` or any later call fails (`CallFails`, in `failing` until
  `ErrorExit`) and by the parent after a failed `accept` or `mmap`. That of a
  failed `clone` is made when no child is left.
* `HeapTorn`: a process is killed in `malloc`, and the heap stays as it is.
* `ArgsLost`: `run_server` has returned, and the parent's next calls have
  overwritten `args`, all of it or a part. A child that has not started takes
  anything for its connection and its store. It may also find them whole
  (`TakeArgs`).

`mmap` fails once `StackLimit` stacks were mapped (`MmapFails`, then
`ReturnsAtOnce`): `run_server` returns without waiting, `main` exits, and the
children go on without a parent. For everybody else that is what a kill does,
and as such it maps to `StoreServer`.

Not modelled: the lifetime of `args` formally ends with each turn of the loop,
but nothing else has its place in the frame of `run_server`; `errno` and `stdio`
are shared as well, only for what is printed. A server that is started again has
a memory of its own; one life of it is modelled.

### MessageText

Nothing is spelled out. An identifier is a name and how many characters of it
are left; a text is a message and how many characters of its complete text are
there. `client.c` checks only the length of its id, so a name may be empty or
have white space in it: `Word` says how many of its characters come before that,
and `IsWord` which identifiers `%s` finds again. The sessions follow each other
as the lock makes them do.

`Scanned` is every message that `sscanf` may make of a text of which a part is
there. A number or identifier that has arrived in part is taken as it is when a
zero follows; when none does, the scan runs on into the uninitialised buffer,
and the field may be any of `JunkNumbers` or `JunkIds`, of any length. An array
that the scan does not come to keeps what was in its memory (`Uninitialised`).
From an identifier that is no word on, the fields are those of the rest of the
text as they come (`Loose`). The child sends no zero and the client reads into
zeros, the client sends one and the child reads into an uninitialised buffer:
`Sent` and `ends` say so.

* `%s` has no width. An identifier that does not fit with its zero into
  `ID_MAXSIZE` bytes is written past its array (`Overruns`). After that the
  child dies or goes on with any message of junk; nothing else that an overrun
  may do is followed.
* The store is one of whole records, as `StoreFile` keeps it when nothing is cut
  short; a record without its zero is not scanned here.
* `abs` and `log10` of the smallest int are undefined. `number_digit` takes what
  the compiled program computes on x86: a size far too large, which cuts nothing.
  For every other number `log10` is the exact one, rounded down: the rounding of
  the floating-point function is not modelled.

`StackMessages` of `StoreServer` is the same memory seen from outside: there the
identifiers, also the junk ones, are words that fit, and what others do to a
message is the subject of this module alone.

### StoreFile

The file is a sequence of bytes. An operation computes its offset and seeks
(`Begins`, or `Refused`), and each later action is one `read` or `write` with
what the loop does between that and the next. A short transfer moves any number
of bytes from 1 to one less than asked. `Shifted` is the `memmove` of
`continue_writing`: it moves the rest of the string without its zero, and the
recursive call then copies the string found there. `ReadShort` models that the
bytes read so far are used as a string: when there is no zero among them it
goes on with whatever the stack holds (`Garbage`). What the outer `snprintf`
could cut off is not modelled: the texts and garbage of the instance are too
short for that. The final texts of the recursion are carried in `buf`: what has
been read so far is put before what the inner call returns.

Where a record is does not follow from the file once an append was cut off. The
history `starts` keeps where each append began (`Noted`); record r lies from
there to the beginning of the next (`Last`), and is whole or not (`IsWhole`).
The code counts records by the size of the file and from the end it counts back
in whole records: after an append of a part, -1 and -2 are offsets in the middle
of records, and `message_store_write` with them changes bytes of two. What
remains true is `KeepsOtherRecords`: an append changes no byte that was there,
and an index changes only its own record if all the records that it counts
(`Counted`: up to it from the beginning, or from it to the end) are whole.

### Janken

The functions take the number of children as a parameter, and so does the
module; `main` has one. A command is the character 0 and a card the bytes of
an enum, both pushed as C strings (`Text`, `FirstChar`). Queues in the kernel
hold 16384 bytes, of which a game uses a few messages, so no push waits.
A card that the user does not enter correctly ends the parent, with the child
left behind. What `q_pop` does to the memory of its caller is not modelled (see
"Met on the way" below), and neither is `janken_result`, which only chooses the
word to print. With more than one child the one command of a round (fixme,
`proc-janken.c:60`) is taken by one of them, and the parent waits for the other
cards for ever; the module has these behaviours.

### SampleEcho

A client connects once, and its name also stands for its connection and its
child. The client's loop has four phases, `stdin`, `send`, `recv` and `print`;
in each its call succeeds or does not (`NoKey`, `NoSend`, `NoRecv`, `NoPrint`),
and the flags are the two buffers: `ready_to_read` is `sending = <<>>` and
`ready_to_write` is `receiving # <<>>`. End of input is not told from no input,
so that such a client goes round for ever. ^A leads into the loop of
`read_stdin` (`ctrl_a`).

* Bytes wait in `c2s` and `s2c`, which hold at most `C2SCap` and `S2CCap`. The
  server's `write` blocks and is modelled byte by byte; the answer to the
  character 0 is an empty string.
* A client that ends with answers unread resets its connection (`Reset`), and so
  does one that has ended when an answer still comes. The child can read what
  its kernel has received, and not what the client's kernel still held back:
  because the server's buffer is full, because an earlier byte is not
  acknowledged (Nagle's algorithm; nobody sets `TCP_NODELAY`), or because it was
  to be sent again. So any first part of what is under way is left, also none.
  The reset itself may arrive later: until then a `write` succeeds
  (`WriteToClosed`); one after it ends that child (`WriteToReset`), but not in
  the middle of an answer, where `write` returns a number that is not looked at.
* `terminate_all_childlen` calls `kill(0, 9)`. The server and all of its
  children are one process group, the caller included: nobody lives to enter
  the loop of waits behind it (`KillGroup`).

## 3. What TLC checks

| run | configuration | properties | bounds |
|---|---|---|---|
| `exclusive` | `MCStoreServer_exclusive` | `TypeOK`, `IInv`, `ReadYourWrites`, `ChildrenCounted`, `AbsSpec`, `ReapsAllZombies`, `DrainLeavesNoChild` | 2 clients, 2 turns, listen queue of 2, one restart, all failures, INT_MAX 3 |
| `ends` | `MCStoreServer_ends` | `NoMutualWait`, `OneRecordPerSession`, `EveryStepAdvances`, `EverythingEnds`, `AllServed` | 2 clients, 1 turn, all failures, one restart, blank and old store |
| `no_exclusive` | `MCStoreServer_no_exclusive` | `CountFitsPlace`, `OthersFinish` | 3 clients, 1 turn, one suspended, no lock |
| `clone` | `MCCloneServer` | `UndefinedOnlyByErrors`, `OwnConnection`, `ImplementsFork`, `DefinedEnds` | 2 clients, 2 turns, 2 stacks, all failures |
| `text` | `MCMessageText` | `TypeOK`, `OverrunOnlyWhenCut`, `NothingCutOff`, `WholeTextsKeepTheMessage` | ids of 6 bytes, texts of 17, 8-bit ints, 2 records, 5 names, stray identifiers of 0, 1, 5 and 6 characters |
| `store_whole` | `MCStoreFile_whole` | `AbsSpec` (of `RecordStore`) | records of 4 bytes, 3 records, indices -3 to 3, failures and kills |
| `store_interrupted` | `MCStoreFile_interrupted` | `TypeOK`, `KeepsOtherRecords`, `WritesWholeRecords` | records of 4 bytes, 8 bytes, 2 texts, indices -2 to 3, all failures |
| `game` | `MCJanken_game` | `TypeOK`, `ShowsTheRound`, `DrawsAfterTheUser`, `CleanExit`, `GameEnds` | one child, 5 rounds as in the code, failures |
| `echo` | `MCSampleEcho` | `TypeOK`, `EchoesInOrder`, `OnlyLossKills`, `ReapsBeforeAccept`, `AllAnswered`, `CtrlAIsSent` | 2 clients, one types up to 4 characters, answers of 2 bytes, buffers of 2 and 1, all failures |

Why the bounds are enough to be interesting:

* `exclusive`: with two clients and two turns each, two children compete for the
  lock while a third connection waits in the listen queue, a client meets its
  own unfinished session, and four appends count up eight times, past an INT_MAX
  of 3. One restart gives orphans of the old server next to children of the new
  one. It uses symmetry in the clients; the runs with liveness do not.
* `no_exclusive`: three clients at one offset, one of which never goes on. Nothing
  fails in this run: failures without the lock are covered by the theorems.
* `clone`: four sessions want three stacks where there are two, so that the
  third `mmap` fails with two children in any state, started or not; the parent
  comes round its loop while a child has not taken its arguments. Two children
  and the parent are as many as it takes for two to be in `malloc`, with and
  without the parent, and a client that is served twice leaves a connection
  behind whose number the next one gets.
* `text`: an id of 6 bytes has as many lengths around its limit as one of 35
  (short, longest accepted, too long), and 17 is exactly the longest text with
  its zero, where the code has 100 bytes for 82. Old numbers lie on both sides
  of each change of width and of zero, and at both ends of the ints. One name is
  empty and one has white space in it. A stray identifier is empty, short, the
  longest that fits, or too long by one: what is longer is treated in the same
  way. Two records make a session that starts from what another has stored of
  texts that were cut.
* store file: with whole transfers, three records are the fewest with one that is
  neither the first nor the last. With short ones, eight bytes hold a whole
  record and a broken one before or behind it, at every break, so that -1 and -2
  name bytes of two records and the indices from the beginning do not.
* `echo`: an answer is longer than the buffer it goes through, and four keys
  overfill both directions, so that every call of the client fails somewhere, the
  jam of ^A is reached, and a reset takes all of what is under way, or any last
  part of it. The second client types nothing; it is there to be
  killed or to lose its server. The listen queue takes one connection.

`AbsSpec` of the server maps `StoreServer` to `AtomicStore`: the store is the
same, a session has recorded when its child has left the append behind, a
client is gone when it was killed. `AbsSpec` of the file maps the bytes to the
texts of the records. It holds when transfers are whole or fail; it does not
with short ones, see `FillsWithZero` below. `ImplementsFork` is the
specification of `StoreServer` itself, up to the step that makes the behaviour
undefined, with nothing renamed: a child of `CloneServer` that worked on
another's connection would make a step that no child of `StoreServer` makes.
`UndefinedOnlyByErrors` says which steps can lead there: a failing call, a kill
in `malloc`, or the end of `run_server`. The first two do while a server works
on: that the lock protects the heap holds of the children that nothing fails in,
and of no others.

`OneRecordPerSession` is what the clients can rely on, said of the store alone:
the old records as they were, and behind them one record for each session that
has recorded, in some order, which answers the record before it. `NoMutualWait`
looks at everything a process can wait for: the lock, the listen queue, and the
connection from either end. `EveryStepAdvances` says that a step takes no
session, client or server back in the order of the places it passes through
(`Rank`), and brings one of them forward or shortens what the parent has to do
on its own (`ParentWork`). With finitely many clients and restarts no behaviour
can go on for ever. A loop of the code that goes round without any effect is a
stuttering step and not counted (see `drain_ends`).

`CountFitsPlace` says what is left of counting without a lock: numbers repeat
and records replace each other, but the number of record i never exceeds 2 * i.

`WholeTextsKeepTheMessage` justifies that `StoreServer` passes messages and not
texts. It says of each field what survives: the number always, an identifier if
it is a word and, for the second, if the first is one too. When a text was cut
it promises nothing; `TypeOK` and `NothingCutOff` still say that what is stored
is a complete text of some message, in its bounds. `OverrunOnlyWhenCut` says
where the write past an array happens: in the child, for a text that was cut,
and nowhere else, whatever earlier sessions have left in the store.

`OnlyLossKills` is what holds of ^A. A client that reads all its answers before
it types ^A ends its own child only; without that condition the statement fails
(`ctrl_a`).

Fairness: every process takes a step when it can for long enough (weak fairness
for the parent, each child and each client), which any scheduler gives.
Failures, restarts and suspended clients (`Stalling`) have none.
`EverythingEnds` needs no fairness of the lock: only finitely many children are
ever forked, and each of them releases it or dies. `NoMutualWait` and
`EveryStepAdvances` are what it rests on, and need no fairness at all.
`DefinedEnds` is `EverythingEnds` for the behaviours of the clone server that
stay defined. `GameEnds` also assumes that the user answers. `SampleEcho` has
strong fairness for `PrintChar`: a terminal that takes nothing at the moment
takes output again and again (the loop meets that phase in every turn, so that
weak fairness would promise nothing). Its users need not type.

`EverythingEnds` does not promise service: a failing server refuses clients.
`AllServed` does, in the behaviours in which nothing fails. In the exclusive
server `OthersFinish` does not hold: a suspended client keeps the lock's owner
waiting, and all others with it. `CtrlAIsSent` excepts the state `Jammed`, a
real deadlock: the client only writes ^A, its buffer is full, and its child
waits in the middle of an answer for the client to read.

### Where code and text disagree

Runs that end in a violation, because a statement of the repository does not
hold of the code:

| run | property | statement |
|---|---|---|
| `drain_ends` | `DrainEnds` | `server-exclusive.c:106`: waits until all children exited. It never returns when one was reaped before |
| `ctrl_a` | `CtrlAEndsOneChild` | `memo.md:4`: ^A ends the child in good order. The child may never get it, and then kills the server |
| `fills` | `FillsWithZero` | `messageutil.c:77`: writes the whole size, zeros behind the text. After a short write old characters follow it |

In `ctrl_a` nothing fails and nobody is killed: a client types one key and then
^A. It writes both, and closes its socket at once, as `sample-client.c` does. The
child reads the key and writes the answer to a connection that is closed; the
kernel of the client answers with a reset, and ^A, which it still held back, is
lost. The next `read` of the child fails, and `kill(0, 9)` ends the server with
all its children.

Met on the way, and part of the models, but without a run of their own:

* `memo.md:42` has the child append the client's message when it arrives. End
  of file counts as one, and a message made of uninitialised memory is appended.
* `memo.md:56` has the client's new message carry the received id 1. The code
  puts the received id 2 there.
* `memo.md:25` has the server create an empty store when it starts. The store is
  opened by the first child, and one that is there already is kept (`OldStores`).
* `continue_reading` has the fault of `fills` in the other direction: after a
  short read it uses an unterminated buffer as a string (`messageutil.c:65`,
  `ReadShort`).
* An id may have 35 bytes (`memo.md:49`, `client.c:83`), of which
  `message_t_init` keeps 34 (`Truncated`). It may also be empty or `a b`, and
  then the text `7 a b ...` is scanned as other fields than were printed
  (`Loose`).
* `message_extract` scans with `%s` into 35 bytes (`messageutil.c:158`). A child
  whose `read` returned less than its client wrote scans on into uninitialised
  memory and may write past them (`Overruns`).
* After a failed `accept` the error is overwritten by what
  `terminate_all_childlen` returns (`server-exclusive.c:144` and `148`), and
  `error_new(NULL)` is called where `errorutil.h:16` promises a text (`DrainDone`).
* `messageutil.c:216` says that index -1 is the last message. After an append
  that was cut off it is an offset in the middle of a record
  (`KeepsOtherRecords`).
* The heap of the clone server is shared by processes whose `malloc` does not
  know of it. `error_new` is called outside the lock (`HeapRaced`).
* `sample-server.c:14` says that `terminate_all_childlen` continues waiting
  until all children exited. Its `kill(0, 9)` ends the caller first.
* The comments of the enum in `proc-janken.c:23-30` name scissors for `Paper`
  and the open hand for `Scissors`; the program and its table
  `janken_card_str` use the English meaning, and so does `janken_result`.

And one that is not part of the models: `q_pop` prints the text of a message
with its zero to where it is told (`qutil.c:67`). `recv_janken_card` passes the
address of a single `char` (`proc-janken.c:185`), so that the zero behind a card
other than Rock is written to the byte after it. `Janken` has the first
character, which is all that is used of it.

## 4. What is proved

| module | theorem | statement |
|---|---|---|
| `StoreServer_proofs` | `TypeCorrect` | `Spec => []TypeOK` |
| | `Invariant` | `Spec => []IInv` |
| | `ExclusiveIsAtomic` | `Exclusive => (Spec => AbsSpec)` |
| | `ReadsItsWrites` | `Exclusive => (Spec => []ReadYourWrites)` |
| | `EachRecordsOnce` | `Exclusive => (Spec => []OneRecordPerSession)` |
| | `CountsFit` | `FitsAtFirst => (Spec => []CountFitsPlace)` |
| `Progress_proofs` | `CountsChildren` | `Spec => []ChildrenCounted` |
| | `ReapsThemAll` | `Spec => ReapsAllZombies` |
| | `DrainsThemAll` | `Spec => DrainLeavesNoChild` |
| | `NobodyWaitsInVain` | `Spec => []NoMutualWait` |
| | `EverybodyAdvances` | `Spec => EveryStepAdvances` |
| `CloneServer_proofs` | `ErrorsApartDefined` | `FailuresAllowed => (CloneSpec => []UndefinedOnlyByErrors)` |
| | `ArgumentsArrive` | `FailuresAllowed => (CloneSpec => []OwnConnection)` |
| | `CloneIsFork` | `FailuresAllowed => (CloneSpec => ImplementsFork)` |
| | `CloneCountsFit` | `FailuresAllowed /\ FitsAtFirst => (CloneSpec /\ []~undefined => []CountFitsPlace)` |
| | `CloneKeepsRecords` | `FailuresAllowed => (CloneSpec /\ []~undefined => AbsSpec /\ []OneRecordPerSession /\ []ReadYourWrites)` |
| | `CloneGoesOn` | `FailuresAllowed => (CloneSpec /\ []~undefined => []NoMutualWait /\ EveryStepAdvances /\ ReapsAllZombies /\ DrainLeavesNoChild)` |
| `MessageText_proofs` | `TypeCorrect` | `TextsFit => (Spec => []TypeOK)` |
| | `WholeTextsDoNotOverrun` | `Spec => []OverrunOnlyWhenCut` |
| | `TextsAreComplete` | `Spec => []NothingCutOff` |
| | `SessionsKeepMessages` | `Spec => WholeTextsKeepTheMessage` |
| `Janken_proofs` | `GameTypes` | `Spec => []TypeOK` |
| | `NobodyDrawsEarly` | `Spec => []DrawsAfterTheUser` |
| | `ShowsThisRound` | `Spec => []ShowsTheRound` |
| | `ExitsCleanly` | `Spec => []CleanExit` |
| | `OneCommandIsForOneChild` | `N > 1 => (Spec => [](shown = <<>> /\ ppc \notin {"wait", "exit"}))` |
| `SampleEcho_proofs` | `EchoTypes` | `Spec => []TypeOK` |
| | `ReapsFirst` | `Spec => ReapsBeforeAccept` |
| | `KilledByLoss` | `Spec => []OnlyLossKills` |
| | `EchoInOrder` | `Spec => []EchoesInOrder` |
| `StoreFile_proofs` | `FileTypes` | `Spec => []TypeOK` |
| | `OthersAreKept` | `Spec => KeepsOtherRecords` |
| | `WritesAreWhole` | `Spec => WritesWholeRecords` |
| `RecordStore_proofs` | `FileIsRecordStore` | `WholeTransfers => (Spec => AbsSpec)` |

They hold for every value of the constants that satisfies the assumption of its
module: any number of clients, turns, children, rounds and stacks, buffers,
answers and records of any length, any set of failures.

### The store server

That a child appends the answer to the record before it follows from three
facts, and no one of them is enough:

* `LockInv`: a child between its flock and its unlock is the one that holds
  the lock, so nobody else has changed the file since it read the last record.
* `ConnInv`: a connection is in exactly one place, and before its child has
  sent, nothing is under way on it; so the child and the client of a session
  talk to each other and to nobody else.
* `AnswerInv`: while the child waits, the message it sent is under way, or with
  the client, or the answer to it is under way, or the client was killed; so
  what the child receives answers what it sent.

`TypeInv` adds to `TypeOK` the ranges that depend on a process's place (a child
that reads has an offset inside the file). Each part has a lemma that says
every step preserves it (`TypeStep`, `ConnStep`, `AnswerStep`, `LockStep`), with
one step per action of `Next`. `ConnQuiet` covers the actions that leave
connections alone, even when they reset the queue, `ConnChild` the steps of the
children. `StepRefines` maps each step
to `Serve`, `AppendIndeterminate`, `Vanish` or a stutter.

`ReadYourWrites` follows from `IInv`: an earlier session of the client has been
answered, so by `ConnInv` its child is not before its `recv`, and by `LockInv`
it is not between that and its unlock, because the lock is taken.

`EachRecordsOnce` is an argument about `AtomicStore` alone: each step of it that
adds a record adds the name of one session to those that have recorded, one
that was not among them (`RecordsOneMore`), and every other step leaves both
(`RecordsStep`). With `StepRefines` it holds of the server; the names of the
sessions to the records are the history that the store itself does not keep.

The parent's two waiting loops are bounded by `child_process_counter`, which
counts every fork and never goes down. That this bound is still never too small
is `ChildrenCounted`, which is inductive: at `accept`, `fork` and `reap` there
are at most `counter` children, one more between `fork` and the counting, and
in a loop at most `left`. So a loop that ends because `left` is 0 has no child
left, one that ends otherwise saw no zombie (`ReapsThemAll`), and
`terminate_all_childlen`, which has no other end, has waited for all of them
(`DrainsThemAll`). That the bound may be too large is what `drain_ends` shows.

`NoMutualWait` is not inductive either. Besides `IInv` it needs that the lock is
held by a child that has still to free it (`LockFreed`: also an error return, a
kill and a restart of the server come by that), that somebody can accept or
reset what is queued (`QueueServed`), and that a child that has gone on from its
`read` has a client that is done with the connection (`AnsweredInv`: otherwise
that client would wait for an answer nobody sends).

`EverybodyAdvances` is not an invariant but a fact about each step, with `IInv`
before it. The places of a session are exclusive (`ConnInv`), so that `Rank`
always looks at the one it is in, and each process has a lemma of its own
(`ParentAdvances`, `ChildAdvances`, `ClientAdvances`). It is the measure that a
proof of `EverythingEnds` would descend on; what is missing to that is fairness.

`CountsFit` needs nothing of the lock. The number that a child works with is at
most twice the number of records there were when it read, and the store never
gets shorter; so what is written at place i counts on a number of at most
2 * (i - 1), if not on an older one (`ChildCounts`, `WireCounts`). A client that
meets the end of its connection answers with a number from uninitialised memory,
but to nobody: its connection is closed, and only itself could open it
(`StaysClosed`). A number that wraps falls behind (`CountsOne`).

### The clone server

`CloneInv` is proved in one induction: the invariant `IInv` of the fork server
holds because the steps are steps of the fork server, and they are that only as
long as the invariants of the clone server hold.

* `ArgInv`: the parent closes its copy before it accepts again, so it has at most
  one connection open, every connection gets the same number, and what is
  written into `args` is what was there. The table a child got has its own
  connection at that number. Hence `OwnOne`: past its first step a child works
  on its own connection.
* `ChildMaps` uses that: what a child sends and receives there is what the child
  of the fork server does. A call that fails is one of its error returns
  (`ErrorIsAbort`), and a parent without a stack does what a killed one does
  (`ReturnIsKill`); `FailuresAllowed` says that the fork server it is compared
  with may be killed.
* `FailInv`: only a failing call brings a child to `error_new`.
* `HeapUnderLock`: a child that is about to make or scan a message holds the lock,
  by `LockInv`, and there is one of these. Whoever else is in `malloc` reports
  an error, which is `UndefinedOnlyByErrors`.

`CloneStep` puts this together for each action. In a behaviour that stays defined
every step is one of `StoreServer` (`DefinedIsFork`), so that the theorems about
it hold: the bound on the numbers (`CloneCountsFit`), the records
(`CloneKeepsRecords`, for this server has the lock), and that nobody waits in
vain (`CloneGoesOn`).

### The texts

The definitions of `Digits`, `Log10` and `LeadingNumbers` divide by ten until
one digit is left. That a function with such an equation exists is
`ByTenExists`: of each number, take the value that every function which
satisfies the equation up to there has. What holds of n whenever it holds of
n / 10 holds of all numbers (`ByDigits`, from the least number of which it does
not), and so log10 is one less than the number of digits (`DigitsByLog10`), an
int has no more digits than `number_digit` says (`WidthIs`), and no text is cut
off (`TextIsComplete`).

`TextInv` says that every text is the complete one of a message that
`message_t_init` has made, and that nothing was overrun but by a child with a
text that was cut. For any part of a text `ScannedAre` says that what is scanned
is a message, and one that fits (`Made`) if a zero ends the text: no field is
then longer than an identifier that was sent, or than what an array held
(`FieldsAre`, `LooseAre`). So the client, whose buffer is all zeros, never
overruns, and neither does the child with a whole text. After an overrun
`message_t_init` still cuts to size whatever is there (`ExtractedAre`).

`SessionInv` follows a session of which nothing was cut: what the client has read
is what a whole text in front of a zero tells of the last record (`Found`: its
number, the first identifier if it is a word, the second if both are), and what
it writes answers that. `TypeCorrect` assumes `TextsFit`: a sign, the digits,
two identifiers, two spaces and a zero are not longer than the array (in the
code 11 + 2 * 34 + 2 + 1 of 100).

### The game

`ShowsTheRound` is not inductive. `RoundInv` says where the one command of a
round and what comes of it may be: still in the queue, with one child, in the
other queue as a card, with the parent, or lost with a child that failed
(`Commanded`, `Drawing`, `Queued`, `Received`, `Lost`). Both queues are empty
in every other place of the parent, so that a card of another round cannot turn
up. With more than one child it also says that no round was shown, and so
`OneCommandIsForOneChild`: the parent is for ever in its first round, as it has
no card of those children for which there was no command.
`DrawInv` bounds what a child has drawn, or may still be told to draw, by the
rounds in which the user has chosen. `WaitInv` says that the parent waits
exactly as often as it has children; with `RoundInv` that is `CleanExit`.

### The echo server

`CountInv` is `ChildrenCounted` for this parent. For `OnlyLossKills`, `ConnInv`
follows what a client that has ended leaves to its child: as long as the
connection was not reset, the bytes to read end with ^A, for the client closes
only after it has written it, and nothing but a reset takes bytes away. So a
child that finds its connection at the end, without ^A, has a client that was
killed or a connection that was reset (`KillStep`). `QueueInv` says that a client
is in the listen queue or at `accept` at most once, and has no child until then.

`EchoesInOrder` is about what a fold computes. Nothing has to be known of
`Answers` but that it maps the empty sequence to itself and a sequence with one
more key to one more answer (`AnswersAppend`), from which it follows that it
takes joined sequences to joined answers (`AnswersConcat`). To get there, the
partial joins of a sequence of sequences are shown to exist and to be unique
(`JoinExists`, `JoinUnique`, `Joins` being the equations of the fold as a relation,
by a least index at which it fails), and `FlattenSeq` to be the last of them
(`JoinIsFlat`). The invariant of a client is `EchoInv`. `Partial` says that what it
has received is a beginning of the answers, also after one end was closed;
`Whole` that with both ends open the rest is in the child, or belongs to keys
that are under way; `Tidy` that ^A is the last thing sent, so that a child that
leaves its loop leaves no key of this client unanswered, and that no answer is
kept anywhere but in a child that writes.

### The store file

The bounds that the code keeps by counting down in a recursion are `UnderWay`:
an operation under way is in the middle of its record, that is, what it has
still to transfer ends where its record ends. It needs that an index which is
not refused names a record inside the file (`OffsetIs`), also when a part of a
record lies at its end, and that a buffer printed anew is as long as what is left.
From it follows `WritesWholeRecords` for short transfers of any length; what such
a transfer leaves inside the record is the subject of `fills`.

`KeepsOtherRecords` compares two ways to say where a record is: the offset that
the code computes from the size of the file, and the place where the record was
appended. `StartsInv` says that records begin at 0 and that whole ones follow
each other without a gap (`Chain`), from any of them to any later one; `WriteInv`
where a write under way is, at the end of the file for an append, also of a
part, or else at the offset of its index. `NotedKeeps` is the step of a `write`,
which lengthens the file and may begin a record. `NamedIsThere` then follows the
chain from the first record up to the one an index names, or from that one to
the end of the file, and arrives at the same offset as the code if all the
records on the way are whole.

`FileIsRecordStore` assumes that the kernel moves all the bytes or none
(`WholeTransfers`). Then `RecordsInv` says that the file is a whole number of
records with a zero in each, so that positions from both ends agree, and
`RequestInv` that an operation under way is at the beginning of the record it
names with all of its text. `Rewritten` says which records a write changes
(`Ranges`: the others lie before or behind it), and `TextIsKept` that what
`snprintf` printed into zeros is the text that is found again.

Where the position of the first zero is needed, that a set of numbers has a
least element comes from the well-foundedness of the naturals (`SmallestElement`).

### Only model-checked

Liveness: `EverythingEnds`, `AllServed`, `DefinedEnds`, `OthersFinish`, `GameEnds`,
`AllAnswered` and `CtrlAIsSent` need ENABLED and fairness, which the prover does not handle.
Every safety invariant and every action property of a passing run is proved. The
three runs that end in a violation are counterexamples and have no proof.

## 5. What is not modelled, and the plan

Not modelled, for good:

* formatting and logging, command lines, name resolution and the rest of
  `socket_listen` (they end the program before there is a state);
* the arithmetic of the random generator (the C library's): a card is any card;
* `trim`, `split`, `mili_sleep`: sequential, without state, with tests;
* what a program does once its behaviour is undefined: the clone server stops
  there, and an overrun of an identifier is followed only as far as said above;
* `playground.c`: ten messages through one queue that `Janken` already uses;
* `build.sh`: a wrapper around the compiler, whose decisions depend on file
  times and no state of the programs; the tests and their workflow.

Left to do: a measure in the manner of `EveryStepAdvances` for the echo server,
whose client goes round its loop without getting on, would have to say which of
these turns are in vain.

## 6. Running the checks

    tlc -config MCStoreServer_exclusive.cfg MCStoreServer
    tlapm StoreServer_proofs.tla

and in the same way for the other configurations and proof modules. `exclusive`
and `echo` take about two minutes each, `store_interrupted` and `text` about one,
`clone` half a minute, the others seconds. `StoreServer_proofs` and
`SampleEcho_proofs` take some minutes each, the other proofs about one or less.
