# Verification of the online-shop servers

The repository is an online shop. Clients (`client.c`) talk over TCP to a sub-server
(`serverIPC.c`), which passes each command on over one TCP connection to the data server
(`dataServer.c`, `Roden.c`, `JacobWilson.c`), which keeps five comma-separated files. This
directory models the servers, the client, the files and the demonstrations in TLA+, checks the models with TLC and proves theorems about
them with TLAPS. `PROJECT.json` lists components, runs, mutants, hazards, findings, theorems and,
for every definition that models code, the lines it models.

## 1. Inventory

| Component | State | Operations | Talks to |
|---|---|---|---|
| Client, `client.c` | one TCP socket; one buffer for messages and replies; buyer, seller, order and product ids; a nest of menus | menus, and functions that compose a message, send it and take the reply | its child in the sub-server |
| Sub-server, `serverIPC.c` | POSIX message queue, pipe `fd`, connection `dataServ`, a socket per client | accept and two forks per client: a child that serves the client, a relay between queue, data server and pipe | clients, data server |
| Accept loop, `dataServer.c` | listening socket; a thread per connection | accept, `pthread_create`, `threadTask` | sub-servers |
| Semaphores and counters, `Roden.c`, `dataServer.c` | per file `wrt<Table>`, `<Table>Mutex` and a reader counter | reader entry and exit, writer wait and post | all threads |
| Command handlers, `Roden.c` | arrays on the thread's stack; global `deletedProducts` | fifteen commands dispatched by `executeTaskOnServer` | semaphores, files, connection |
| Flat files, `Roden.c`, `JacobWilson.c` | five text files | `load...` into an array, `writeBack...` from an array (count the lines, `fopen "w+"`, write, close) | handlers |
| Demonstrations, `Demos/` | semaphores and number files | stand-alone programs that show a race, a deadlock, their fixes, and an earlier form of the locking protocol | nothing |
| Experiments, `misc/` | | superseded code; `databaseActions.txt` holds the resource lock order, `dataServerManual.txt` the commands | nothing |

What is hard here:

- *Locks.* Readers and writers of one file through two semaphores and a counter; the first reader
  waits for `wrt` while it holds the mutex; handlers hold up to three writer locks; entry and
  exit are written out by hand in each handler, and some branches leave twice, never, or take no
  lock at all.
- *Order of replies.* A reply names neither client nor command. Every child reads the one pipe
  that every relay writes, and every relay reads the one connection.
- *One buffer, one connection.* The client builds each message in the buffer that held the last
  reply, and decides a login by whatever reply comes next.
- *Failure and restart.* The message queue outlives the sub-server. A client that exits is read as
  an empty command. A process that dies at the other end of a socket ends the one that uses it.
- *Data.* Row by row decisions on copies of files; ids from the second; formatting that loses zeros
  and line ends; three files changed one after the other.

What makes each part correct:

- locks: semaphores stay binary; writers of a file exclude each other and its readers; what is
  written back is based on the latest contents; nobody reads a half-written file; threads never
  all wait; every command is served to its end and answered once.
- sub-server: every command reaches the data server at most once; every waiting process has
  something under way; a client gets a reply, and the reply to its own command.
- files and handlers: a write-back keeps the lines it is not about; stock, bills and order lines
  agree, across crashes too; what is confirmed is on file.
- client: one command per message; a buyer's menus only after a login or a registration; the reply
  it takes is the one to its own message; it gets back to a menu.
- demonstrations: whole files, no lost update, nobody waits for ever, semaphores end as they began.

## 2. Modules

| Module | Contents |
|---|---|
| `ReadersWriters` | what the locks promise: per table any number of readers or one writer |
| `RWLocks` | what each kind of step of a handler does to semaphores, counters and files |
| `DataServerHandlers` | the steps of every branch of every handler; extends `RWLocks` |
| `MCDataServer` | instances of the two for TLC |
| `RequestReply` | what a client expects: every command answered, by its own answer |
| `SubServer` | parent, children, relays, queue, pipe, connection, clients, kill and restart |
| `MCSubServer` | instances for TLC |
| `FlatFile` | lines and tokens of a table; loaders, write-backs, rows added; pure operators |
| `Shop` | what the commands make of the tables, thread by thread and file by file, with crashes |
| `MCShop` | small tables and requests for TLC |
| `ClientSession` | the menus and functions of `client.c` and the connection behind them |
| `Demos` | semaphores, files and plain variables of the demonstration programs |
| `DemoPrograms` | the body of each program as steps of `Demos` |
| `MCDemos` | which programs are run together, for TLC |
| `RWLocksProofs` | the inductive invariant of the locks; what holds of all branches, and what holds when readers leave what they entered: the refinement, and freedom from deadlock by the lock order |
| `SubServerProofs` | types; the balance between waiting children and messages; alone, a client has a remote procedure call: the refinement of `RequestReply` |
| `SubServerExecutionProofs` | a command is at one place at a time, so none is executed twice |
| `ClientSessionProofs` | the client and its server and the replies under way, whole messages, checked logins |
| `DemosProofs` | the semaphores of every generation, whole files, no lost update, no deadlock in the demonstrations |
| `ShopProofs` | who holds which table of the shop, that others keep out of it, and that files stay text files |
| `ShopRecordsProofs` | what the records say: order lines and their bills, confirmed orders and their bills, the stock and its history |
| `ShopLinesProofs` | that a write-back writes every line back as it was loaded, but for those the command is about, and that a loader reads what was written |

### 2.1 Locks and handlers: RWLocks, DataServerHandlers

A handler's effect on the shared state is a fixed sequence of steps once its branch is chosen, so
`DataServerHandlers` gives each handler as the set of its branches, each a sequence of records
such as `[op |-> "wait", table |-> "ProductInfo"]`, in the order of the calls in the code.
`RWLocks` runs them: `path[th]` is the branch thread `th` runs, `pc[th]` its next step. `Receive`
is `executeTaskOnServer` dispatching a command, `Return` the end of it in `threadTask`. What
decides the branch (the id exists, the order is valid, the seller owns the product) is data and is
abstracted to the choice.

| Action | Code, for each table |
|---|---|
| `Arrive`, `Admit` | `sem_wait(mutex); counter++` and `if(counter == 1) sem_wait(wrt); sem_post(mutex)` |
| `Leave`, `Left` | `sem_wait(mutex); counter--` and `if(counter == 0) sem_post(wrt); sem_post(mutex)` |
| `WaitWriter`, `PostWriter` | `sem_wait(wrt)`, `sem_post(wrt)` |
| `Load` | a loader fills the handler's array |
| `Truncate`, `Flush` | `writeBack...`: `fopen "w+"` empties the file; `fprintf`, `fclose` |
| `Answer` | `writeSocket` |

Entry and exit have two steps because another thread can only get in between where a semaphore is
waited for; the counter is touched under its mutex only. A load is one step: under a lock nothing
can change the file meanwhile, and without one it is the step that may find the file emptied.

`fresh[th]` is a history variable: the tables of which `th` holds a copy equal to the file.
`Held` and `Inside` read off a branch what its thread holds at a step, which is independent of the
semaphores: the properties relate the two.

`WellFormed` says what the protocol relies on (rank order, pairs, post only what was waited for,
write back only under the lock from a copy loaded under it). It is an assumption of `RWLocks`;
TLC evaluates it on all branches of `DataServerHandlers`. `Matched` (a branch leaves exactly the
readers it entered) is *not* true of all of them: `validateMiss` leaves twice. It is a premise of
single theorems, and of the run that says so.

Left out, since they finish nothing: `validateOrderIsBuyers` spins when the first bill is not the
wanted one, and `viewProducts` neither leaves nor answers when its file cannot be opened.
Searches without an end test are taken to find their row here (`Shop` looks); a command that
matches no branch changes nothing and is not answered, and is left to `SubServer`.

### 2.2 Sub-server: SubServer

Per client `c`, `client[c]` is where the client is, `child[c]` and `relay[c]` are the next step of
the two processes forked for it, `held[c]` and `carried[c]` the messages in their buffers. The
channels are sequences: `toChild[c]` (socket), `queue`, `dataIn` and `dataOut` (the connection),
`pipe`. A message is the record `[client, number, kind]`, and a reply is represented by the
command it answers; the processes never look at these fields, which is the point: they serve to
state who got whose reply.

| Action | `serverIPC.c` |
|---|---|
| `Accept`, `ForkRelay` | 88-90 and 111-114: the child is forked first, the relay later |
| `ChildOpens`, `ChildReads`, `ChildSends`, `ChildAnswers` | 93-96, 101, 102-103, 104-107 |
| `RelayOpens`, `RelayReceives`, `RelayForwards`, `RelayReads`, `RelayPipes` | 115-118, 121, 126, 128, 131 |
| `DataServer` | `threadTask`: takes a command and writes as many replies as the handler does |
| `Ask`, `Exit` | `clientSend`; an Exit Program option of a menu |
| `Kill` | the sub-server is killed and started again |

A command is of a kind by how often it is answered: once; never (`silent`, as `[MOD_ORDER]`);
twice (as a product edit by another seller); `long` does not fit the queue's message size, so that
`mq_send` fails and the child goes on to wait; `empty` is what a child reads from a client that
has gone. No branch of `executeTaskOnServer` answers an empty command: `command[]` was cleared
at the end of the previous branch and `extractCommand` leaves it so.

Simplifications: reads and writes of 10240 bytes are whole; `sleep(1)` is left out; the child's
write to its client and the client's read are one step, as are the client's `clientSend` and its
wait; a client leaves at a menu only, which is where the code has its exits; the parent keeps
`clientSock` open, so a client whose child has exited waits on. A failing `fork` is not modelled.

A client that leaves (`Exit`) is `gone`, and only a read that fails ends its child: until then
`read` returns 0, and each time the child sends one more empty command, with a new number. The first
write to the client makes it `reset`; then the next read may fail, or a further write ends the
child by SIGPIPE. `Left` are the clients that are gone or reset.

`Kill` empties sockets, connection and pipe and keeps the queue. Commands the data server has
already received may still be executed; if something was unread or unanswered, it may find the
connection reset and end (`readSocket`, `exit(1)`), and relays that write afterwards end
too; or it reads the end of the connection and goes on (`dataUp`). A restarted data server is not
modelled.

### 2.3 Files and what the commands do to them: FlatFile, Shop

`FlatFile` has the loaders and the write-backs as operators. A file is a sequence of lines, a line
the tokens `strtok` finds in it: an empty field is no token, and the line end after the last comma
is one. That is enough for what the code gets wrong: `intToCharArray` writes nothing for 0, and of a
negative number its zeros only (`-10` becomes `0`, one token `Zeros`; `-12` nothing), so the next
load takes the following field for this one, or reads 0 and leaves it out at the next write-back; a line with too few
tokens is a null pointer for `strcpy` or `atoi`; a write-back writes one row more than the file *on
disk* has line ends, and neither drops that row nor counts the one just added. Columns that are
always handled together are one column.

`Shop` runs the commands on such files. `Take` is `executeTaskOnServer` reading a request, `Read`
a view or the `validateID` before a seller's change, `Refuse` an order that does not pass, `Begin`
the locks, loads and changes in the arrays, then `Truncate` and `Flush` for each file in the order
of the code, and `Answer`. Locks are taken in one step: their order and the readers are 2.1's
subject, and what a load sees under a lock is proved there. `Stop` is the end of the process and
its restart by `main` (semaphores unlinked, no thread left, a file open for writing left
empty); it follows `Crash`, a load that faults, or a search that runs off its table.

| Operator | Code |
|---|---|
| `Load`, `Readable` | the four loaders |
| `FreeRow`, `PutRow`, `PutAfterGap` | the search for the row with id 0 and what is put there; a seller goes one row further |
| `LinesOf`, `LineEnds`, `WriteBack`, `intToCharArray` | `writeBack...Struct` |
| `validateBuyerOrder`, `Deducted`, `Bill`, `WithLines` | `completeAnOrder` and its parts; the price is the one the buyer sends |
| `deleteProduct`, `Modified`, `IsOwner` | the three changes of a product |
| `buyerEdits`, `EditRow`, `NewClient`, `buyerModifiesOrder` | `[EDIT_INFO]`, `[NEW_CLIENT]`, `[MOD_ORDER]` |

`CommandsAssumption` lists the requests the data server knows (`Requests`): their fields hold no line
end, because they were typed on a line, and what is read with `atoi` is a number; ids of buyers
and orders have been validated, and a seller's is the first digit of one that was drawn (2.4), so none
is 0 (`Valid`), and the zero row behind a table is nobody's. `FilesAssumption`
says that all five files are there and are text files: a line end is the last token of its line, and
only a last line may lack it. `TextsAssumption` keeps numbers and texts apart. `OthersKeepOut`
relates the two halves of a command: what it loaded under its locks is still what the file holds when
it opens the file for writing. `RowsReadBack` relates the two sides of a file: of what a command has
written a loader makes, row by row, what the command had in memory. Two things spoil it, and are what
it excepts: a row with a number that is written as nothing or as zeros, or with no text (`FullRow`);
and the rows behind one that became two lines, because its last column held the line end that a
loader had taken for it (a quantity of 0 leaves its field empty, the next load then takes the line
end for the last column, and the next write-back writes that column and a line end).

`ledger`, `spoilt`, `torn` and `confirmed` are history: the stock a product should have, the
products that have come to 0 or below (whose quantity the file cannot say) or whose number
`generateUID` has drawn once more for a new product (two lines with one number), the files a stop left
empty or ahead of another, the orders confirmed. `Ahead` is that CustomerOrder.txt has its last line
end and BillingInfo.txt has not: `[MOD_ORDER]` writes them in this order, and after a stop in between
the next order keeps its lines and loses its bill. `LinesHaveBills` excepts it, and nothing else but
a file that was left empty. `LinesSurvive` excepts the lines a command is `About`, a refused delete, and
lines in which a loader finds no number where one should be (`Misread`): the pieces of an order of none
or less, and `Zeros`. `[MOD_ORDER]` searches for the bill when it has written the lines; if there
is none, the search runs off the table then.

Assumption: automatic arrays start as zeros. The code relies on it (the end of a table is a zero id,
`putBack` is appended to uncleared) and C does not promise it; with other contents even the first
write-back is prefixed with stack garbage. Not modelled: overflow of `putBack[1000]`, of `fgets`
into 200 characters and of names of 20.

What the model shows besides its properties: a delete that the owner check refuses empties
ProductInfo.txt and is answered `[INVALID]` and `[CONFIRMATION]`; selling the last unit makes the
price the quantity; a second write without an append leaves a blank row, on which the next load
faults; a stop between the two writes of `[MOD_ORDER]` costs a later order its bill (`Ahead`); `[MOD_ORDER]` removes the product's lines from *all* orders; a registered phone number is
not stored.

### 2.4 The client: ClientSession

A menu function never returns, so the menu in use is the control state (`at`). `waiting` is the
message whose reply the client is about to read; `requests` and `replies` are the two directions of
its connection through the sub-server to the data server, which is taken to pass on one reply
per message (2.2, `RequestReply`). `buffer` is clear or holds the last reply; a function
that joins its command to the buffer (`Join`: `userRegister`, `IDLogin`) sends what was in it
too, one that clears it first (`Compose`) does not. `Answers` are the replies
`executeTaskOnServer` gives, `MayFail` the messages it may not come to an end with.

`client.c` does not compile as it stands (line 221 assigns a character to the array `buyerID`); it is
modelled as line 280 does the same for the seller: the first character of the new id is kept.
Orders, products and sellers are single characters without a terminator, so which ids arrive at
the data server is left open. Choices of the model's users are the menus' choices; reads of
10240 bytes are whole; what a client reads after the data server has gone is not modelled.

What the model shows besides its properties: a seller can never log in (`IDLogin` sends an
empty id) and needs no login (an invalid choice opens the seller's menu); `[MOD_ORDER]` leaves the
client waiting; after a double answer, the stale `[CONFIRMATION]` can log a later buyer
in with any id, which is why `LoginsAreChecked` says `twice = 0`.

### 2.5 The demonstrations: Demos, DemoPrograms

As in 2.1, a program is a sequence of steps, and `Demos` says what each does. The model programs are
processes that open semaphores by name; a *generation* is what the names stood for between two
unlinkings, and `mine[p]` the one a process opened. `Start` is `main` up to its loop, `Kill` a
process stopped from outside, `Again` its endless loop, `End` a thread that returns.
The branch is chosen at `Start`, since `com.valid`, and in some programs `com.clientType`, is
never set. The reader count is a semaphore, posted, read and tried under a mutex (`Arrive`,
`Admit`, `Leave`, `Left`). The demos on number files are threads with one System V semaphore: `KEY`
and `KEY2` are equal. `LoadCount`, `StoreCount`, `Test`, `SetOpen` and `SpinUntilOpen` are the plain
variables of ReadWriteDemo.c, where an increment is a load and a store.

What the programs keep to is stated in `Demos` and evaluated by TLC on every body of `DemoPrograms`:
each lock operation has its other half, each lock taken is given back and no other
(`BodiesAssumption`), and each file has a lock under which alone it is read, and rewritten from what
was read since (`GuardsAssumption`); in `DemoPrograms` all but the deadlock demo take their locks by
rank (`OrderAssumption`). `BeforeTheFixes` in `MCDemos` is the counterpart: the code the fixes replaced,
still there as a comment, breaks these. `OneReader` (at most one process of a scenario uses the plain
variables) is not an assumption but a premise of theorems, because ReadWriteDemo, as the
repository runs it, breaks it.

## 3. Runs

Passing runs:

| Run | Instance | Question |
|---|---|---|
| `commands` | 2 connections, 2 commands each, all branches; 925,296 states | types; binary semaphores; writers apart; no lost update; somebody proceeds |
| `order_commands` | 3 connections, 1 command each, on BillingInfo and CustomerOrder: readers of each, the writer of both; ids found; fair; 11,464 states | readers and writers apart; loads under a lock see whole files; implements `ReadersWriters`; every command is served to its end |
| `one_client` | 1 client, 20 commands, queue of 2, fair; 196 states | implements `RequestReply` |
| `shared` | 2 clients, 4 commands in all, queue of 1, fair; 74,299 states | types and queue limit; every wait is covered; every client that waits gets some reply |
| `killed` | 2 clients, 2 commands of all kinds, an exit, a kill, queue left over or not; 2,072,742 states | no command is executed twice |
| `demos` | eleven scenarios of two or three processes, one kill; 378,959 states | types, among them binary semaphores; whole files; no lost update; who may wait for ever; nothing leaks |
| `shop` | 2 threads, 4 of 15 requests, a crash, files as in the repository (no last line end); 2,710,535 states | threads hold different locks and keep out of each other's tables; a loader reads what was written; lines keep their bills; one bill lost at most; stock adds up; lines survive |
| `session` | 1 client, 2 double answers, fair; 72,299 states | one command per message; logins checked; back to a menu |

Runs that show a disagreement between the code and what the repository says of it (each a finding
in `PROJECT.json`):

| Run | Shows |
|---|---|
| `miss_admits_writer` | a `[VALIDATE_ID]` that misses leaves twice, and a writer gets in beside a reader |
| `misrouted` | with two clients waiting, one can take the other's reply |
| `fixed_demo` | in the fixed ReadWriteDemo a reader still reads while a writer writes |
| `lost_bill` | the first order is confirmed and neither its bill nor its lines are on file |

Further disagreements the models contain, as exceptions named in a property or a step of a
handler: `[COMPLETE_ORDER]` loads CustomerInfo.txt without its lock (`completeAnOrder` in
`DataServerHandlers`); `[MOD_ORDER]` is never answered (`MayHang`); a product edit by another seller
is answered twice (`Answers`); on a machine without the queue the first child can find none, exit,
and leave its client waiting (`shared` with `QueueAtStart = {FALSE}`); a command left on the
queue by a killed sub-server is answered to the next client (`OwnReplies` with `MaxConnected = 1`
and `MaxKills = 1`).

Bounds. Two connections are enough for every pairwise conflict; with two commands each a thread
meets the state an earlier command left (a counter off by one). Three connections add two readers
beside a writer, where a counter passes 2; a writer of two tables with readers of each is the
smallest case of lock order and of two files. Two relays are enough to overtake each other anywhere
between queue, connection and pipe. `MaxMessages` is 1 or 2 where the code has 10: with two
children a queue of 1 gets full, which 10 would not. In `shop` four requests are two more than it
takes to fill a file's missing line end and write again, and two threads are all that can conflict on
a lock; orders have one line, two lines, and two lines of one product that exceed the
stock together and leave -10 of it, which is written as `0`; one order is of no pieces, whose line is
written without a quantity, so that the next loader takes the buyer's name for it; one
`[MOD_ORDER]` is of a product that is on no line. Of the two numbers `generateUID` may draw, one is
free and one is that of a product in the file. In `session` two double answers put the client one and two replies behind. In
`demos` one kill and one further unlinking meet every pair of generations. `MaxRequests`,
`MaxConnected`, `MaxExits`, `MaxKills`, `MaxCommands`, `MaxCrashes` and `MaxTwice` bound only
what people do and what fails. Connections, clients and threads are interchangeable; symmetry is used
only where all properties are safety properties.
`CHECK_DEADLOCK FALSE` stands where the system may stop: after `Kill` or an exit, when the bound on
requests is used up (`shop`), when threads have ended or the deadlock demo has done its work
(`demos`), when a client waits for a reply that never comes (`session`). Elsewhere a stop is an error;
`Quiet` is the idle state in which all commands the bound allows have been served.

Fairness. `WF(Run(th))`: a thread that can take a step takes it; the kernel schedules every runnable
thread. `sem_wait` promises no order, so a thread may be overtaken any number of times and no
strong fairness is assumed; `CommandsFinish` holds because the other connections' commands are finite
in number. In `SubServer`, weak fairness of each child, each relay, the parent's second fork and
the data server; none of connecting, asking, leaving and kills. In `ClientSession`, weak fairness of
reading a reply that is there and of the data server's answers, except where it may fail; nobody has
to choose from a menu.

Every property of a passing run has a mutant in `PROJECT.json`: a variant of one definition, as a
plausible slip would make it (a writer that does not wait, `counter <= 1` for `== 0`, a bill written
after its lines, a buffer not cleared, one row too few written), under which TLC finds the property
violated.

## 4. Proofs

All theorems hold for any finite or infinite sets of threads and tables, any bound and any
well-formed handlers unless a premise is named. The assumptions are `RankAssumption`,
`ProgramsAssumption`, `RequestsAssumption` (locks), `KindsAssumption`, `BoundsAssumption` (sub-server),
`BoundAssumption` (client), `ProcsAssumption`, `ScenariosAssumption`, `BodiesAssumption`,
`GuardsAssumption`, `OrderAssumption` (demonstrations; their processes are finitely many),
`TextsAssumption`, `CommandsAssumption`, `BoundsAssumption` and `FilesAssumption` (shop). TLC evaluates them on the instances.

`RWLocksProofs`: `TypeCorrect`, `SemaphoresStayBinary`, `WritersAlone`, `UpdatesKept`. None of
these properties is inductive: that a semaphore is 0 says nothing of who holds it. `IInv` adds,
per table, `MutexInv` (the mutex is free exactly if no thread is between its wait and its post)
and `WriterInv` (`wrt` is free exactly if nobody writes and the readers, as a group, do not hold
it). `GroupHolds` reads the group's hold off the counter, corrected for the one thread that has
moved the counter and not yet acted on it. It does not say that the counter is right, so it holds of
the unmatched branches too. `UpdatesKept` adds `CopyInv`: a thread that holds the lock and has
loaded since has a fresh copy.

In the same module, under `ReadersMatched` (finitely many threads, branches that leave what they
enter): the counter is the number of threads between arrival and leaving (`CountersCountReaders`);
with `IInv` this gives `ReadersAndWritersApart`, `LockedLoadsWhole` and, step by step,
`LocksImplementReadersWriters`. The premise cannot be dropped: `miss_admits_writer`.

`NoDeadlock`. If every thread with a command is blocked, some `wrt` is 0. Take
one of the highest rank: a thread holds its table, is itself blocked and, by the rank order, waits
in the end for a `wrt` of higher rank. The same premise is used; TLC checks the property with the
unmatched `validateMiss` too (`commands`).

`SubServerProofs`: `TypeCorrect`; `WaitsCovered`, when every command is answered once and nobody
leaves or is killed. The balance (`Covered`) moves by one on both sides in each step; `AnswerInv`
says that only answered commands are on their way and that the processes of a client not yet
connected have not begun. With a silent command, an exit or a kill the balance fails, and a
child or relay waits for ever: those are the findings above.

`SubServerExecutionProofs`: `NothingExecutedTwice`, without a premise: for any clients and kinds of
commands, with exits and kills. `OnePlace` says that no command is at two of the places a message
passes (a client's socket, the child's hand, the queue, a relay's hand, the connection, the executed
ones), `InOrder` that no channel holds one twice, and `Fresh` that every command about has a number
that its client has used, or its child when the client had gone and the child made up an empty
message, so that a new one is nowhere. Every step then either moves commands from one
place to another (`HandOver`: also a kill, which executes some of the commands that had arrived and
loses the others), or moves none (`Remain`), or makes one (`Appear`).

`OwnRepliesAlone` and `OneClientRequestReply`, in `SubServerProofs`, for one client,
commands answered once, no exit and no kill. `Phase` is the whole life of a command: the client is at rest and
nothing is under way (`AtRest`), or it waits and its last command, or the reply to it, is at exactly one
of eight places, each with what the child and the relay do meanwhile. Each action leads from one phase
to the next; only `Ask` and `ChildAnswers` are steps of `RequestReply`, all others change nothing there.
The premises are needed: with two clients replies are misrouted (`misrouted`), and the balance fails
with a kill. That the answer comes (fairness) is checked in `one_client`.

`ClientSessionProofs`: `TypeCorrect`, `MessagesAreWhole`, `OnlyCustomersLogIn`, for any
ids and any number of double answers. `Balance` bounds what is under way by what the client waits for
plus the second answers; `FrontInv` says that the buffer is clear wherever a message is joined to it
(each way to the menus before a login passes `initialMenu`, which clears it); `LoginInv` that until
the first double answer a confirmation on its way is about the id the client keeps. Without the clause
`twice = 0` `LoginsAreChecked` does not hold: from the first double answer on, the client
takes each reply for the next one.

`DemosProofs`: `TypeCorrect`, `FilesWhole`, `UpdatesKept`, `NoLeak` and `NoDeadlock`, for any programs that
keep to the assumptions, any scenarios, any number of processes stopped and of generations; so for
any mixture of the repository's programs, not only for the eleven TLC runs. All
have the premise `OneReader`, without which `WholeFiles` fails (`fixed_demo`). `DemosInvariant` is the
induction: `Shape` places every process at a step of one of its program's bodies and ties the plain
variables to the one reader's place; `LockInv` holds per generation and semaphore. Its parts
are `MutexInv` (the mutex is free exactly if nobody of the generation is between the halves of an entry
or exit), `CountInv` (the counting semaphore is the number of those who have entered) and `WriterInv`
(`wrt` is free exactly if nobody writes and the readers do not hold it). A stopped process stays
where it was stopped, so it goes on counting for its generation: this is why the invariant survives a
kill and why `NoLeak` and `NoDeadlock` speak of generations without one. A body takes its steps
from a program text, so the lemmas about `Since` and `Held` (`SinceStep` and those after it) turn what
a body keeps to into what holds at its next step. `UpdatesKept` adds `CopyInv`, by an induction of its own.
`NoDeadlock` is the argument of `RWLocksProofs` for each generation, with the rank of the semaphores
in `DemoPrograms`; it excepts the deadlock demo, whose programs take the locks the other way round.

`ShopProofs`: `TypeCorrect` and `TablesAreHeld`, for any requests, tables and threads. `TypeOK` is not
inductive: that locks are disjoint while held does not say that a thread still holds the lock of the table
it writes. `Progress` adds that what a command has yet to write is of the tables it locked, and that a
thread without locks has nothing to write; `Exclusive` is the disjointness. Then only the thread that
locked a table changes it, and only while it is opening or closing the file itself. What a restart
leaves is `StopInv`, used for crashes, faulting loads and searches without an end alike.

The second half of the module shows that the files stay text files, for any requests and any number of
threads, commands and crashes; it says little by itself, and the theorems below rest on it. `FilesInv` adds
what is between two files: a table in memory has rows of `Row(t)`
(numbers in the columns read with `atoi`, a line end at most in the last column) and what a thread
is about to write consists of lines with their end (`EndedLines`). `LoadType` makes such rows of any
readable text file; `ChangedType` says that each command keeps them, with one lemma per operator
(`PutRowType`, `WithoutType`, `RenamedType`, ...); `WriteBackType` makes lines of them again, whatever
the number of rows. `[COMPLETE_ORDER]` and `[MOD_ORDER]` need that a search has found its row
(`RowOfIs`): behind the table the name on the bill would be no field. The operators are folds and
searches over sequences, so each such lemma needs an induction. The induction theorems of the
library cannot be used here, so it is done with the least counterexample (`LeastNat`), once for
concatenation (`FlattenLast`), once for a fold whose step is a function (`FoldUnfolds`, `FoldType`), to
which the three folds of an order are reduced, and once for each search.

`ShopRecordsProofs` is about what the rows say, so its theorems need something of the ids and of the
files at the start; the premises are definitions of `Shop`, and `MCShop` has TLC evaluate them:
`IdsGiven` (no new id is 0, which `generateUID` cannot return, and each record has an id),
`OrdersBilled` (the order lines have bills, and the file of the bills ends its last line if that of the
lines does) and `StockGiven` (a product has one line, with name, seller and quantity). The repository's
files satisfy all of them. Nothing is asked of the numbers `generateUID` may draw but that they are not 0:
it does not look whether one is taken.
`IdsInv` and `TodoInv` are the base of all three: rows in memory have ids, lines have ids or are blank,
and what a command has still to write is an end of its list. With ids no loaded row is taken for a free
one, so the loops that look for the first free row find the end of the table (`NoGap`).

- `BillsForLines` (`LinesHaveBills`). The property is false of a single state that is about to write: the
  bills are written first, so a thread between the two files holds lines whose bills only it knows. `BillsInv`
  therefore speaks of the files as they will be: `After(c, t)` are the ids in a file when thread `c` has
  written what it has in memory, as many of them as that write-back will write. `WillBeBilled` says
  that these lines have these bills at every place a thread may be stopped at, and `NowFull` that the bills
  end their last line when the lines do, so that a write-back that counts line ends never drops a bill
  and keeps its lines. `[MOD_ORDER]`, which writes the lines first, is the exception `torn` remembers.
- `OneBillLost` (`OnlyFirstBillLost`). `Lost(file)` is how many confirmed orders have no bill. It moves with
  the line ends: `Lost` plus the order in progress whose bill is written and not yet confirmed is at most 1,
  and at most 0 while the last line is unended (`NowCounted`). The first write-back of an
  order spends that 1 and gives the file its last line end, so there is no second (`Counts`).
- `StockIsKept` (`StockLedger`). `Stocked` says that each line of a product with a history has its name, its
  seller and the quantity the history says, and `Apart` that there is one such line; `KeepsStock` says it of
  the rows a thread has in memory and of what it is writing, against `Book(c)`, the history as it will be
  when `c` has written. `DeductedIs` shows that an order takes from the one row what its lines ask for,
  as a sum over them (`OrderedSteps`), `ChangedStock` that each command leaves the other rows alone.
  A product once sold out is excluded: its empty field is left out of the line, and the next loader
  reads the price for the quantity. So is one whose number was drawn for a new product: there are two
  lines then, and an order takes from the first. `Begin` notes it before the file is written.

`ShopLinesProofs`: `NoLineIsLost` (`LinesSurvive`), under `IdsGiven` and `LinesGiven`: every line of the
files at the start has all its fields, as in the repository (TLC evaluates both in `MCShop`, with the
other premises). Nothing is asked of the requests: `client.c` sends what is typed, and an order of
no pieces, or less, is written without its quantity and read with the buyer's name in its place, which
`atoi` turns into 0; this line, and any in which a negative number has become `0`, is `Misread` and
excepted until it is written anew. Other empty or zero fields, of names, addresses, prices or stock,
lose nothing: one of them is left out and the fields behind it move up, but they come to
stand where the next write-back puts them again.

- The round trip. `SoundInv` says of every line that can be read that each of its columns holds what the
  column keeps (no text in a number's column, nothing behind the line end), and of the rows in memory
  that they begin with numbers that are there (`FirmRow`: one column of products and clients, two of
  bills and order lines). `LineReturns`: the row that is
  loaded from such a line is written as the same line, with a line end. `SoundRow`: what is written of
  a firm row is sound again, whichever of its fields are left out, because a field that moves up into
  a number's column is a number (`SoundFields`, from `FlattenShifts`: no field moves down) unless the
  line is misread.
- The commands. `Careful` says that each row is either one the command is about (`Meant`) or
  in memory as it was, in its place or, after a deletion, further up (`Stays`), and so still
  among the rows that are written, as many as the file has line ends, and one. There is one lemma per
  kind of command (`CarefulProducts`, `CarefulBills`, `CarefulLines`, `CarefulClients`).
- `SurviveInv` carries this from the load to the write-back, past the steps of other threads and the
  thread's own writing of other tables (`Survives`). `About` of an order line is told from the bills
  in the file, which `[EDIT_INFO]` writes before the lines; so `KeepsBills` follows those through their
  write-back, and `BillsReadBack` shows that a loader finds a buyer's orders in it again.

In the same module, `RowsAreReadBack` (`RowsReadBack`), without a premise: for any text files, numbers and
requests. It is the round trip the other way. `FullLine`: a row without left-out fields is written as
one line that holds its fields in order. `LineReadsBack`: a loader makes that row of it.
`WrittenReadsBack`: in a write-back the line of a row has the row's own place as long as each row before it
is one line. `BackInv` carries this from the write-back, which
reads back before it is in the file, to the answer: only the thread itself writes the table
(`OthersKeepOut`), once (`ChangedWrites`: what it changed is in the list of what it writes).

Model-checked only: liveness (`CommandsFinish`, `ClientsAnswered`, `BackToMenu`, the fairness part of
`ImplementsRequestReply`), which the provers cannot do. `ReadersExcludeWriters`, `LockedLoadsSeeWholeFiles`
and the refinement are proved for the branches that leave what they enter only; for the one that does
not they are false.

## 5. Not modelled, and the plan

Not modelled, with the reason:

- the accept loop's failures and a thread on a closed connection (`dataServer.c`): two threads on one
  socket share a byte stream, which the models do not cut into pieces;
- `strtok`'s one static position among loaders of different tables and `extractCommand`: what two
  threads get from it depends on both texts, character by character;
- fixed arrays that overflow, short reads and writes of 10240 bytes, a failing `fork`, descriptors
  that run out;
- contents of uninitialised arrays other than zeros (2.3);
- ids: a number may be drawn twice in `Shop` (`NewIds`), by two threads or for a product that is there;
  of two lines with one number nothing is claimed but that each survives. A client that keeps a stray
  reply for its id, or a seller who has none, sends commands with other fields than `Requests` has;
- the text of menus and logs; `misc/`, which no program uses.

Plan. All safety properties of the passing runs are proved. Left for the
models is the accept loop of `dataServer.c`, once two threads on one socket can be told apart by more than
the bytes they get.
