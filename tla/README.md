# A TLA+ model of the web server and the video call

The repository holds two programs: `web_main`, an HTTP server with accounts and
a bulletin board, and `stream_main`, which sends a camera's picture to another
host and shows that host's picture.  This directory models both, component by
component, states what makes each of them correct, checks that on small
instances with TLC and proves the central facts for every instance with TLAPS.

    tlc -workers 2 -config MCQueue.cfg MCQueue     # model-check a run
    tlapm ThreadsafeQueueProofs.tla                # check proofs

## 1. The system

### Components

| component | state | operations | modelled by |
|---|---|---|---|
| `tp::ThreadsafeQueue` (`includes/thread_pool.h:13-59`) | `data_queue`, threads asleep on `data_cond` | `push`, `wait_and_pop` (two overloads), `try_pop` (two), `empty` | `ThreadsafeQueue` |
| `tp::ThreadPool` (`thread_pool.h:61-105`) | `done`, `work_queue`, `workers` | constructor, `submit`, `work`, destructor | `ThreadPool`, `TaskPool` |
| `TCPServer` (`src/tcp_server.cpp`) | descriptors, epoll instance, `events` | `start`, `acceptConnection` | `TCPServer` |
| `web::response_thread` (`src/web_server.cpp:45-76`), `IO::sendAll` | a descriptor, the request | `recv`, render, `sendAll` twice, `close` | `TCPServer` |
| `web::WebServer` (`src/web_server.cpp:78-655`, `init.sql`) | tables `user` and `bulletin` in SQLite | login, logout, signup, bulletin, files | `WebServer`, `BulletinPages`, `HttpMessages` |
| `http`, `IO` (`src/http.cpp`, `src/IO.cpp`) | none; the browser keeps the cookies | parsing, dispatch, response header, files | `HttpMessages` |
| `stream_main`, `StreamClient`, `StreamServer` | two processes a host, `end`, camera, connection, codecs | fork, listen, connect, loops, `waitpid`, end | `StreamApp` |
| `src/webcam.cpp` | -- | -- | never: no target of `CMakeLists.txt` builds it |

### How they interact

The main thread runs `TCPServer::start`: an endless `epoll_wait` loop that
accepts connections and hands each readable descriptor to the pool.  Workers
poll the pool's queue and run `response_thread(conn_fd)`: one `recv`, a
`WebServer` object of its own with its own SQLite connection, two `sendAll`, a
`close`.  Main and workers share the process's descriptor table and nothing
else; requests share the database file, one statement at a time, and the cookie
a browser keeps from one request to the next.

`stream_main` forks.  The child listens, accepts one connection and shows what it
receives; the parent opens the camera, connects to the peer's child, retrying until
that listens, and sends.  The two processes share the terminal, whose Ctrl+C reaches
both, and the camera, which one at a time can open; the two hosts share two connections.

### What is hard

* Threads: a wakeup that reaches the wrong thread, `done` read before `try_pop`,
  a destructor that waits for a task that never returns.
* Descriptors: epoll is edge-triggered without `EPOLLONESHOT`, so one connection
  can have two tasks; an event or a queued task names a number that may by then
  refer to another connection.
* The network: requests in pieces, clients that close early, reset or stay silent.
* The database: no transaction spans two statements, any statement may end with
  `SQLITE_BUSY` after `db_timeout`, some results are not looked at, and some
  statements are never finalized.
* Nothing catches an exception between a task and the process.
* The video call: either host may be first, `waitpid` runs with connection and camera
  still open, the child falls through to the sender's code, codecs hold pictures back,
  and a signal handler is there only at times.

`PROJECT.json` lists these hazards line by line with the property that covers
each, or the reason why none does yet.

## 2. The modules

### ThreadsafeQueue

A member function holds `mut` from its first statement to its return and is one
action.  The exception is a `wait_and_pop` that finds the queue empty: `BlockOnEmpty`
releases the mutex and puts the thread to sleep; `Push` moves one sleeper, any one,
to `"notified"`; a notified thread takes the lock again and runs `WaitAndPop`,
`WaitAndPopPtr` or, if somebody was faster, `BlockOnEmpty`.  `SpuriousWakeup`
notifies a thread without a push.  `PtrThreads` are the threads whose blocking
call is the overload that returns a `shared_ptr`: `WaitAndPopPtr` leaves the moved-from
slot `Moved` at the front, as the code does (line 36 moves, nothing pops).
`pushed` and `taken` are history variables.

Properties: `RealValuesOnceInOrder`, whichever overloads are used: a *value* is
handed out once and in order, and what comes out besides is `Moved`; and `NoLostWakeup`
until that overload has returned once (`LeftBehind`).  Nobody in this
repository calls it, so that is a limit of the queue and not an error of the server.
`SleepersAreServed` is the liveness counterpart of `NoLostWakeup`.

### TaskPool and ThreadPool

`ThreadPool` instantiates `ThreadsafeQueue` for `work_queue` and adds the workers.
`ReadDone` and `StartTask`/`Yield` are the two steps of `work`: the flag, then
`try_pop`.  `Spawn`, `SpawnFails` and `Constructed` are the constructor; a failing
`std::thread` leads to `std::terminate`, since the `catch` rethrows past threads
that nobody joined.  `Destroy`, `Join`, `Destroyed` are the destructor.  Tasks in `Blocking`
never return and tasks in `Throwing` may end the process (`TaskThrows`).

`TaskPool` is the abstract specification: tasks start in the order of submission,
once each, at most `Width` at a time, none after the pool is closed, which needs
every running task to have finished.  `ImplementsTaskPool` is the refinement; the
mapping takes `started` to the length of `taken` and `running` to the tasks of the
workers in state `"run"`.

### TCPServer

Main and `w \in Workers` as processes, the kernel and the clients as environment.
`fdtab` maps descriptors to connections and databases; `accept` takes the lowest free number;
`ready` is epoll's list, which a socket enters on an arrival and leaves when
reported; `events` are those still to handle of the last `epoll_wait`, in any order.  `HangUp`,
`AcceptEvent` and `Submit` are the three branches of the loop, `Accept`,
`AcceptAgain` and `AcceptFails` the iterations of `acceptConnection`.  A worker
takes a *number* from the queue and looks up the connection behind it at each
system call.  `Recv` takes what has arrived and opens the database the
response is rendered from, which takes a descriptor (`OpenFails` when there is none);
`Render` closes it again, unless the handler left a statement unfinalized: `Strays` are the
clients whose request makes it do so.  `RecvEnd` is the 0 branch,
`RecvError` the unchecked -1 (an exception, and so `down = "terminate"`), `Send`
each of the two `sendAll`, `SendOnClosed` its endless walk backwards, `SendToReset`
the SIGPIPE, `CloseConn` the close.  `RenderThrows` is the handler that throws, which nobody
catches: `Risky` are the clients whose request may make it do so (a login while another has the database,
`web_server.cpp:182`; a page number no `int` holds, line 285; a cookie without digits, line 640).  When it does is
in `WebServer`, `BulletinPages` and `HttpMessages`; here it ends the process under the other clients.
`AddFails` is the exit of `addToEpoll`: `accept` and `EPOLL_CTL_ADD` are one action otherwise, but between them a worker whose
task still names that number may close it.

The pool is reduced to a FIFO and idle workers, which is what `TaskPool`
promises of it.  A request is `Need[c]` segments.

Four properties are about well-behaved clients (`WellBehaved`): each sends its request in one
segment and waits, or stays silent.  The two runs with faults are about the others.  `CrashHasACause` gives each kind of
end (`"exit"`, `"terminate"`, `"sigpipe"`, `"throw"`) its own cause.  `EveryRequestAnswered` is a promise to clients that
read (not in `Deaf`), and excuses two ends of the process that no waiting client can prevent: descriptors run out, and a
handler throws, its own or another client's.

### WebServer

Each request is a step machine whose steps are the SQL statements of its handler,
since each runs on a connection of its own and in no transaction with the others.
`user` is the table with three history fields; a row's id is its index.
`leaked` says that some connection holds a SHARED lock it will never release: the
SELECT of a refused signup, left on its row.  With `leaked`, every INSERT and
UPDATE fails.  `ReadBusy`/`WriteBusy` are `SQLITE_BUSY`: possible only while another
request is at the database, or, for a write, beside a leaked lock.
`Reply` delivers the answer and the browser's cookie, or loses both.

| handler | actions |
|---|---|
| `login_post` | `SelectPassword`, `SelectUid`, `UpdateCookie`, `SelectCookie`, `Reply` |
| `signup_post` | `SelectId`, `InsertUser`, `SelectUid`, `UpdateCookie`, `SelectCookie`, `Reply` |
| `bulletin_post` | `SelectAuthor`, `InsertPost`, `Reply` |
| `login_get`, `signup_get` | `Get`, `Reply` |
| `logout` | `Logout`, `Reply` |
| a form without its fields | `WrongArguments`, `Reply` |

`SelectUid` and `UpdateCookie` are `updateCookieByAccount`, used by both; `UpdateFailed`
is where the two differ: login drops the cookie from its answer, `insertNewUser`
ignores the result.

### BulletinPages

`bulletin_get` and what leads to it.  A page is one SELECT, so it is one action,
`Fetch`: `Listing` is what the SELECT returns for the `Offset` computed in `int`
arithmetic (`Wrap`), `HasNext` and `HasPrev` are the links of the page.  `Open`,
`FollowNext`, `FollowPrev`, `TypePage` are the ways a browser asks for a page, `Visit` the
page argument: one that is not all digits leaves `page` uninitialised, and the
model takes any `int` for it.  `TypeHuge` is the `std::stoi` that throws.  `Post` is the form
on the page (the steps of `bulletin_post` itself are in `WebServer`), and `Redirect` its
303 with the relative Location, which the browser resolves against the URL
it posted to: `numbered` says whether that had a page number.  `walk` and `tame` are
history variables: what a reader saw since page 1 by pressing Next, and whether
anything but links brought the reader to the page.  A SELECT that times out in `sqlite3_step` gives the page
`"busy"`, without messages and without Next like an empty last one, and one that does in `sqlite3_prepare_v2` the
page `"error"`; both stay part of the walk and of the redirect that led there.

Properties: a walk has seen the newest of the messages that were there at its start, with no gap, and all of them
at a page without a Next whose SELECT went through; a reader cannot tell that page from a `"busy"` one, and misses the
oldest messages if it is one (`NothingSkipped`).  Who posts is redirected to a page with the message, unless others posted a whole
page, the SELECT timed out, or the form was on `/bulletin/N` (`OwnPostShown`).

### HttpMessages

Browser and server in turn: `Ask` formats a request and cuts it anywhere, as one `recv`
may, `Respond` parses it (`parseHttpRequest`), lets a handler answer (`render` and what it calls) and
makes the header, `Receive` is what the browser does with `Set-Cookie`, and `Tick` lets
cookies expire.  Messages are sequences of tokens: delimiters (`Blank`, `Semicolon` and the other
`Delimiters`) and digits one by one, other words whole.  The browser keeps the
server's cookie in `uuid` until `clock` reaches `expires`, those of other servers on the host in `jar`; `first` says
which it sends first.  The parsing operators have the names of the functions; `Pieces` is the `std::getline`
loop they are built from.  A handler's answer is any that its code can give, whatever the
database says: what it says is the matter of `WebServer`.

Properties: what is parsed of a whole request is what the browser put into it (the parser
drops the last character of the last cookie, and the carriage return is there to be dropped);
of a cut one only the last cookie or field is not whole; a session cookie survives its round trip until
it is replaced, removed or expired; and `std::stoll` throws only on a request cut right in its cookie.

### StreamApp

A process is `<<host, role>>`; `pc` is where in `main`, `StreamClient` and `StreamServer` it is.  A child
starts in `"listen"` and goes to `"receive"` when a peer connects (`Connect` is the peer's step);
`EndOfStream` takes it to `"sleep"`, the sender's part of `main`, since no `exit` follows `StreamClient::run`.
A sender goes from `"sleep"` through `"camera"` (`OpenCamera`: busy while the other process of the host has it),
`"connect"`, `"header"` and `"stream"` (`Turn` is one iteration of `StreamServer::run`) to
`"wait"` (`waitpid`), and only `WaitDone` closes anything.  Pictures are counted where they are: `captured`,
`encoder`, `wire`, `decoder`, `shown`.  `Interrupt` is Ctrl+C: a process in `"stream"` or `"wait"` sets `end`, any other ends,
as the handler is installed by the last call of `StreamServer`'s constructor and by nothing else.
`Fail` is any of the many `exit(EXIT_FAILURE)`.

Properties: a child sends only as an orphan; a stream read to its end has lost nothing but what the
codecs held; Ctrl+C ends a host; a parent's wait ends after the peer's stream does; and both
see each other in whatever order they start, unless somebody ends or a connection leads to an earlier start.

## 3. The runs

| run | instance | shows |
|---|---|---|
| `queue` | 3 threads, one of them a `shared_ptr` caller, 3 values | values come out once and in order, none is lost; no thread sleeps beside a queued value |
| `pool` | 2 workers, 4 tasks, one blocking, one throwing | at most one late task per worker, the destructor waits, `TaskPool` is implemented, tasks start, the destructor returns |
| `tcp_serve` | 3 clients, of whom one is a stray, one risky and one deaf, 5 descriptors, 2 workers, no faults | one owner per descriptor, replies reach their authors, no worker blocks in `recv`, only a stray's database keeps its descriptor, who reads is answered unless descriptors run out or a handler throws |
| `tcp_faults` | 2 clients, one with a request in two segments, the other risky, closes and resets at any time | each end of the process has its cause: no descriptor, a handler that throws, a peer that reset, a client that did more than send and wait |
| `web_signups` | 2 signups, perhaps for one account, or a signup and a post, and any third request, with contention | duplicates come from overlap only; answers tell the outcome; a lone post fails only after a refused signup |
| `web_sessions` | 2 users, logins from either browser, a post | posts and sessions belong to the right account |
| `pages` | 2 readers, who may post, 5 messages, pages of 2, 4-bit `int`, page numbers typed | Next leaves no gap, misses nothing unless a SELECT timed out and repeats only what posts pushed back; a poster sees the post but for three reasons; links lead to pages |
| `http` | pages of every kind, 3 methods, 2 cookies, requests cut anywhere | whole requests are understood, cut ones up to the cut; the cookie's round trip; when `stoll` throws |
| `stream` | 2 hosts, one started twice, codecs and buffers of 1 picture, 3 pictures a connection, every failure | who may send, which pictures are lost; Ctrl+C and the end of a stream end a host, and calls come about |

Three runs end in a violation of what the repository says; section 5 describes them.

### Bounds, and why they are enough

* `queue`: a lost wakeup takes a sleeper, a notified thread and one that overtakes
  it: three threads, and as many values.  `MaxTaken` bounds `taken`, because a
  slot left behind can be handed out for ever.
* `pool`: two workers, so that one can be stuck while the other goes on; four tasks,
  so that a task of each kind is queued behind the others when the flag is raised.
* `tcp_serve`: five descriptors for three connections and the databases of two workers
  and a stray: the lowest number is closed and handed out again while others are
  in use, as a connection or as a database, and descriptors can run out.  Two workers are one more than
  the deaf client can hold up.
  `tcp_faults` keeps two connections, of which each can take the other's number.
  Its `BUFFER_SIZE` of 2 segments lets one `recv` take a whole request.
* `web_*`: at most two users where cookies must differ (section 5 has three), two
  browsers, three or four requests, and a clock of two instants: a cookie depends
  on the time of its UPDATE only through `time`, and one second is the
  distance at which ids collide.  `CookieMod` stands for 2^32 and `Lifetime` for 259200; only
  the parity of `CookieMod` matters to what is checked.
* `pages`: two readers, one to walk and one to post meanwhile; five messages make three
  pages, of which the last is full or not.  `Limit` is 2 for 10 and `IntMax` 7 for 2^31 - 1, so
  that `(page-1) * 10` overflows, which takes a page number a user typed or an
  uninitialised one; 0, 2 and `IntMax` are typed.
* `http`: names and values of two tokens can be cut inside; two cookies are a last one and one
  that is not; `Lifetime` is 2 hours for 8 and `MaxClock` 3, so that a cookie expires, or is renewed and then does not.
* `stream`: one picture in each codec and one on the wire make each of the waits and losses possible, three
  pictures fill them all and leave one; the second start of one host is what leads a
  connection to an earlier child and lets a camera be busy; `MaxFrames` stops senders, whose loop has no end.
* Symmetry is used for the workers in `tcp_faults`, which checks invariants only.

`CHECK_DEADLOCK FALSE` is stated where the system really may stop: clients
and browsers that ask nothing more, a pool that was destroyed, a process that ended.

### Fairness

Weak fairness of threads the scheduler runs, and of nothing else.  In
`ThreadsafeQueue`: a *notified* thread goes on; nobody is obliged to call a function.
In `ThreadPool`: the constructor, the destructor once called, and every worker step; a
task in `Blocking` has no step.  In `TCPServer`: main and the workers while the
process runs; clients need not send, and `Connect`, `ClientSend`, `ClientFin` and `ClientReset`
carry no fairness.  A worker that sends to a client in `Deaf` (`Stuck`) is not obliged to go on either, as `send` blocks
once the socket buffer is full; the others are, whose clients read.  In `StreamApp`: each process' own steps (`Sender`, `Receiver`), since processes are
scheduled and a working camera gives pictures; a `write` waits while the buffers are full, and `Connect` to a
peer that does not listen is a retry.  Nobody is obliged to start a host or press Ctrl+C, and
nothing need fail: `Start`, `Fail` and `Trouble` carry no fairness.
`WebServer`, `BulletinPages` and `HttpMessages` have no liveness property and no fairness.

## 4. The proofs

The theorems hold for every value of the constants, from the `ASSUME` of the
modules (`QueueAssumption`: finitely many threads, `Moved` is no value;
`PoolAssumption`: `thread_count` is a natural number, 0 included, and `NoTask` and
`Moved` are no tasks; `WebAssumption`: `None` is no request and no number, `CookieMod` is positive and even;
`NoneAssumption`: `None` is no form and no answer; `PagesAssumption`: pages have rows, and an `int` can count the messages and a page more;
`ServerAssumption`: descriptors are numbers, what they can refer to differs, and there are finitely many
connections, descriptors and workers; `HostsAssumption` and
`BoundsAssumption`: two hosts, bounds that are natural numbers; in `HttpMessages`, `ValuesAssumption`: a
cookie's value is digits, at least one, and no digit is a delimiter; `ClockAssumption`: hours are numbers; `FilesAssumption`: a file
has a path; `PagesAssumption`: a browser escapes the delimiters in a path; `MethodsAssumption`: GET is a method, and no
method contains a delimiter or is the word `Cookie:`).

`ThreadsafeQueueProofs`
: `TypeCorrect`: types, and a moved-from slot only at the front.  `WakeupsAreNotLost` (`NoLostWakeup`)
  is inductive with the type invariant: a push adds one value and one notified
  thread, a `WaitAndPop` takes one of each away, and `BlockOnEmpty` takes a notification
  when no value is left.  It needs that `LeftBehind`, once true, stays true: `HandOver` moves a leftover from the queue to
  `taken` and nothing else touches it (`HandOverKeepsSlots`, `LeftBehindStays`).  `ValuesOnceInOrder` (`RealValuesOnceInOrder`) keeps, for what was handed out followed by what is
  queued, the place of each pushed value (`Places`): a push adds the last place, a hand-over leaves the sequence as it
  is, and `WaitAndPopPtr`, which takes the value and leaves a leftover, moves the places behind it on by one (`ShiftedPlaces`).

`ThreadPoolProofs`
: One inductive invariant, `IInv` = `TypeOK`, `Joining` (workers are born and joined in index
  order, the joined have exited), `Stopping` (a worker that started a task after
  `done` is never about to pop again) and `Serving` (the queue's order, and that workers run
  different tasks already taken).  `Stopping` is what makes `AtMostOneLateTask` inductive: from
  `late[w] = 1` alone a worker in state `"pop"` could take a second task.  `Joining`
  yields `NoWorkerOutlivesPool`.  `PoolImplementsTaskPool` maps each step to a step of `TaskPool` or a
  stutter; `Serving` is needed for `StartTask` (the task started is the next of `pushed`, and the
  number of running tasks is that of running workers) and `Joining` for the closing step.

`WebServerProofs`
: `TypeCorrect` rests on two facts.  Tables only grow (`Keeps`), so what a handler learned
  by a SELECT (`Known`: a row of its account exists, its user id is one) stays true
  whatever other requests do; `StepTypes` reduces each statement to its own request.  The least id
  a SELECT steps to exists (`LeastIsThere`).  `Duplicates` (`DuplicatesOnlyFromOverlap`) adds `Checked`: a
  signup about to insert remembers how many rows its SELECT saw, and none of these has
  its account; every other statement is `Quiet`.  `AnswersTell` (`AnswersTellTheOutcome`) needs what is true
  of a request before it answers (`Tells`): no row and no post until its INSERT, and from then
  on an answer already decided, which the steps that set the cookie, failing or not, keep.

`SessionProofs`
: `Moves` describes each statement once, as what it does to its request, the tables and the lock; the
  invariants below are proved against that description.  `LoneFailures` (`LoneFailureFollowsRefusal`): a lock is left by
  a signup that has answered `"exists"` (`Locks`), and only the INSERT of a post makes it fail (`PostFailure`).
  `AuthorsAreRight` (`PostsCarryTheirAuthor`) and `LastLoginIsKnown` (`SessionOfLastLogin`) share the invariant `Sessions`.  A cookie other
  than 0 has the parity of the least id of the account it was made for (`Parity`: `CookieMod` is
  even, so wrapping keeps it), and that id stays the least (`LeastStays`); with two users the parity tells them apart
  (`SameAccount`).  `Wrote` says that rows a request updated hold the cookie it reads back until another
  request updates them.  `LastLoginIsKnown` has the hypothesis `NoWrap`, that no cookie of two users wraps
  round to the 0 of a new row: so it is with 32 bits until January 2038, and with the constants of the runs.

`BulletinPagesProofs`
: `IInv` says of each reader that the page shown is the one there was when there were `k` messages, for some `k` up to
  now, and what follows for the walk (`Walking`).  `NothingSkipped` needs that a walk whose SELECT went through has seen the newest
  `page * Limit` of those `k`, which later posts only make fewer (`WalkGoesOn`), and that what it has seen of the
  messages there at its start has no gap (`NoGap`), which a page left empty by a timeout does not change (`WalkEndsEmpty`).  For
  `RepeatsAreBoundedByPosts` it does not suffice to count the overlap of a page with the one before: more than `Limit` posts between
  two pages push the next one back over all that was seen.  `Repeats` therefore measures repeats against `low`, below
  which nothing was seen.  `FullPage` shows that a page with a Next link ends within the messages, so the next
  number and its `OFFSET` are exact, which `LinksLeadToPages` and the walks rest on.

`TCPServerProofs`
: `IInv` = `TypeOK`, `Sockets`, `CrashHasACause` and, while clients are well-behaved, `Tokens`.
  `OneOwnerPerDescriptor` is not inductive: it does not say that a connection with
  a task queued has no further edge to come.  `Tokens` does: a descriptor in an event, in the queue or with
  a worker about to receive is `Pending`, it has one segment to receive and is not in the ready list; a worker past
  `recv` `Serves` the connection its descriptor stands for, whose only segment it has taken.  So
  the one segment of a client is one token, which is in the ready list, an event, the queue
  or a worker, and moves one place at a time (`ClientTokens`, `MainTokens`, `WorkerTokens`).  A worker that
  touches only its own descriptor leaves the other tokens alone (`OthersKeep`); databases are disjoint from
  connections and from each other (`DatabasesKeep`).  `Sockets` (a connection is behind one descriptor, or in the
  backlog) holds whatever clients do.  `StaysGood` says that good behaviour, once lost, does not come back, so
  the step has it before and after.  `OneOwnerAlways`, `RepliesAlways`, `NeverBlocks` and `Causes` follow; for the last, `StepCause` goes through the steps that end the process:
  `NoTrouble` and `NoTaskNamesAFreeNumber` say which of them well-behaved clients never bring about.  `DescriptorsAreReturned`
  (`DescriptorsComeBack`) has the invariant `Ledger`: as long as clients are well-behaved, as many databases are open as there are
  workers rendering and stray requests that were rendered (`Balance`); a worker renders with one database (`OneDb`), and a closed
  connection is nowhere any more (`Gone`).  Each step is shown to move, add or take one element of these sets.

`HttpMessagesProofs`
: What the parser makes of a message is proved for messages of any length and any tokens.  The `std::getline` loops are
  folds over the tokens; `Scan` and `ReadDef` turn them into functions defined by their last step, and
  `SeqGrows`, induction on the length of a sequence, is proved here from the least number (the library's induction
  theorems take an operator).  `PiecesJoin` says where a text splits: at the first delimiter.  From it follow, part by part, that
  parsing undoes formatting: the request line, the Cookie line (`ListedRead`, `PairRead`), the form (`FormRead`), and, put
  together, the whole request (`FormatRead`, `WholeRead`).  The invariant is `IInv` = `BrowserOK`, `AskedOK` (the request is a
  prefix of what the browser's cookies, page and form say) and `AnswerOK` (a reply gives only the cookie last issued).
  `TypeCorrect`, `Understood` (`WholeRequestsAreUnderstood`) and `LastIssued` (`UuidIsTheLastIssued`) follow.
  For a request that `recv` returned in part the same is shown of every beginning (`Begins`) of it.  `ListedCut` says what is
  read of a list that is cut: some whole pairs and the beginning of the next.  `CookieCut` and `FieldCut` say what that
  beginning becomes, and `RequestCut` goes through the lines: what the parser finds is some cookies of which the last may be cut,
  and no form but what it takes the last line for (`JunkForm`), or all the cookies and the beginning of the form (`Seen`).
  Turned into maps (`ParsedCut`), it knows the first names (`Knows`).  That needs more of names than that they differ: a name that
  is cut must not be another name (`Clear`), and no field may begin as a line does, or the junk of a request cut in its
  head would pass for a form.  Both hold of what a browser sends (`FreshClear`, `FormClear`) and are the second
  invariant, `CutOK`, which also says that the process is down only with the request that made a handler throw.
  `OnlyLastCut` (`OnlyTheLastIsCut`) and `ThrowsOnlyCut` (`ThrowsOnlyOnCutCookie`) follow; for the second, a value of digits
  that `stoll` cannot read is empty (`EmptyIfDigits`), so the cut left one token or none after the equals sign (`TailOf`).

`StreamAppProofs`
: `IInv` = `TypeOK`, `Devices` (who has camera and connection, by place), `Births` (a host's
  two processes are born together, and only the child receives) and, for each host, `Stream`: while the sender is
  there, the pictures captured are those shown and those in encoder, wire and decoder; once it is gone, at most
  what its encoder held is missing from that sum.  `OnlyHeldAreLost` is what the sum says when the wire is
  empty; `Orphans` follows from `Devices`: one process of a host has the camera.

Only model-checked: the liveness properties, as TLAPS proves nothing about liveness under
fairness or about `ENABLED`.

## 5. What the code does otherwise than the repository says

* `tcp_early_close` (`EveryRequestAnswered`): a client closes after its request.  The close is a
  new edge, so a second task is submitted for the descriptor; the first task closes
  it, the second's `recv` returns -1, `request.assign(buffer, -1)` throws, and the server ends
  while another client waits for the page of `readme.md:66`.
* `web_leaked_lock` (`FailuresAreTransient`): after one refused signup no write ever commits again;
  users are told to "try again later".
* `web_cookie_collision` (`EveryPostCarriesItsAuthor`): `cookie = (time << 1) + id` gives users 1 and 3 one cookie
  when they are set one second apart; a post of user 3 is listed under user 1.

## 6. What is left out

Start-up failures before the first client (`socket`, `bind`, `listen` and `epoll_create1`
all exit); partial `send`s, which only repeat the loop of `sendAll`; more than `MAX_CONNECTION`
ready descriptors; memory, and so the buffer `response_thread` leaks on a 0-byte
`recv`, the packets `StreamClient::run` does not unreference and the buffer `~StreamServer` frees twice; the text of
pages and messages, and with it `replaceString`, `stringReplaceAll` and `url_escape`; the wording
of dates and content types; how the media libraries negotiate, scale and encode, which
either succeeds or ends the process, and their timeouts; `web_main`, which reads its arguments and
calls `start`; and `webcam.cpp`, which no program contains.
Also left out are failures of `EPOLL_CTL_ADD` for want of memory (`AddFails` is the one that threads bring about); in
`StreamApp`, a failed `fork` and exits of a sender while it retries to connect; SQLite's habit
to keep a database file's descriptor open while another connection of the process holds a lock on the file, which delays
when `Render` gives its descriptor back; and replies that get lost between server and browser in `HttpMessages` (`WebServer` has them).
`SQLITE_BUSY` of `sqlite3_prepare_v2` is folded into that of the step that follows
(the answer `"500"`, where the handler tells the two apart).

## 7. What could come next

* `HttpMessages` and `WebServer` as one: a cut request that the database answers.
