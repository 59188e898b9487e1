----------------------------- MODULE TCPServer -----------------------------
(***************************************************************************)
(* The connection life cycle of web_main: TCPServer::start, the epoll loop *)
(* of the main thread (src/tcp_server.cpp), and web::response_thread, the  *)
(* task a pool worker runs for a readable descriptor (src/web_server.cpp). *)
(*                                                                         *)
(* The kernel is external: descriptors are small numbers that accept hands *)
(* out lowest first, and close returns; epoll is edge-triggered, so a      *)
(* socket enters the ready list when something arrives on it and leaves it *)
(* when reported; an event names a descriptor, not the connection behind   *)
(* it.  The pool is the queue and the workers of ThreadPool, reduced to    *)
(* what TaskPool promises.  A request is a number of segments; of the      *)
(* rendering of its response only the descriptor of the database matters   *)
(* here, and whether it throws (what it does with the database, and when   *)
(* it throws, is in WebServer, BulletinPages and HttpMessages).  EpollWait *)
(* reports all ready sockets: MAX_CONNECTION, 1000, is taken to exceed     *)
(* their number.                                                           *)
(***************************************************************************)
EXTENDS Naturals, Sequences, FiniteSets

CONSTANTS
    Conns,        \* client connections, each with one request to make
    Fds,          \* descriptors left for connections and databases, numbers
    Workers,      \* threads of the pool
    Need,         \* [Conns -> Nat \ {0}]: segments a request arrives in
    BUFFER_SIZE,  \* segments one recv can take
    Faults,       \* what clients may do: "fin" close, "reset" abort
    Strays,       \* those whose handler leaves a statement unfinalized: a
                  \* login for no account, a refused signup, a lost cookie
    Risky,        \* those whose handler may throw: a login while another has
                  \* the database, a page number no int holds, an empty cookie
    Deaf,         \* those that do not read what the server sends
    Hello,        \* hello_fd
    Db,           \* what a database's descriptor refers to
    NoConn

ASSUME ServerAssumption ==
    /\ Fds \subseteq Nat /\ Hello \notin Fds \cup Conns \cup {Db, NoConn}
    /\ NoConn \notin Conns /\ Db \notin Conns \cup {NoConn}
    /\ IsFiniteSet(Conns) /\ IsFiniteSet(Fds) /\ IsFiniteSet(Workers)
    /\ Strays \subseteq Conns /\ Risky \subseteq Conns /\ Deaf \subseteq Conns
    /\ Need \in [Conns -> Nat \ {0}]
    /\ BUFFER_SIZE \in Nat \ {0}
    /\ Faults \subseteq {"fin", "reset"}

VARIABLES
    max_queue,   \* the listen backlog, never initialised by the code
    peer,        \* the client's end of each connection
    sent, rx,    \* segments sent by the client, and those not yet received
    backlog,     \* connections to accept
    fdtab,       \* what each descriptor refers to
    gone,        \* connections the server has closed
    ready,       \* epoll's ready list
    events,      \* events of the last epoll_wait still to handle
    main,        \* "loop" or "accept", the inner loop of acceptConnection
    work_queue,  \* descriptors of the submitted tasks
    task,        \* what each worker does
    reply,       \* what each client has received
    down         \* how the process ended, "no" while it runs

kernel == <<backlog, fdtab, gone, ready>>
client == <<max_queue, peer, sent>>
vars == <<client, rx, kernel, events, main, work_queue, task, reply, down>>

Free == {f \in Fds : fdtab[f] = NoConn}
Open(c) == \E f \in Fds : fdtab[f] = c
FdOf(c) == CHOOSE f \in Fds : fdtab[f] = c

Idle == [pc |-> "idle"]
Part(c, whole, part) == [of |-> c, whole |-> whole, part |-> part]

(* listen gets an indeterminate max_queue; the kernel makes it at least 1. *)
Init == /\ max_queue \in 1..Cardinality(Conns)
        /\ peer = [c \in Conns |-> "idle"]
        /\ sent = [c \in Conns |-> 0] /\ rx = [c \in Conns |-> 0]
        /\ backlog = <<>> /\ gone = {}
        /\ fdtab = [f \in Fds |-> NoConn]
        /\ ready = {} /\ events = {} /\ main = "loop"
        /\ work_queue = <<>>
        /\ task = [w \in Workers |-> Idle]
        /\ reply = [c \in Conns |-> <<>>]
        /\ down = "no"

(* Something arrives on socket s: it is in the ready list, once. *)
Wake(s) == ready \cup {s}

(* close(f), of whatever f refers to by now; a bad f is not noticed.  The   *)
(* last reference gone, the socket also leaves the ready list.              *)
CloseFd(f) ==
    IF fdtab[f] = NoConn THEN UNCHANGED kernel
    ELSE /\ gone' = gone \cup ({fdtab[f]} \cap Conns)
         /\ fdtab' = [fdtab EXCEPT ![f] = NoConn]
         /\ ready' = ready \ {fdtab[f]}
         /\ UNCHANGED backlog

-----------------------------------------------------------------------------
(* Clients. *)

Connect(c) ==
    /\ peer[c] = "idle" /\ Len(backlog) < max_queue
    /\ peer' = [peer EXCEPT ![c] = "open"]
    /\ backlog' = Append(backlog, c)
    /\ ready' = Wake(Hello)
    /\ UNCHANGED <<max_queue, sent, rx, fdtab, gone, events, main, work_queue, task, reply, down>>

Arrive(c) ==  \* the edge an arrival on c makes
    /\ ready' = IF Open(c) THEN Wake(c) ELSE ready
    /\ UNCHANGED <<max_queue, backlog, fdtab, gone, events, main, work_queue, task, reply, down>>

ClientSend(c) ==
    /\ peer[c] = "open" /\ c \notin gone /\ sent[c] < Need[c]
    /\ sent' = [sent EXCEPT ![c] = @ + 1]
    /\ rx' = [rx EXCEPT ![c] = @ + 1]
    /\ Arrive(c) /\ UNCHANGED peer

ClientFin(c) ==
    /\ "fin" \in Faults /\ peer[c] = "open" /\ c \notin gone
    /\ peer' = [peer EXCEPT ![c] = "fin"]
    /\ Arrive(c) /\ UNCHANGED <<sent, rx>>

ClientReset(c) ==
    /\ "reset" \in Faults /\ peer[c] \in {"open", "fin"} /\ c \notin gone
    /\ peer' = [peer EXCEPT ![c] = "reset"]
    /\ Arrive(c) /\ UNCHANGED <<sent, rx>>

-----------------------------------------------------------------------------
(* The main thread, TCPServer::start. *)

Readable(s) == IF s = Hello THEN backlog # <<>>
               ELSE rx[s] > 0 \/ peer[s] \in {"fin", "reset"}
Event(s) == IF s = Hello THEN [fd |-> Hello, hup |-> FALSE]
            ELSE [fd |-> FdOf(s), hup |-> peer[s] = "reset"]

MutEpollWait ==  \* mutant: without EPOLLET, level-triggered
    /\ main = "loop" /\ events = {}
    /\ LET readable == {s \in ready : Readable(s)}
       IN  /\ readable # {}
           /\ events' = {Event(s) : s \in readable}
           /\ ready' = readable
    /\ UNCHANGED <<client, rx, backlog, fdtab, gone, main, work_queue, task, reply, down>>

EpollWait ==
    /\ main = "loop" /\ events = {}
    /\ LET readable == {s \in ready : Readable(s)}
       IN  /\ readable # {}
           /\ events' = {Event(s) : s \in readable}
           /\ ready' = {}
    /\ UNCHANGED <<client, rx, backlog, fdtab, gone, main, work_queue, task, reply, down>>

(* The three branches of the loop over events, which are in whatever order  *)
(* the kernel lists them: EPOLLERR or EPOLLHUP,                             *)
Handled(e) ==
    /\ main = "loop" /\ e \in events
    /\ events' = events \ {e}

HangUp(e) ==
    /\ Handled(e) /\ e.hup
    /\ CloseFd(e.fd)
    /\ UNCHANGED <<client, rx, main, work_queue, task, reply, down>>

(* the listening socket, *)
AcceptEvent(e) ==
    /\ Handled(e) /\ e.fd = Hello
    /\ main' = "accept"
    /\ UNCHANGED <<client, rx, kernel, work_queue, task, reply, down>>

MutSubmit(e) ==  \* mutant: the listening socket has no branch of its own
    /\ Handled(e) /\ ~e.hup
    /\ work_queue' = Append(work_queue, e.fd)
    /\ UNCHANGED <<client, rx, kernel, main, task, reply, down>>

(* and a readable connection, whose descriptor goes to the pool. *)
Submit(e) ==
    /\ Handled(e) /\ ~e.hup /\ e.fd # Hello
    /\ work_queue' = Append(work_queue, e.fd)
    /\ UNCHANGED <<client, rx, kernel, main, task, reply, down>>

MutAccept ==  \* mutant: one accept per event, no loop
    /\ main = "accept" /\ backlog # <<>>
    /\ \E f \in Free :
        /\ \A g \in Free : f <= g
        /\ fdtab' = [fdtab EXCEPT ![f] = Head(backlog)]
    /\ backlog' = Tail(backlog)
    /\ ready' = IF Readable(Head(backlog)) THEN Wake(Head(backlog)) ELSE ready
    /\ main' = "loop"
    /\ UNCHANGED <<client, rx, gone, events, work_queue, task, reply, down>>

(* accept and EPOLL_CTL_ADD, which reports what has already arrived. *)
Accept ==
    /\ main = "accept" /\ backlog # <<>>
    /\ \E f \in Free :
        /\ \A g \in Free : f <= g
        /\ fdtab' = [fdtab EXCEPT ![f] = Head(backlog)]
    /\ backlog' = Tail(backlog)
    /\ ready' = IF Readable(Head(backlog)) THEN Wake(Head(backlog)) ELSE ready
    /\ UNCHANGED <<client, rx, gone, events, main, work_queue, task, reply, down>>

AcceptAgain ==  \* EAGAIN
    /\ main = "accept" /\ backlog = <<>> /\ Free # {}
    /\ main' = "loop"
    /\ UNCHANGED <<client, rx, kernel, events, work_queue, task, reply, down>>

(* EMFILE, which accept returns with no descriptor left even when nobody   *)
(* waits: any error but EAGAIN is an exit.                                  *)
AcceptFails ==
    /\ main = "accept" /\ Free = {}
    /\ down' = "exit"
    /\ UNCHANGED <<client, rx, kernel, events, main, work_queue, task, reply>>

(* EBADF from EPOLL_CTL_ADD, another exit: a worker whose task names the    *)
(* number accept has just handed out closes it before the socket is added.  *)
AddFails ==
    /\ main = "accept" /\ backlog # <<>>
    /\ \E f \in Free, w \in Workers :
        /\ \A g \in Free : f <= g
        /\ \/ task[w].pc = "close"
           \/ task[w].pc = "recv" /\ rx[Head(backlog)] = 0 /\ peer[Head(backlog)] = "fin"
        /\ task[w].fd = f
    /\ down' = "exit"
    /\ UNCHANGED <<client, rx, kernel, events, main, work_queue, task, reply>>

-----------------------------------------------------------------------------
(* A worker, web::response_thread(conn_fd). *)

Now(w, t) == task' = [task EXCEPT ![w] = t]

TakeTask(w) ==
    /\ task[w] = Idle /\ work_queue # <<>>
    /\ Now(w, [pc |-> "recv", fd |-> Head(work_queue)])
    /\ work_queue' = Tail(work_queue)
    /\ UNCHANGED <<client, rx, kernel, events, main, reply, down>>

(* recv returns what has arrived, up to the buffer; the response is made    *)
(* from that, with a database the constructor of WebServer opens.  With     *)
(* nothing to receive from an open peer recv blocks.                        *)
Recv(w) ==
    /\ task[w].pc = "recv"
    /\ LET c == fdtab[task[w].fd]
           got == IF rx[c] > BUFFER_SIZE THEN BUFFER_SIZE ELSE rx[c]
       IN  /\ c \in Conns /\ rx[c] > 0
           /\ rx' = [rx EXCEPT ![c] = @ - got]
           /\ \E f \in Free :
                /\ \A g \in Free : f <= g
                /\ fdtab' = [fdtab EXCEPT ![f] = Db]
                /\ Now(w, [pc |-> "render", fd |-> task[w].fd, of |-> c, db |-> {f},
                           whole |-> got = Need[c], shifted |-> FALSE])
    /\ UNCHANGED <<client, backlog, gone, ready, events, main, work_queue, reply, down>>

(* sqlite3_open finds no descriptor left: exit. *)
OpenFails(w) ==
    /\ task[w].pc = "recv" /\ Free = {}
    /\ LET c == fdtab[task[w].fd] IN c \in Conns /\ rx[c] > 0
    /\ down' = "exit"
    /\ UNCHANGED <<client, rx, kernel, events, main, work_queue, task, reply>>

MutRender(w) ==  \* mutant: no statement is finalized
    /\ task[w].pc = "render"
    /\ Now(w, [task[w] EXCEPT !.pc = "header", !.db = {}])
    /\ UNCHANGED <<client, rx, kernel, events, main, work_queue, reply, down>>

(* The response is rendered, and the destructor closes the database; which  *)
(* sqlite3_close refuses while a statement is not finalized.                *)
Render(w) ==
    /\ task[w].pc = "render"
    /\ Now(w, [task[w] EXCEPT !.pc = "header", !.db = {}])
    /\ IF task[w].of \in Strays THEN UNCHANGED kernel
       ELSE \E f \in task[w].db : CloseFd(f)
    /\ UNCHANGED <<client, rx, events, main, work_queue, reply, down>>

(* The handler throws, and nobody catches: std::string(NULL) in login_post  *)
(* when the SELECT ends with SQLITE_BUSY, std::stoi in bulletin_get of a    *)
(* page number that no int holds, std::stoll in getIDByCookie of a cookie   *)
(* without digits.                                                          *)
RenderThrows(w) ==
    /\ task[w].pc = "render" /\ task[w].of \in Risky
    /\ down' = "throw"
    /\ UNCHANGED <<client, rx, kernel, events, main, work_queue, task, reply>>

(* recv returns 0: close, return. *)
RecvEnd(w) ==
    /\ task[w].pc = "recv"
    /\ LET c == fdtab[task[w].fd]
       IN  c \in Conns /\ rx[c] = 0 /\ peer[c] = "fin"
    /\ CloseFd(task[w].fd)
    /\ Now(w, Idle)
    /\ UNCHANGED <<client, rx, events, main, work_queue, reply, down>>

(* recv returns -1, for a reset connection and for what is no socket:       *)
(* request.assign(buffer, -1) throws, nobody catches.                       *)
RecvError(w) ==
    /\ task[w].pc = "recv"
    /\ LET c == fdtab[task[w].fd]
       IN  c \in Conns => rx[c] = 0 /\ peer[c] = "reset"
    /\ down' = "terminate"
    /\ UNCHANGED <<client, rx, kernel, events, main, work_queue, task, reply>>

(* sendAll(header), then sendAll(file_data) unless that is empty. *)
Send(w) ==
    /\ task[w].pc \in {"header", "body"}
    /\ LET c == fdtab[task[w].fd]
           part == IF task[w].shifted THEN "garbled" ELSE task[w].pc
       IN  /\ c \in Conns /\ peer[c] # "reset"
           /\ reply' = [reply EXCEPT ![c] = Append(@, Part(task[w].of, task[w].whole, part))]
    /\ \/ task[w].pc = "header" /\ Now(w, [task[w] EXCEPT !.pc = "body", !.shifted = FALSE])
       \/ Now(w, [task[w] EXCEPT !.pc = "close", !.shifted = FALSE])
    /\ UNCHANGED <<client, rx, kernel, events, main, work_queue, down>>

(* send returns -1 for a closed descriptor, or a database's: sendAll steps  *)
(* its pointer back and tries again, until the number is some connection's. *)
SendOnClosed(w) ==
    /\ task[w].pc \in {"header", "body"} /\ ~task[w].shifted
    /\ fdtab[task[w].fd] \notin Conns
    /\ Now(w, [task[w] EXCEPT !.shifted = TRUE])
    /\ UNCHANGED <<client, rx, kernel, events, main, work_queue, reply, down>>

(* The second send to a peer that reset raises SIGPIPE, which is not handled. *)
SendToReset(w) ==
    /\ task[w].pc \in {"header", "body"}
    /\ LET c == fdtab[task[w].fd] IN c \in Conns /\ peer[c] = "reset"
    /\ down' = "sigpipe"
    /\ UNCHANGED <<client, rx, kernel, events, main, work_queue, task, reply>>

MutCloseConn(w) ==  \* mutant: the descriptor is closed twice
    /\ task[w].pc = "close"
    /\ CloseFd(task[w].fd)
    /\ Now(w, Idle) \/ UNCHANGED task
    /\ UNCHANGED <<client, rx, events, main, work_queue, reply, down>>

CloseConn(w) ==
    /\ task[w].pc = "close"
    /\ CloseFd(task[w].fd)
    /\ Now(w, Idle)
    /\ UNCHANGED <<client, rx, events, main, work_queue, reply, down>>

-----------------------------------------------------------------------------
Client(c) == Connect(c) \/ ClientSend(c) \/ ClientFin(c) \/ ClientReset(c)
Main == \/ EpollWait
        \/ \E e \in events : HangUp(e) \/ AcceptEvent(e) \/ Submit(e)
        \/ Accept \/ AcceptAgain \/ AcceptFails \/ AddFails
Worker(w) == \/ TakeTask(w) \/ Recv(w) \/ RecvEnd(w) \/ RecvError(w)
             \/ OpenFails(w) \/ Render(w) \/ RenderThrows(w)
             \/ Send(w) \/ SendOnClosed(w) \/ SendToReset(w) \/ CloseConn(w)

Next == /\ down = "no"
        /\ \/ \E c \in Conns : Client(c)
           \/ Main
           \/ \E w \in Workers : Worker(w)

(* A send may block for ever once the socket buffer of a client that does   *)
(* not read is full.                                                        *)
Stuck(w) == task[w].pc \in {"header", "body"} /\ fdtab[task[w].fd] \in Deaf

(* The threads of the server run; clients need not do anything. *)
Fairness == /\ WF_vars(down = "no" /\ Main)
            /\ \A w \in Workers : WF_vars(down = "no" /\ ~Stuck(w) /\ Worker(w))

Spec == Init /\ [][Next]_vars /\ Fairness

-----------------------------------------------------------------------------
TaskType ==
    {Idle}
    \cup [pc : {"recv"}, fd : Fds]
    \cup [pc : {"render", "header", "body", "close"}, fd : Fds, of : Conns,
          db : SUBSET Fds, whole : BOOLEAN, shifted : BOOLEAN]

TypeOK ==
    /\ max_queue \in 1..Cardinality(Conns)
    /\ peer \in [Conns -> {"idle", "open", "fin", "reset"}]
    /\ sent \in [Conns -> Nat] /\ rx \in [Conns -> Nat]
    /\ \A c \in Conns : rx[c] <= sent[c] /\ sent[c] <= Need[c]
    /\ backlog \in Seq(Conns) /\ gone \subseteq Conns
    /\ fdtab \in [Fds -> Conns \cup {Db, NoConn}]
    /\ ready \subseteq Conns \cup {Hello}
    /\ events \subseteq [fd : Fds \cup {Hello}, hup : BOOLEAN]
    /\ main \in {"loop", "accept"}
    /\ work_queue \in Seq(Fds)
    /\ task \in [Workers -> TaskType]
    /\ reply \in [Conns -> Seq([of : Conns, whole : BOOLEAN,
                                part : {"header", "body", "garbled"}])]
    /\ down \in {"no", "exit", "terminate", "sigpipe", "throw"}

(* A client that sends its request in one segment and waits for the answer. *)
WellBehaved ==
    \A c \in Conns : sent[c] <= 1 /\ peer[c] \in {"idle", "open"}

Busy == {w \in Workers : task[w] # Idle}
TaskFd(w) == task[w].fd

(* While clients are well-behaved, each descriptor is in one place only of  *)
(* event, queue and worker: no two threads ever work on one connection.     *)
OneOwner ==
    /\ \A d, e \in events : d # e => d.fd # e.fd
    /\ \A i, j \in DOMAIN work_queue : i # j => work_queue[i] # work_queue[j]
    /\ \A v, w \in Busy : v # w => TaskFd(v) # TaskFd(w)
    /\ \A e \in events, j \in DOMAIN work_queue : e.fd # work_queue[j]
    /\ \A e \in events, w \in Busy : e.fd # TaskFd(w)
    /\ \A j \in DOMAIN work_queue, w \in Busy : work_queue[j] # TaskFd(w)
OneOwnerPerDescriptor == WellBehaved => OneOwner

(* While clients are well-behaved, what a client receives is the header and *)
(* then the body of the answer to its own request, though descriptors are   *)
(* closed and handed out again all the time.                                *)
RepliesReachTheirAuthors == WellBehaved =>
    \A c \in Conns : \A i \in DOMAIN reply[c] :
        \/ i = 1 /\ reply[c][i] = Part(c, Need[c] = 1, "header")
        \/ i = 2 /\ reply[c][i] = Part(c, Need[c] = 1, "body")

(* While clients are well-behaved, recv finds data: a client that connects  *)
(* and stays silent holds no worker.                                        *)
NoWorkerBlocks == WellBehaved =>
    \A w \in Workers : task[w].pc = "recv" =>
        fdtab[TaskFd(w)] \in Conns /\ rx[fdtab[TaskFd(w)]] > 0

(* The process ends for four reasons only: descriptors run out; the handler *)
(* of a request throws, whatever clients do; a peer has reset; or some      *)
(* client did more than send one segment and wait.                          *)
CrashHasACause ==
    /\ down = "exit" => Free = {} \/ ~WellBehaved
    /\ down = "terminate" => ~WellBehaved
    /\ down = "sigpipe" => \E c \in Conns : peer[c] = "reset"
    /\ down = "throw" => \E w \in Workers : task[w].pc = "render" /\ task[w].of \in Risky

(* A client that sent its request, reads and waits gets an answer to all of *)
(* it, and its connection is closed: no edge is lost between epoll, queue   *)
(* and workers, as long as a worker is left that no client who does not     *)
(* read holds up.  Two ends of the process leave such a client without an   *)
(* answer, and are excused: descriptors run out, or a handler throws, its   *)
(* own or another client's.                                                 *)
Answered(c) == /\ c \in gone /\ reply[c] # <<>>
               /\ reply[c][1] = Part(c, TRUE, "header")
EveryRequestAnswered ==
    \A c \in Conns \ Deaf :
        (sent[c] = Need[c]) ~> (Answered(c) \/ peer[c] # "open" \/ down \in {"exit", "throw"})

(* While clients are well-behaved, every descriptor taken is an open        *)
(* connection's, one of a database being used, or one of a database that a  *)
(* stray statement keeps: only strays use descriptors up, one each.         *)
Rendered(c) == c \in gone \/ \E w \in Workers :
                    task[w].pc \in {"header", "body", "close"} /\ task[w].of = c
DescriptorsComeBack == WellBehaved =>
    Cardinality(Fds \ Free) = Cardinality({c \in Conns : Open(c)})
                                + Cardinality({w \in Workers : task[w].pc = "render"})
                                + Cardinality({c \in Strays : Rendered(c)})
=============================================================================
