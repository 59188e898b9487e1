--------------------------- MODULE TCPServerProofs ---------------------------
(***************************************************************************)
(* For any connections, descriptors and workers: the types of TCPServer,   *)
(* what it promises to well-behaved clients, and why it may end.           *)
(***************************************************************************)
EXTENDS TCPServer, TLAPS, FiniteSetTheorems, FunctionTheorems

(* Every connection is in one place: waiting to be accepted, or behind one  *)
(* descriptor, and only the open ones are in epoll's ready list.            *)
Sockets ==
  /\ \A f, g \in Fds : fdtab[f] \in Conns /\ fdtab[f] = fdtab[g] => f = g
  /\ \A f \in Fds : fdtab[f] \in Conns => peer[fdtab[f]] # "idle"
  /\ \A i \in DOMAIN backlog : peer[backlog[i]] # "idle" /\ ~Open(backlog[i])
  /\ \A i, j \in DOMAIN backlog : i # j => backlog[i] # backlog[j]
  /\ \A c \in Conns : c \in ready => Open(c)
  /\ \A e \in events : e.fd = Hello => ~e.hup

(* While clients are well-behaved, a descriptor that is in an event, in the *)
(* queue or with a worker about to receive has a request to take, of which  *)
(* no further notice is on its way.                                         *)
Pending(f) == /\ fdtab[f] \in Conns
              /\ rx[fdtab[f]] = 1
              /\ fdtab[f] \notin ready

(* A worker past recv works for the connection its descriptor stands for.   *)
Serves(w) == /\ fdtab[TaskFd(w)] = task[w].of
             /\ rx[task[w].of] = 0 /\ sent[task[w].of] = 1
             /\ task[w].shifted = FALSE
             /\ task[w].whole = (Need[task[w].of] = 1)
             /\ task[w].pc \in {"render", "header"} => reply[task[w].of] = <<>>
             /\ task[w].pc = "body" =>
                  reply[task[w].of] = << Part(task[w].of, Need[task[w].of] = 1, "header") >>

Tokens ==
  /\ OneOwner
  /\ \A c \in Conns : c \in ready => rx[c] = 1
  /\ \A e \in events : e.fd # Hello => Pending(e.fd) /\ ~e.hup
  /\ \A j \in DOMAIN work_queue : Pending(work_queue[j])
  /\ \A w \in Busy : IF task[w].pc = "recv" THEN Pending(TaskFd(w)) ELSE Serves(w)
  /\ \A w \in Workers : task[w].pc = "render" => \A f \in task[w].db : fdtab[f] = Db
  /\ \A v, w \in Workers : v # w /\ task[v].pc = "render" /\ task[w].pc = "render" =>
       task[v].db \cap task[w].db = {}
  /\ \A c \in Conns : rx[c] = 1 \/ sent[c] = 0 => reply[c] = <<>>
  /\ RepliesReachTheirAuthors

IInv == TypeOK /\ Sockets /\ (WellBehaved => Tokens) /\ CrashHasACause

-----------------------------------------------------------------------------
(* What a task looks like, without its record. *)
LEMMA Tasks ==
  ASSUME TypeOK, NEW w \in Workers
  PROVE  /\ task[w] \in TaskType
         /\ w \in Busy <=> task[w].pc # "idle"
         /\ task[w].pc = "idle" <=> task[w] = Idle
         /\ task[w].pc \in {"idle", "recv", "render", "header", "body", "close"}
         /\ w \in Busy => TaskFd(w) \in Fds
         /\ task[w].pc \in {"render", "header", "body", "close"} =>
              task[w].of \in Conns /\ task[w].whole \in BOOLEAN
<1>1. task[w] \in TaskType
  BY DEF TypeOK
<1>2. /\ task[w] = Idle => task[w].pc = "idle"
      /\ task[w] # Idle => /\ task[w].pc \in {"recv", "render", "header", "body", "close"}
                           /\ task[w].fd \in Fds
                           /\ task[w].pc # "recv" => task[w].of \in Conns /\ task[w].whole \in BOOLEAN
  <2>1. task[w] = Idle => task[w].pc = "idle"
    BY DEF Idle
  <2>2. CASE task[w] \in [pc : {"recv"}, fd : Fds]
    BY <2>1, <2>2
  <2>3. CASE task[w] \in [pc : {"render", "header", "body", "close"}, fd : Fds, of : Conns,
                          db : SUBSET Fds, whole : BOOLEAN, shifted : BOOLEAN]
    BY <2>1, <2>3
  <2> QED BY <1>1, <2>1, <2>2, <2>3 DEF TaskType
<1> QED BY <1>1, <1>2 DEF Busy, TaskFd

LEMMA Fields ==
  ASSUME NEW t \in TaskType, t.pc \in {"render", "header", "body", "close"}
  PROVE  /\ t.fd \in Fds /\ t.of \in Conns /\ t.db \in SUBSET Fds
         /\ t.whole \in BOOLEAN /\ t.shifted \in BOOLEAN
BY DEF TaskType, Idle

(* The steps of a worker lead from task to task. *)
LEMMA Tasklets ==
  /\ Idle \in TaskType
  /\ \A f \in Fds : [pc |-> "recv", fd |-> f] \in TaskType
  /\ \A f \in Fds, c \in Conns, d \in SUBSET Fds, b \in BOOLEAN :
       [pc |-> "render", fd |-> f, of |-> c, db |-> d, whole |-> b, shifted |-> FALSE] \in TaskType
  /\ \A t \in TaskType : t.pc = "render" =>
       [t EXCEPT !.pc = "header", !.db = {}] \in TaskType
  /\ \A t \in TaskType : t.pc \in {"header", "body"} =>
       /\ [t EXCEPT !.pc = "body", !.shifted = FALSE] \in TaskType
       /\ [t EXCEPT !.pc = "close", !.shifted = FALSE] \in TaskType
       /\ [t EXCEPT !.shifted = TRUE] \in TaskType
<1> DEFINE Late == [pc : {"render", "header", "body", "close"}, fd : Fds, of : Conns,
                    db : SUBSET Fds, whole : BOOLEAN, shifted : BOOLEAN]
<1>1. TaskType = {Idle} \cup [pc : {"recv"}, fd : Fds] \cup Late
  BY DEF TaskType
<1>2. \A t \in TaskType : t.pc \in {"render", "header", "body"} => t \in Late
  <2>1. \A t \in [pc : {"recv"}, fd : Fds] : t.pc = "recv"
    OBVIOUS
  <2>2. Idle.pc = "idle"
    BY DEF Idle
  <2> HIDE DEF Late
  <2> QED BY <1>1, <2>1, <2>2
<1>3. \A f \in Fds, c \in Conns, d \in SUBSET Fds, b \in BOOLEAN :
        [pc |-> "render", fd |-> f, of |-> c, db |-> d, whole |-> b, shifted |-> FALSE] \in Late
  OBVIOUS
<1>4. \A t \in Late : /\ [t EXCEPT !.pc = "header", !.db = {}] \in Late
                      /\ [t EXCEPT !.pc = "body", !.shifted = FALSE] \in Late
                      /\ [t EXCEPT !.pc = "close", !.shifted = FALSE] \in Late
                      /\ [t EXCEPT !.shifted = TRUE] \in Late
  OBVIOUS
<1>5. \A f \in Fds : [pc |-> "recv", fd |-> f] \in [pc : {"recv"}, fd : Fds]
  OBVIOUS
<1> HIDE DEF Late
<1> QED BY <1>1, <1>2, <1>3, <1>4, <1>5

LEMMA InitIInv == Init => IInv
<1> SUFFICES ASSUME Init PROVE IInv
  OBVIOUS
<1>1. TypeOK
  BY ServerAssumption DEF Init, TypeOK, TaskType
<1>2. Sockets
  BY ServerAssumption DEF Init, Sockets, Open
<1>3. Tokens
  BY DEF Init, Tokens, OneOwner, Busy, Idle, RepliesReachTheirAuthors
<1> QED BY <1>1, <1>2, <1>3 DEF IInv, Init, CrashHasACause

-----------------------------------------------------------------------------
(* close takes a descriptor from what it stood for, and from nothing else.  *)
LEMMA Closed ==
  ASSUME TypeOK, NEW f \in Fds, CloseFd(f)
  PROVE  /\ fdtab' \in [Fds -> Conns \cup {Db, NoConn}]
         /\ fdtab'[f] = NoConn
         /\ \A g \in Fds : g # f => fdtab'[g] = fdtab[g]
         /\ gone' \subseteq Conns /\ backlog' = backlog
         /\ ready' \subseteq ready
         /\ \A c \in Conns : c \in ready' <=> c \in ready /\ c # fdtab[f]
<1>1. CASE fdtab[f] = NoConn
  BY <1>1, ServerAssumption DEF CloseFd, kernel, TypeOK
<1>2. CASE fdtab[f] # NoConn
  BY <1>2 DEF CloseFd, TypeOK
<1> QED BY <1>1, <1>2

LEMMA TypeOfNow ==
  ASSUME TypeOK, NEW w \in Workers, NEW t \in TaskType, Now(w, t)
  PROVE  task' \in [Workers -> TaskType]
BY DEF TypeOK, Now

(* A step of a client, *)
LEMMA ClientTypes ==
  ASSUME TypeOK, NEW c \in Conns, Client(c) PROVE TypeOK'
<1>1. CASE Connect(c)
  BY <1>1 DEF Connect, Wake, TypeOK
<1>2. ASSUME ClientSend(c) PROVE TypeOK'
  <2>1. /\ sent' = [sent EXCEPT ![c] = @ + 1] /\ rx' = [rx EXCEPT ![c] = @ + 1]
        /\ sent[c] < Need[c] /\ sent[c] \in Nat /\ rx[c] \in Nat
        /\ rx[c] <= sent[c] /\ Need[c] \in Nat
    BY <1>2, ServerAssumption DEF ClientSend, TypeOK
  <2>2. sent' \in [Conns -> Nat] /\ rx' \in [Conns -> Nat]
    BY <2>1 DEF TypeOK
  <2>3. \A d \in Conns : rx'[d] <= sent'[d] /\ sent'[d] <= Need[d]
    BY <2>1 DEF TypeOK
  <2> QED BY <1>2, <2>2, <2>3 DEF ClientSend, Arrive, Wake, TypeOK
<1>3. CASE ClientFin(c)
  BY <1>3 DEF ClientFin, Arrive, Wake, TypeOK
<1>4. CASE ClientReset(c)
  BY <1>4 DEF ClientReset, Arrive, Wake, TypeOK
<1> QED BY <1>1, <1>2, <1>3, <1>4 DEF Client

(* of the main thread, *)
LEMMA MainTypes == ASSUME TypeOK, Sockets, Main PROVE TypeOK'
<1>1. ASSUME EpollWait PROVE TypeOK'
  <2>1. \A s \in ready : Event(s) \in [fd : Fds \cup {Hello}, hup : BOOLEAN]
    BY DEF Event, FdOf, Open, Sockets, TypeOK
  <2>2. /\ events' = {Event(s) : s \in {r \in ready : Readable(r)}} /\ ready' = {}
        /\ UNCHANGED <<client, rx, backlog, fdtab, gone, main, work_queue, task, reply, down>>
    BY <1>1 DEF EpollWait
  <2>3. events' \subseteq [fd : Fds \cup {Hello}, hup : BOOLEAN]
    BY <2>1, <2>2
  <2> QED BY <2>2, <2>3 DEF client, TypeOK
<1>2. ASSUME NEW e \in events, HangUp(e) PROVE TypeOK'
  <2>1. e.fd \in Fds
    BY <1>2 DEF HangUp, Sockets, TypeOK
  <2> QED BY <1>2, <2>1, Closed DEF HangUp, Handled, client, TypeOK
<1>3. ASSUME NEW e \in events, AcceptEvent(e) PROVE TypeOK'
  BY <1>3 DEF AcceptEvent, Handled, client, kernel, TypeOK
<1>4. ASSUME NEW e \in events, Submit(e) PROVE TypeOK'
  <2>1. e.fd \in Fds
    BY <1>4 DEF Submit, TypeOK
  <2>2. work_queue' \in Seq(Fds)
    BY <1>4, <2>1 DEF Submit, TypeOK
  <2> QED BY <1>4, <2>2 DEF Submit, Handled, client, kernel, TypeOK
<1>5. ASSUME Accept PROVE TypeOK'
  <2>1. /\ Head(backlog) \in Conns /\ Tail(backlog) \in Seq(Conns)
    BY <1>5 DEF Accept, TypeOK
  <2> QED BY <1>5, <2>1 DEF Accept, Free, Wake, client, TypeOK
<1>6. CASE AcceptAgain \/ AcceptFails \/ AddFails
  BY <1>6 DEF AcceptAgain, AcceptFails, AddFails, client, kernel, TypeOK
<1> QED BY <1>1, <1>2, <1>3, <1>4, <1>5, <1>6 DEF Main

(* and of a worker keep the types. *)
LEMMA WorkerTypes ==
  ASSUME TypeOK, NEW w \in Workers, Worker(w) PROVE TypeOK'
<1>0. /\ task[w] \in TaskType
      /\ task[w].pc \in {"recv", "render", "header", "body", "close"} => task[w].fd \in Fds
      /\ task[w].pc \in {"render", "header", "body", "close"} =>
           task[w].of \in Conns /\ task[w].whole \in BOOLEAN
  BY Tasks DEF TaskFd
<1>1. ASSUME TakeTask(w) PROVE TypeOK'
  <2>1. Head(work_queue) \in Fds /\ Tail(work_queue) \in Seq(Fds)
    BY <1>1 DEF TakeTask, TypeOK
  <2>2. task' \in [Workers -> TaskType]
    BY <1>1, <2>1, Tasklets, TypeOfNow DEF TakeTask
  <2> QED BY <1>1, <2>1, <2>2 DEF TakeTask, client, kernel, TypeOK
<1>2. ASSUME Recv(w) PROVE TypeOK'
  <2> DEFINE c == fdtab[task[w].fd]
             got == IF rx[c] > BUFFER_SIZE THEN BUFFER_SIZE ELSE rx[c]
  <2>1. PICK f \in Free :
          /\ fdtab' = [fdtab EXCEPT ![f] = Db]
          /\ Now(w, [pc |-> "render", fd |-> task[w].fd, of |-> c, db |-> {f},
                     whole |-> got = Need[c], shifted |-> FALSE])
    BY <1>2 DEF Recv
  <2>2. /\ c \in Conns /\ rx' = [rx EXCEPT ![c] = @ - got] /\ task[w].pc = "recv"
        /\ UNCHANGED <<client, backlog, gone, ready, events, main, work_queue, reply, down>>
    BY <1>2 DEF Recv
  <2>3. f \in Fds /\ {f} \in SUBSET Fds /\ (got = Need[c]) \in BOOLEAN
    BY DEF Free
  <2>4. task' \in [Workers -> TaskType]
    <3> HIDE DEF c, got
    <3>1. [pc |-> "render", fd |-> task[w].fd, of |-> c, db |-> {f},
           whole |-> got = Need[c], shifted |-> FALSE] \in TaskType
      BY <1>0, <2>2, <2>3, Tasklets
    <3> QED BY <2>1, <3>1, TypeOfNow
  <2>5. rx' \in [Conns -> Nat] /\ \A d \in Conns : rx'[d] <= sent[d]
    <3>1. got \in Nat /\ got <= rx[c]
      BY <2>2, ServerAssumption DEF TypeOK
    <3>2. rx'[c] \in Nat /\ rx'[c] <= rx[c]
      BY <2>2, <3>1 DEF TypeOK
    <3> HIDE DEF c, got
    <3> QED BY <2>2, <3>2 DEF TypeOK
  <2>6. fdtab' \in [Fds -> Conns \cup {Db, NoConn}]
    BY <2>1 DEF TypeOK
  <2> QED BY <2>2, <2>4, <2>5, <2>6 DEF client, TypeOK
<1>3. ASSUME Render(w) PROVE TypeOK'
  <2>1. task' \in [Workers -> TaskType]
    BY <1>0, <1>3, Tasklets, TypeOfNow DEF Render
  <2>2. CASE UNCHANGED kernel
    BY <1>3, <2>1, <2>2 DEF Render, client, kernel, TypeOK
  <2>3. ASSUME NEW f \in task[w].db, CloseFd(f) PROVE TypeOK'
    <3>1. f \in Fds
      BY <1>0, <1>3, Fields DEF Render, Idle
    <3> QED BY <1>3, <2>1, <2>3, <3>1, Closed DEF Render, client, TypeOK
  <2> QED BY <1>3, <2>2, <2>3 DEF Render
<1>4. ASSUME RecvEnd(w) \/ CloseConn(w) PROVE TypeOK'
  <2>1. /\ task[w].fd \in Fds /\ CloseFd(task[w].fd) /\ Now(w, Idle)
        /\ UNCHANGED <<client, rx, events, main, work_queue, reply, down>>
    BY <1>0, <1>4 DEF RecvEnd, CloseConn
  <2>2. task' \in [Workers -> TaskType]
    BY <2>1, Tasklets, TypeOfNow
  <2> QED BY <2>1, <2>2, Closed DEF client, TypeOK
<1>5. ASSUME Send(w) PROVE TypeOK'
  <2> DEFINE c == fdtab[task[w].fd]
             part == IF task[w].shifted THEN "garbled" ELSE task[w].pc
  <2>1. /\ c \in Conns /\ task[w].pc \in {"header", "body"}
        /\ reply' = [reply EXCEPT ![c] = Append(@, Part(task[w].of, task[w].whole, part))]
        /\ UNCHANGED <<client, rx, kernel, events, main, work_queue, down>>
    BY <1>5 DEF Send
  <2>2. task' \in [Workers -> TaskType]
    BY <1>0, <1>5, Tasklets, TypeOfNow DEF Send
  <2>3. Part(task[w].of, task[w].whole, part)
          \in [of : Conns, whole : BOOLEAN, part : {"header", "body", "garbled"}]
    BY <1>0, <2>1 DEF Part
  <2>4. reply' \in [Conns -> Seq([of : Conns, whole : BOOLEAN,
                                  part : {"header", "body", "garbled"}])]
    BY <2>1, <2>3 DEF TypeOK
  <2> QED BY <2>1, <2>2, <2>4 DEF client, kernel, TypeOK
<1>6. ASSUME SendOnClosed(w) PROVE TypeOK'
  <2>1. task' \in [Workers -> TaskType]
    BY <1>0, <1>6, Tasklets, TypeOfNow DEF SendOnClosed
  <2> QED BY <1>6, <2>1 DEF SendOnClosed, client, kernel, TypeOK
<1>7. CASE OpenFails(w) \/ RenderThrows(w) \/ RecvError(w) \/ SendToReset(w)
  BY <1>7 DEF OpenFails, RenderThrows, RecvError, SendToReset, client, kernel, TypeOK
<1> QED BY <1>1, <1>2, <1>3, <1>4, <1>5, <1>6, <1>7 DEF Worker

-----------------------------------------------------------------------------
LEMMA CloseKeepsSockets ==
  ASSUME TypeOK, Sockets, NEW f \in Fds, CloseFd(f), peer' = peer, events' \subseteq events
  PROVE  Sockets'
<1>1. \A g \in Fds : fdtab'[g] \in Conns => fdtab'[g] = fdtab[g] /\ g # f
  BY Closed, ServerAssumption
<1>2. \A c \in Conns : Open(c)' => Open(c)
  BY <1>1 DEF Open
<1>3. \A c \in Conns : c \in ready' => Open(c)'
  <2> SUFFICES ASSUME NEW c \in Conns, c \in ready' PROVE Open(c)'
    OBVIOUS
  <2>1. c \in ready /\ c # fdtab[f]
    BY Closed
  <2>2. PICK g \in Fds : fdtab[g] = c
    BY <2>1 DEF Sockets, Open
  <2>3. fdtab'[g] = c
    BY <2>1, <2>2, Closed
  <2> QED BY <2>3 DEF Open
<1>4. \A i \in DOMAIN backlog : backlog[i] \in Conns
  BY DEF TypeOK
<1>5. backlog' = backlog
  BY Closed
<1> QED BY <1>1, <1>2, <1>3, <1>4, <1>5 DEF Sockets

(* Connections keep to their places in every step of a client, *)
LEMMA ClientSockets ==
  ASSUME TypeOK, Sockets, NEW c \in Conns, Client(c) PROVE Sockets'
<1>1. ASSUME Connect(c) PROVE Sockets'
  <2>1. /\ peer[c] = "idle" /\ peer' = [peer EXCEPT ![c] = "open"]
        /\ backlog' = Append(backlog, c) /\ ready' = ready \cup {Hello}
        /\ UNCHANGED <<fdtab, events>>
    BY <1>1 DEF Connect, Wake
  <2>2. \A d \in Conns : Open(d)' <=> Open(d)
    BY <2>1 DEF Open
  <2>3. /\ ~Open(c)
        /\ \A i \in DOMAIN backlog : backlog[i] # c
        /\ \A f \in Fds : fdtab[f] # c
    BY <2>1 DEF Sockets, Open
  <2>4. /\ DOMAIN backlog' = 1 .. Len(backlog) + 1 /\ Len(backlog) \in Nat
        /\ \A i \in DOMAIN backlog : backlog'[i] = backlog[i] /\ backlog[i] \in Conns
        /\ backlog'[Len(backlog) + 1] = c
        /\ DOMAIN backlog = 1 .. Len(backlog)
    BY <2>1 DEF TypeOK
  <2>5. \A d \in Conns : peer'[d] = IF d = c THEN "open" ELSE peer[d]
    BY <2>1 DEF TypeOK
  <2>6. \A f \in Fds : fdtab'[f] \in Conns => peer'[fdtab'[f]] # "idle"
    BY <2>1, <2>5 DEF Sockets
  <2>7. \A i \in DOMAIN backlog' : i \in DOMAIN backlog \/ i = Len(backlog) + 1
    BY <2>4
  <2>8. \A i \in DOMAIN backlog' : peer'[backlog'[i]] # "idle" /\ ~Open(backlog[i])'
    BY <2>2, <2>3, <2>4, <2>5, <2>7 DEF Sockets
  <2>9. \A i, j \in DOMAIN backlog' : i # j => backlog'[i] # backlog'[j]
    BY <2>3, <2>4, <2>7 DEF Sockets
  <2>10. \A d \in Conns : d \in ready' => Open(d)'
    BY <2>1, <2>2, ServerAssumption DEF Sockets
  <2> QED BY <2>1, <2>6, <2>8, <2>9, <2>10 DEF Sockets
<1>2. ASSUME ClientSend(c) \/ ClientFin(c) \/ ClientReset(c) PROVE Sockets'
  <2>1. /\ ready' = IF Open(c) THEN ready \cup {c} ELSE ready
        /\ UNCHANGED <<backlog, fdtab, events>>
        /\ peer[c] # "idle"
        /\ \A d \in Conns : peer[d] # "idle" => peer'[d] # "idle"
    BY <1>2 DEF ClientSend, ClientFin, ClientReset, Arrive, Wake, TypeOK
  <2>2. \A d \in Conns : Open(d)' <=> Open(d)
    BY <2>1 DEF Open
  <2>3. \A d \in Conns : d \in ready' => Open(d)'
    BY <2>1, <2>2 DEF Sockets
  <2>4. \A i \in DOMAIN backlog : backlog[i] \in Conns
    BY DEF TypeOK
  <2>5. \A i \in DOMAIN backlog' : peer'[backlog'[i]] # "idle" /\ ~Open(backlog[i])'
    BY <2>1, <2>2, <2>4 DEF Sockets
  <2> QED BY <2>1, <2>3, <2>5 DEF Sockets
<1> QED BY <1>1, <1>2 DEF Client

(* of the main thread, *)
LEMMA MainSockets == ASSUME TypeOK, Sockets, Main PROVE Sockets'
<1>1. ASSUME EpollWait PROVE Sockets'
  <2>1. /\ events' = {Event(s) : s \in {r \in ready : Readable(r)}} /\ ready' = {}
        /\ UNCHANGED <<backlog, fdtab, peer>>
    BY <1>1 DEF EpollWait, client
  <2>2. \A s \in ready : Event(s).fd = Hello => ~Event(s).hup
    BY ServerAssumption DEF Event, FdOf, Open, Sockets, TypeOK
  <2>3. \A d \in Conns : Open(d)' <=> Open(d)
    BY <2>1 DEF Open
  <2>4. \A i \in DOMAIN backlog : backlog[i] \in Conns
    BY DEF TypeOK
  <2> QED BY <2>1, <2>2, <2>3, <2>4 DEF Sockets
<1>2. ASSUME NEW e \in events, HangUp(e) PROVE Sockets'
  <2>1. e.fd \in Fds
    BY <1>2 DEF HangUp, Sockets, TypeOK
  <2>2. CloseFd(e.fd) /\ peer' = peer /\ events' \subseteq events
    BY <1>2 DEF HangUp, Handled, client
  <2> QED BY <2>1, <2>2, CloseKeepsSockets
<1>3. ASSUME NEW e \in events, AcceptEvent(e) \/ Submit(e) PROVE Sockets'
  <2>1. UNCHANGED <<peer, backlog, fdtab, ready>> /\ events' \subseteq events
    BY <1>3 DEF AcceptEvent, Submit, Handled, client, kernel
  <2> QED BY <2>1 DEF Sockets, Open
<1>4. ASSUME Accept PROVE Sockets'
  <2> DEFINE c == Head(backlog)
  <2>1. PICK f \in Free : fdtab' = [fdtab EXCEPT ![f] = c]
    BY <1>4 DEF Accept
  <2>2. /\ backlog # <<>> /\ backlog' = Tail(backlog)
        /\ ready' \subseteq ready \cup {c}
        /\ UNCHANGED <<peer, events>>
    BY <1>4 DEF Accept, Wake, client
  <2>3. /\ c \in Conns /\ c = backlog[1] /\ 1 \in DOMAIN backlog
        /\ \A i \in DOMAIN backlog' : /\ i \in Nat /\ i + 1 \in DOMAIN backlog /\ i + 1 # 1
                                      /\ backlog'[i] = backlog[i + 1]
                                      /\ backlog[i + 1] \in Conns
    BY <2>2 DEF TypeOK
  <2>4. /\ ~Open(c) /\ peer[c] # "idle"
        /\ \A i \in DOMAIN backlog' : backlog'[i] # c
    BY <2>3 DEF Sockets
  <2> HIDE DEF c
  <2>5. f \in Fds /\ fdtab[f] = NoConn /\ fdtab'[f] = c
        /\ \A g \in Fds : g # f => fdtab'[g] = fdtab[g]
    BY <2>1 DEF Free, TypeOK
  <2>6. \A d \in Conns : Open(d)' <=> Open(d) \/ d = c
    <3> SUFFICES ASSUME NEW d \in Conns PROVE Open(d)' <=> Open(d) \/ d = c
      OBVIOUS
    <3>1. CASE Open(d)
      <4>1. PICK g \in Fds : fdtab[g] = d
        BY <3>1 DEF Open
      <4>2. fdtab'[g] = d
        BY <2>5, <4>1, ServerAssumption
      <4> QED BY <3>1, <4>2 DEF Open
    <3>2. CASE ~Open(d)
      BY <2>5, <3>2 DEF Open
    <3> QED BY <3>1, <3>2
  <2>7. \A g, h \in Fds : fdtab'[g] \in Conns /\ fdtab'[g] = fdtab'[h] => g = h
    BY <2>4, <2>5 DEF Sockets, Open
  <2>8. \A g \in Fds : fdtab'[g] \in Conns => peer'[fdtab'[g]] # "idle"
    BY <2>2, <2>4, <2>5 DEF Sockets
  <2>9. \A i \in DOMAIN backlog' : peer'[backlog'[i]] # "idle" /\ ~Open(backlog[i])'
    BY <2>2, <2>3, <2>4, <2>6 DEF Sockets
  <2>10. \A i, j \in DOMAIN backlog' : i # j => backlog'[i] # backlog'[j]
    BY <2>3 DEF Sockets
  <2>11. \A d \in Conns : d \in ready' => Open(d)'
    BY <2>2, <2>6 DEF Sockets
  <2> QED BY <2>2, <2>7, <2>8, <2>9, <2>10, <2>11 DEF Sockets
<1>5. CASE AcceptAgain \/ AcceptFails \/ AddFails
  BY <1>5 DEF AcceptAgain, AcceptFails, AddFails, client, kernel, Sockets, Open
<1> QED BY <1>1, <1>2, <1>3, <1>4, <1>5 DEF Main

(* and of a worker. *)
LEMMA WorkerSockets ==
  ASSUME TypeOK, Sockets, NEW w \in Workers, Worker(w) PROVE Sockets'
<1>1. CASE UNCHANGED <<peer, kernel, events>>
  BY <1>1 DEF kernel, Sockets, Open
<1>2. ASSUME Recv(w) PROVE Sockets'
  <2>1. PICK f \in Free : fdtab' = [fdtab EXCEPT ![f] = Db]
    BY <1>2 DEF Recv
  <2>2. UNCHANGED <<peer, backlog, ready, events>>
    BY <1>2 DEF Recv, client
  <2>3. /\ f \in Fds /\ fdtab[f] = NoConn /\ fdtab'[f] = Db
        /\ \A g \in Fds : g # f => fdtab'[g] = fdtab[g]
    BY <2>1 DEF Free, TypeOK
  <2>4. \A d \in Conns : Open(d)' <=> Open(d)
    BY <2>3, ServerAssumption DEF Open
  <2>5. \A i \in DOMAIN backlog : backlog[i] \in Conns
    BY DEF TypeOK
  <2>6. \A g, h \in Fds : fdtab'[g] \in Conns /\ fdtab'[g] = fdtab'[h] => g = h
    BY <2>3, ServerAssumption DEF Sockets
  <2>7. \A g \in Fds : fdtab'[g] \in Conns => peer'[fdtab'[g]] # "idle"
    BY <2>2, <2>3, ServerAssumption DEF Sockets
  <2> QED BY <2>2, <2>4, <2>5, <2>6, <2>7 DEF Sockets
<1>3. ASSUME NEW f \in Fds, CloseFd(f), UNCHANGED <<peer, events>> PROVE Sockets'
  BY <1>3, CloseKeepsSockets
<1>4. ASSUME Render(w) PROVE Sockets'
  <2>1. \A f \in task[w].db : f \in Fds
    BY <1>4, Tasks, Fields DEF Render, Idle
  <2>2. UNCHANGED <<peer, events>>
    BY <1>4 DEF Render, client
  <2> QED BY <1>1, <1>3, <1>4, <2>1, <2>2 DEF Render
<1>5. ASSUME RecvEnd(w) \/ CloseConn(w) PROVE Sockets'
  <2>1. task[w].fd \in Fds
    BY <1>5, Tasks DEF RecvEnd, CloseConn, TaskFd
  <2>2. CloseFd(task[w].fd) /\ UNCHANGED <<peer, events>>
    BY <1>5 DEF RecvEnd, CloseConn, client
  <2> QED BY <1>3, <2>1, <2>2
<1>6. CASE \/ TakeTask(w) \/ Send(w) \/ SendOnClosed(w) \/ OpenFails(w) \/ RenderThrows(w)
          \/ RecvError(w) \/ SendToReset(w)
  BY <1>1, <1>6 DEF TakeTask, Send, SendOnClosed, OpenFails, RenderThrows, RecvError, SendToReset, client
<1> QED BY <1>2, <1>4, <1>5, <1>6 DEF Worker

-----------------------------------------------------------------------------
(* Good behaviour is lost for ever, and costs at most one segment. *)
LEMMA StaysGood ==
  ASSUME TypeOK, Next, WellBehaved'
  PROVE  WellBehaved
<1>1. \A c \in Conns : sent'[c] <= 1 /\ peer'[c] \in {"idle", "open"}
  BY DEF WellBehaved
<1>2. UNCHANGED client => WellBehaved
  BY <1>1 DEF client, WellBehaved
<1>3. ASSUME NEW c \in Conns, Client(c) PROVE WellBehaved
  <2>1. peer[c] \in {"idle", "open"} /\ sent[c] <= sent'[c]
    BY <1>1, <1>3 DEF Client, Connect, ClientSend, ClientFin, ClientReset, TypeOK
  <2>2. \A d \in Conns : d # c => peer'[d] = peer[d] /\ sent'[d] = sent[d]
    BY <1>3 DEF Client, Connect, ClientSend, ClientFin, ClientReset, TypeOK
  <2>3. \A d \in Conns : peer[d] \in {"idle", "open"}
    BY <1>1, <2>1, <2>2
  <2>4. \A d \in Conns : sent[d] <= 1
    <3>1. sent[c] \in Nat /\ sent'[c] \in Nat
      BY <1>3 DEF Client, Connect, ClientSend, ClientFin, ClientReset, TypeOK
    <3> QED BY <1>1, <2>1, <2>2, <3>1
  <2> QED BY <2>3, <2>4 DEF WellBehaved
<1>4. Main => UNCHANGED client
  BY DEF Main, EpollWait, HangUp, AcceptEvent, Submit, Accept, AcceptAgain, AcceptFails, AddFails
<1>5. \A w \in Workers : Worker(w) => UNCHANGED client
  BY DEF Worker, TakeTask, Recv, OpenFails, Render, RenderThrows, RecvEnd, RecvError, Send,
         SendOnClosed, SendToReset, CloseConn
<1> QED BY <1>2, <1>3, <1>4, <1>5 DEF Next

(* Events, queue and busy workers name descriptors. *)
LEMMA Named ==
  ASSUME TypeOK
  PROVE  /\ \A e \in events : e.fd \in Fds \cup {Hello}
         /\ \A j \in DOMAIN work_queue : work_queue[j] \in Fds
         /\ \A w \in Busy : /\ w \in Workers /\ TaskFd(w) \in Fds
                            /\ task[w].pc # "recv" => task[w].of \in Conns
<1>1. /\ \A e \in events : e.fd \in Fds \cup {Hello}
      /\ \A j \in DOMAIN work_queue : work_queue[j] \in Fds
  BY DEF TypeOK
<1>2. \A w \in Busy : w \in Workers
  BY DEF Busy
<1> QED BY <1>1, <1>2, Tasks

LEMMA ClientTokens ==
  ASSUME TypeOK, Sockets, Tokens, NEW c \in Conns, Client(c), WellBehaved'
  PROVE  Tokens'
<1>0. /\ \A f \in Fds : fdtab[f] \in Conns => rx[fdtab[f]] \in Nat /\ sent[fdtab[f]] \in Nat
      /\ rx[c] \in Nat /\ sent[c] \in Nat /\ rx[c] <= sent[c]
  BY DEF TypeOK
<1>1. ASSUME Connect(c) PROVE Tokens'
  <2>1. /\ ready' = ready \cup {Hello}
        /\ UNCHANGED <<sent, rx, fdtab, events, work_queue, task, reply>>
    BY <1>1 DEF Connect, Wake
  <2>2. \A f \in Fds : Pending(f) => Pending(f)'
    BY <2>1, ServerAssumption DEF Pending
  <2>3. /\ \A e \in events : e.fd \in Fds \cup {Hello}
        /\ \A j \in DOMAIN work_queue : work_queue[j] \in Fds
        /\ \A w \in Busy : w \in Workers /\ TaskFd(w) \in Fds
    BY Named
  <2>4. \A d \in Conns : peer[d] \in {"idle", "open"} /\ sent[d] <= 1
    BY <1>1, <2>1 DEF WellBehaved, Connect, TypeOK
  <2>5. OneOwner' /\ RepliesReachTheirAuthors'
    BY <2>1, <2>4 DEF Tokens, OneOwner, Busy, TaskFd, RepliesReachTheirAuthors, WellBehaved
  <2>6. \A w \in Workers : Serves(w) => Serves(w)'
    BY <2>1 DEF Serves, TaskFd
  <2>7. \A w \in Busy' : IF task'[w].pc = "recv" THEN Pending(TaskFd(w))' ELSE Serves(w)'
    BY <2>1, <2>2, <2>3, <2>6 DEF Tokens, Busy, TaskFd
  <2>8. \A d \in Conns : d \in ready' => rx'[d] = 1
    BY <2>1, ServerAssumption DEF Tokens
  <2>9. \A e \in events : e.fd # Hello => Pending(e.fd)' /\ ~e.hup
    BY <2>2, <2>3 DEF Tokens
  <2>10. \A j \in DOMAIN work_queue : Pending(work_queue[j])'
    BY <2>1, <2>2, <2>3 DEF Tokens
  <2> QED BY <2>1, <2>5, <2>7, <2>8, <2>9, <2>10 DEF Tokens
<1>2. ASSUME ClientSend(c) PROVE Tokens'
  <2>1. /\ sent' = [sent EXCEPT ![c] = @ + 1] /\ rx' = [rx EXCEPT ![c] = @ + 1]
        /\ ready' \subseteq ready \cup {c}
        /\ UNCHANGED <<fdtab, events, work_queue, task, reply>>
    BY <1>2 DEF ClientSend, Arrive, Wake
  <2>2. sent[c] = 0 /\ rx[c] = 0 /\ sent'[c] = 1 /\ rx'[c] = 1
    BY <1>0, <2>1 DEF WellBehaved, TypeOK
  <2>3. \A d \in Conns : d # c => rx'[d] = rx[d] /\ sent'[d] = sent[d]
    BY <2>1 DEF TypeOK
  <2>4. \A f \in Fds : Pending(f) => Pending(f)'
    BY <2>1, <2>2, <2>3 DEF Pending
  <2>5. /\ \A e \in events : e.fd \in Fds \cup {Hello}
        /\ \A j \in DOMAIN work_queue : work_queue[j] \in Fds
        /\ \A w \in Busy : w \in Workers /\ TaskFd(w) \in Fds
        /\ \A w \in Busy : task[w].pc # "recv" => task[w].of \in Conns
    BY Named
  <2>6. \A w \in Busy : task[w].pc # "recv" /\ Serves(w) => Serves(w)'
    BY <2>1, <2>2, <2>3, <2>5 DEF Serves, TaskFd
  <2>7. OneOwner'
    BY <2>1 DEF Tokens, OneOwner, Busy, TaskFd
  <2>8. \A w \in Busy' : IF task'[w].pc = "recv" THEN Pending(TaskFd(w))' ELSE Serves(w)'
    BY <2>1, <2>4, <2>5, <2>6 DEF Tokens, Busy, TaskFd
  <2>9. \A d \in Conns : rx'[d] = 1 \/ sent'[d] = 0 => reply'[d] = <<>>
    BY <2>1, <2>2, <2>3 DEF Tokens
  <2>10. WellBehaved
    <3>1. \A d \in Conns : sent'[d] <= 1 /\ peer'[d] \in {"idle", "open"}
      BY DEF WellBehaved
    <3>2. peer' = peer
      BY <1>2 DEF ClientSend
    <3>3. \A d \in Conns : sent[d] <= 1
      BY <2>2, <2>3, <3>1
    <3> QED BY <3>1, <3>2, <3>3 DEF WellBehaved
  <2>11. RepliesReachTheirAuthors'
    BY <2>1, <2>10 DEF Tokens, RepliesReachTheirAuthors
  <2>12. \A d \in Conns : d \in ready' => rx'[d] = 1
    BY <2>1, <2>2, <2>3 DEF Tokens
  <2>13. \A e \in events : e.fd # Hello => Pending(e.fd)' /\ ~e.hup
    BY <2>4, <2>5 DEF Tokens
  <2>14. \A j \in DOMAIN work_queue : Pending(work_queue[j])'
    BY <2>1, <2>4, <2>5 DEF Tokens
  <2> QED BY <2>1, <2>7, <2>8, <2>9, <2>11, <2>12, <2>13, <2>14 DEF Tokens
<1>3. ~ClientFin(c) /\ ~ClientReset(c)
  BY DEF ClientFin, ClientReset, WellBehaved, TypeOK
<1> QED BY <1>1, <1>2, <1>3 DEF Client

LEMMA MainTokens ==
  ASSUME TypeOK, Sockets, Tokens, Main, WellBehaved, WellBehaved'
  PROVE  Tokens'
<1>0. /\ \A e \in events : e.fd \in Fds \cup {Hello}
      /\ \A j \in DOMAIN work_queue : work_queue[j] \in Fds
      /\ \A w \in Busy : /\ w \in Workers /\ TaskFd(w) \in Fds
                         /\ task[w].pc # "recv" => task[w].of \in Conns
  BY Named
<1>1. ASSUME EpollWait PROVE Tokens'
  <2> DEFINE readable == {s \in ready : Readable(s)}
  <2>1. /\ events' = {Event(s) : s \in readable} /\ ready' = {}
        /\ UNCHANGED <<client, rx, fdtab, work_queue, task, reply>>
    BY <1>1 DEF EpollWait
  <2>2. \A s \in readable : s # Hello =>
          /\ s \in Conns /\ rx[s] = 1 /\ s \in ready
          /\ Event(s).fd \in Fds /\ fdtab[Event(s).fd] = s /\ Event(s).hup = FALSE
    <3> SUFFICES ASSUME NEW s \in readable, s # Hello
                 PROVE  /\ s \in Conns /\ rx[s] = 1 /\ s \in ready
                        /\ Event(s).fd \in Fds /\ fdtab[Event(s).fd] = s /\ Event(s).hup = FALSE
      OBVIOUS
    <3>1. s \in Conns /\ s \in ready /\ rx[s] = 1
      BY DEF TypeOK, Tokens
    <3>2. \E f \in Fds : fdtab[f] = s
      BY <3>1 DEF Sockets, Open
    <3>3. FdOf(s) \in Fds /\ fdtab[FdOf(s)] = s
      BY <3>2 DEF FdOf
    <3>4. Event(s) = [fd |-> FdOf(s), hup |-> FALSE]
      BY <3>1 DEF Event, WellBehaved
    <3> QED BY <3>1, <3>3, <3>4
  <2>3. Hello \in readable => Event(Hello).fd = Hello
    BY DEF Event
  <2>4. \A e \in events' : e.fd # Hello =>
          e.fd \in Fds /\ fdtab[e.fd] \in ready /\ fdtab[e.fd] \in Conns /\ rx[fdtab[e.fd]] = 1 /\ ~e.hup
    BY <2>1, <2>2, <2>3
  <2>5. \A d, e \in events' : d # e => d.fd # e.fd
    <3> SUFFICES ASSUME NEW s \in readable, NEW t \in readable, s # t
                 PROVE  Event(s).fd # Event(t).fd
      BY <2>1
    <3> QED BY <2>2, <2>3, ServerAssumption
  <2>6. \A f \in Fds : Pending(f) => Pending(f)' /\ fdtab[f] \notin ready
    BY <2>1 DEF Pending
  <2>7. \A e \in events', j \in DOMAIN work_queue : e.fd # work_queue[j]
    BY <1>0, <2>4, <2>6, ServerAssumption DEF Tokens
  <2>8. \A e \in events', w \in Busy : e.fd # TaskFd(w)
    <3> SUFFICES ASSUME NEW e \in events', NEW w \in Busy, e.fd = TaskFd(w) PROVE FALSE
      OBVIOUS
    <3>1. e.fd \in Fds /\ e.fd # Hello
      BY <1>0, ServerAssumption
    <3>2. task[w].pc = "recv"
      BY <1>0, <2>4, <3>1 DEF Tokens, Serves
    <3> QED BY <1>0, <2>4, <2>6, <3>1, <3>2 DEF Tokens
  <2>9. OneOwner'
    BY <2>1, <2>5, <2>7, <2>8 DEF OneOwner, Tokens, Busy, TaskFd
  <2>10. \A e \in events' : e.fd # Hello => Pending(e.fd)' /\ ~e.hup
    BY <2>1, <2>4 DEF Pending
  <2>11. \A w \in Busy : Serves(w) => Serves(w)'
    BY <2>1 DEF Serves, TaskFd, client
  <2>12. \A w \in Busy' : IF task'[w].pc = "recv" THEN Pending(TaskFd(w))' ELSE Serves(w)'
    BY <1>0, <2>1, <2>6, <2>11 DEF Tokens, Busy, TaskFd
  <2>13. \A j \in DOMAIN work_queue : Pending(work_queue[j])'
    <3>1. \A j \in DOMAIN work_queue : Pending(work_queue[j])
      BY DEF Tokens
    <3> QED BY <1>0, <2>1, <2>6, <3>1
  <2> QED BY <2>1, <2>9, <2>10, <2>12, <2>13 DEF Tokens, client, RepliesReachTheirAuthors
<1>2. ASSUME NEW e \in events, HangUp(e) PROVE FALSE
  BY <1>2 DEF HangUp, Tokens, Sockets
<1>3. ASSUME NEW e \in events, AcceptEvent(e) PROVE Tokens'
  <2>1. /\ events' \subseteq events
        /\ UNCHANGED <<client, rx, kernel, work_queue, task, reply>>
    BY <1>3 DEF AcceptEvent, Handled
  <2>2. \A f \in Fds : Pending(f) => Pending(f)'
    BY <2>1 DEF Pending, kernel
  <2>3. \A w \in Busy : Serves(w) => Serves(w)'
    BY <2>1 DEF Serves, TaskFd, client, kernel
  <2>4. OneOwner'
    BY <2>1 DEF OneOwner, Tokens, Busy, TaskFd
  <2>5. \A d \in events' : d.fd # Hello => Pending(d.fd)' /\ ~d.hup
    BY <1>0, <2>1, <2>2 DEF Tokens
  <2>6. \A j \in DOMAIN work_queue : Pending(work_queue[j])'
    <3>1. \A j \in DOMAIN work_queue : Pending(work_queue[j])
      BY DEF Tokens
    <3> QED BY <1>0, <2>1, <2>2, <3>1
  <2>7. \A w \in Busy' : IF task'[w].pc = "recv" THEN Pending(TaskFd(w))' ELSE Serves(w)'
    BY <1>0, <2>1, <2>2, <2>3 DEF Tokens, Busy, TaskFd
  <2> QED BY <2>1, <2>4, <2>5, <2>6, <2>7 DEF Tokens, client, kernel, RepliesReachTheirAuthors
<1>4. ASSUME NEW e \in events, Submit(e) PROVE Tokens'
  <2>1. /\ events' = events \ {e} /\ e.fd # Hello /\ e.fd \in Fds
        /\ work_queue' = Append(work_queue, e.fd)
        /\ UNCHANGED <<client, rx, kernel, task, reply>>
    BY <1>0, <1>4 DEF Submit, Handled
  <2>2. /\ DOMAIN work_queue' = 1 .. Len(work_queue) + 1 /\ Len(work_queue) \in Nat
        /\ DOMAIN work_queue = 1 .. Len(work_queue)
        /\ \A j \in DOMAIN work_queue : work_queue'[j] = work_queue[j]
        /\ work_queue'[Len(work_queue) + 1] = e.fd
    BY <2>1 DEF TypeOK
  <2>3. \A j \in DOMAIN work_queue' :
          j \in DOMAIN work_queue \/ j = Len(work_queue) + 1
    BY <2>2
  <2>4. \A f \in Fds : Pending(f) => Pending(f)'
    BY <2>1 DEF Pending, kernel
  <2>5. \A w \in Busy : Serves(w) => Serves(w)'
    BY <2>1 DEF Serves, TaskFd, client, kernel
  <2>6. /\ \A d \in events' : d \in events /\ d.fd # e.fd
        /\ \A j \in DOMAIN work_queue : work_queue[j] # e.fd
        /\ \A w \in Busy : TaskFd(w) # e.fd
    BY <2>1 DEF Tokens, OneOwner
  <2>7. /\ \A i, j \in DOMAIN work_queue' : i # j => work_queue'[i] # work_queue'[j]
        /\ \A d \in events', j \in DOMAIN work_queue' : d.fd # work_queue'[j]
        /\ \A j \in DOMAIN work_queue', w \in Busy : work_queue'[j] # TaskFd(w)
    BY <2>2, <2>3, <2>6 DEF Tokens, OneOwner
  <2>8. OneOwner'
    BY <2>1, <2>6, <2>7 DEF OneOwner, Tokens, Busy, TaskFd
  <2>9. \A d \in events' : d.fd # Hello => Pending(d.fd)' /\ ~d.hup
    BY <1>0, <2>4, <2>6 DEF Tokens
  <2>10. \A f \in Fds : Pending(f)' <=> Pending(f)
    BY <2>1 DEF Pending, kernel
  <2>11. /\ Pending(e.fd)
         /\ \A j \in DOMAIN work_queue : Pending(work_queue[j])
    BY <2>1 DEF Tokens
  <2>12. \A j \in DOMAIN work_queue' : Pending(work_queue[j])'
    <3> SUFFICES ASSUME NEW j \in DOMAIN work_queue' PROVE Pending(work_queue[j])'
      OBVIOUS
    <3>1. Pending(work_queue'[j])
      BY <2>2, <2>3, <2>11
    <3> QED BY <2>1, <3>1 DEF Pending, kernel
  <2>13. \A w \in Busy' : IF task'[w].pc = "recv" THEN Pending(TaskFd(w))' ELSE Serves(w)'
    BY <1>0, <2>1, <2>4, <2>5 DEF Tokens, Busy, TaskFd
  <2> QED BY <2>1, <2>8, <2>9, <2>12, <2>13 DEF Tokens, client, kernel, RepliesReachTheirAuthors
<1>5. ASSUME Accept PROVE Tokens'
  <2> DEFINE c == Head(backlog)
  <2>1. PICK f \in Free : fdtab' = [fdtab EXCEPT ![f] = c]
    BY <1>5 DEF Accept
  <2>2. /\ ready' = IF Readable(c) THEN ready \cup {c} ELSE ready
        /\ UNCHANGED <<client, rx, events, work_queue, task, reply>>
    BY <1>5 DEF Accept, Wake
  <2>3. c \in Conns /\ ~Open(c)
    BY <1>5 DEF Accept, TypeOK, Sockets
  <2>4. Readable(c) => rx[c] = 1
    <3>1. /\ rx[c] \in Nat /\ sent[c] \in Nat /\ rx[c] <= sent[c] /\ sent[c] <= 1
          /\ peer[c] \in {"idle", "open"} /\ c # Hello
      BY <2>3, ServerAssumption DEF TypeOK, WellBehaved
    <3> HIDE DEF c
    <3> QED BY <3>1 DEF Readable
  <2> HIDE DEF c
  <2>5. f \in Fds /\ fdtab[f] = NoConn /\ \A g \in Fds : g # f => fdtab'[g] = fdtab[g]
    BY <2>1 DEF Free, TypeOK
  <2>6. \A g \in Fds : fdtab[g] \in Conns \cup {Db} => fdtab'[g] = fdtab[g] /\ fdtab[g] # c
    BY <2>3, <2>5, ServerAssumption DEF Open
  <2>7. \A g \in Fds : Pending(g) => Pending(g)'
    BY <2>2, <2>6 DEF Pending
  <2>8. \A w \in Busy : task[w].pc # "recv" /\ Serves(w) => Serves(w)'
    BY <1>0, <2>2, <2>6 DEF Serves, TaskFd, client
  <2>9. OneOwner'
    BY <2>2 DEF OneOwner, Tokens, Busy, TaskFd
  <2>10. \A e \in events : e.fd # Hello => Pending(e.fd)' /\ ~e.hup
    BY <1>0, <2>7 DEF Tokens
  <2>11. \A j \in DOMAIN work_queue : Pending(work_queue[j])'
    <3>1. \A j \in DOMAIN work_queue : Pending(work_queue[j])
      BY DEF Tokens
    <3> QED BY <1>0, <2>2, <2>7, <3>1
  <2>12. \A w \in Busy' : IF task'[w].pc = "recv" THEN Pending(TaskFd(w))' ELSE Serves(w)'
    BY <1>0, <2>2, <2>7, <2>8 DEF Tokens, Busy, TaskFd
  <2>13. \A d \in Conns : d \in ready' => rx'[d] = 1
    BY <2>2, <2>4 DEF Tokens
  <2>14. \A w \in Workers : task[w].pc = "render" => \A g \in task[w].db : fdtab'[g] = Db
    <3> SUFFICES ASSUME NEW w \in Workers, task[w].pc = "render", NEW g \in task[w].db
                 PROVE  fdtab'[g] = Db
      OBVIOUS
    <3>1. g \in Fds
      BY Tasks, Fields DEF Idle
    <3> QED BY <2>6, <3>1 DEF Tokens
  <2> QED BY <2>2, <2>9, <2>10, <2>11, <2>12, <2>13, <2>14 DEF Tokens, client, RepliesReachTheirAuthors
<1>6. ASSUME AcceptAgain \/ AcceptFails \/ AddFails PROVE Tokens'
  <2>1. UNCHANGED <<client, rx, kernel, events, work_queue, task, reply>>
    BY <1>6 DEF AcceptAgain, AcceptFails, AddFails
  <2> QED BY <2>1 DEF Tokens, OneOwner, Pending, Serves, Busy, TaskFd, RepliesReachTheirAuthors,
                      WellBehaved, client, kernel
<1> QED BY <1>1, <1>2, <1>3, <1>4, <1>5, <1>6 DEF Main

(* A worker's step that is about its own descriptor only leaves all other   *)
(* tokens where they are.                                                   *)
LEMMA OthersKeep ==
  ASSUME TypeOK, Sockets, Tokens, NEW w \in Busy, NEW t, Now(w, t),
         \A g \in Fds : g # TaskFd(w) /\ fdtab[g] \in Conns =>
           /\ fdtab'[g] = fdtab[g] /\ rx'[fdtab[g]] = rx[fdtab[g]]
           /\ reply'[fdtab[g]] = reply[fdtab[g]],
         ready' \subseteq ready, UNCHANGED <<client, events, work_queue>>,
         t = Idle \/ t.fd = TaskFd(w)
  PROVE  /\ \A e \in events : e.fd # Hello => Pending(e.fd)' /\ ~e.hup
         /\ \A j \in DOMAIN work_queue : Pending(work_queue[j])'
         /\ task'[w] = t
         /\ \A v \in Workers : v # w => task'[v] = task[v]
         /\ \A v \in Busy' : v # w =>
              IF task'[v].pc = "recv" THEN Pending(TaskFd(v))' ELSE Serves(v)'
         /\ OneOwner'
<1>0. /\ \A e \in events : e.fd \in Fds \cup {Hello}
      /\ \A j \in DOMAIN work_queue : work_queue[j] \in Fds
      /\ \A v \in Busy : /\ v \in Workers /\ TaskFd(v) \in Fds
                         /\ task[v].pc # "recv" => task[v].of \in Conns
  BY Named
<1>1. /\ task'[w] = t
      /\ \A v \in Workers : v # w => task'[v] = task[v]
  BY <1>0 DEF Now, TypeOK
<1>2. \A g \in Fds : g # TaskFd(w) /\ Pending(g) => Pending(g)'
  BY DEF Pending
<1>3. /\ \A e \in events : e.fd # TaskFd(w) /\ (e.fd # Hello => Pending(e.fd) /\ ~e.hup)
      /\ \A j \in DOMAIN work_queue : work_queue[j] # TaskFd(w) /\ Pending(work_queue[j])
      /\ \A v \in Busy : v # w => TaskFd(v) # TaskFd(w)
      /\ \A v \in Busy : IF task[v].pc = "recv" THEN Pending(TaskFd(v)) ELSE Serves(v)
  BY DEF Tokens, OneOwner
<1>4. \A v \in Busy' : /\ v \in Workers
                       /\ v # w => v \in Busy /\ TaskFd(v)' = TaskFd(v)
                       /\ v = w => TaskFd(v)' = TaskFd(v)
  BY <1>0, <1>1 DEF Busy, TaskFd
<1>5. ASSUME NEW v \in Busy, v # w, task[v].pc # "recv" PROVE Serves(v)'
  <2>1. Serves(v) /\ TaskFd(v) # TaskFd(w) /\ TaskFd(v) \in Fds /\ task[v].of \in Conns
        /\ task'[v] = task[v]
    BY <1>0, <1>1, <1>3, <1>5
  <2>2. /\ fdtab[TaskFd(v)] = task[v].of /\ fdtab'[TaskFd(v)] = task[v].of
        /\ rx'[task[v].of] = rx[task[v].of] /\ reply'[task[v].of] = reply[task[v].of]
    BY <2>1 DEF Serves
  <2> QED BY <2>1, <2>2 DEF Serves, TaskFd, client
<1>6. \A v \in Busy' : v # w =>
        IF task'[v].pc = "recv" THEN Pending(TaskFd(v))' ELSE Serves(v)'
  <2> SUFFICES ASSUME NEW v \in Busy', v # w
               PROVE  IF task'[v].pc = "recv" THEN Pending(TaskFd(v))' ELSE Serves(v)'
    OBVIOUS
  <2>1. v \in Busy /\ TaskFd(v)' = TaskFd(v) /\ task'[v] = task[v] /\ TaskFd(v) \in Fds
    BY <1>0, <1>1, <1>4
  <2>2. CASE task[v].pc = "recv"
    <3>1. Pending(TaskFd(v))
      BY <1>3, <2>1, <2>2
    <3>2. fdtab'[TaskFd(v)] \in Conns /\ rx'[fdtab'[TaskFd(v)]] = 1 /\ fdtab'[TaskFd(v)] \notin ready'
      BY <1>3, <2>1, <3>1 DEF Pending
    <3> QED BY <2>1, <2>2, <3>2 DEF Pending
  <2>3. CASE task[v].pc # "recv"
    BY <1>5, <2>1, <2>3
  <2> QED BY <2>2, <2>3
<1>7. OneOwner'
  <2>1. /\ \A u, v \in Busy' : u # v => TaskFd(u)' # TaskFd(v)'
        /\ \A v \in Busy' : /\ \A e \in events : e.fd # TaskFd(v)'
                            /\ \A j \in DOMAIN work_queue : work_queue[j] # TaskFd(v)'
    BY <1>3, <1>4 DEF Tokens, OneOwner
  <2> QED BY <2>1 DEF Tokens, OneOwner
<1>8. \A e \in events : e.fd # Hello => Pending(e.fd)' /\ ~e.hup
  BY <1>0, <1>2, <1>3
<1>9. \A j \in DOMAIN work_queue : Pending(work_queue[j])'
  BY <1>0, <1>2, <1>3
<1> QED BY <1>1, <1>6, <1>7, <1>8, <1>9

(* The databases in use by the others stay open and their own. *)
LEMMA DatabasesKeep ==
  ASSUME TypeOK, Tokens, NEW w \in Workers, NEW t, Now(w, t), t.pc # "render",
         \A v \in Workers : v # w /\ task[v].pc = "render" =>
           \A f \in task[v].db : fdtab'[f] = fdtab[f]
  PROVE  /\ \A v \in Workers : task'[v].pc = "render" => \A f \in task'[v].db : fdtab'[f] = Db
         /\ \A u, v \in Workers : u # v /\ task'[u].pc = "render" /\ task'[v].pc = "render" =>
              task'[u].db \cap task'[v].db = {}
<1>1. /\ task'[w] = t
      /\ \A v \in Workers : v # w => task'[v] = task[v]
  BY DEF Now, TypeOK
<1> QED BY <1>1 DEF Tokens

(* While clients are well-behaved a busy worker holds a connection. *)
LEMMA Holds ==
  ASSUME TypeOK, Sockets, Tokens, NEW w \in Busy
  PROVE  /\ w \in Workers /\ TaskFd(w) \in Fds /\ fdtab[TaskFd(w)] \in Conns
         /\ task[w].pc = "recv" => Pending(TaskFd(w))
         /\ task[w].pc # "recv" => Serves(w) /\ task[w].of \in Conns
         /\ \A g \in Fds : g # TaskFd(w) /\ fdtab[g] \in Conns => fdtab[g] # fdtab[TaskFd(w)]
<1>1. /\ w \in Workers /\ TaskFd(w) \in Fds
      /\ task[w].pc # "recv" => task[w].of \in Conns
  BY Named
<1>2. IF task[w].pc = "recv" THEN Pending(TaskFd(w)) ELSE Serves(w)
  BY DEF Tokens
<1>3. fdtab[TaskFd(w)] \in Conns
  BY <1>1, <1>2 DEF Pending, Serves
<1> QED BY <1>1, <1>2, <1>3 DEF Sockets

(* What a worker does to a well-behaved client leaves its token in place.   *)
LEMMA TakeTaskTokens ==
  ASSUME TypeOK, Sockets, Tokens, NEW w \in Workers, TakeTask(w)
  PROVE  Tokens'
<1> DEFINE f == Head(work_queue)
<1>0. /\ \A e \in events : e.fd \in Fds \cup {Hello}
      /\ \A j \in DOMAIN work_queue : work_queue[j] \in Fds
      /\ \A v \in Busy : /\ v \in Workers /\ TaskFd(v) \in Fds
                         /\ task[v].pc # "recv" => task[v].of \in Conns
  BY Named
<1>1. /\ task[w] = Idle /\ w \notin Busy
      /\ Now(w, [pc |-> "recv", fd |-> f]) /\ work_queue # <<>>
      /\ work_queue' = Tail(work_queue)
      /\ UNCHANGED <<client, rx, kernel, events, main, reply, down>>
  BY DEF TakeTask, Busy
<1>2. /\ 1 \in DOMAIN work_queue /\ f = work_queue[1] /\ f \in Fds
      /\ \A j \in DOMAIN work_queue' :
           /\ j + 1 \in DOMAIN work_queue /\ work_queue'[j] = work_queue[j + 1]
           /\ j \in Nat /\ j + 1 # 1
  BY <1>1 DEF TypeOK
<1>3. /\ task'[w] = [pc |-> "recv", fd |-> f]
      /\ \A v \in Workers : v # w => task'[v] = task[v]
  BY <1>1 DEF Now, TypeOK
<1> HIDE DEF f
<1>4. \A v \in Busy' : /\ v \in Workers
                       /\ v # w => v \in Busy /\ TaskFd(v)' = TaskFd(v)
                       /\ v = w => TaskFd(v)' = f
  BY <1>3 DEF Busy, TaskFd
<1>5. \A i, j \in DOMAIN work_queue : i # j => work_queue[i] # work_queue[j]
  BY DEF Tokens, OneOwner
<1>6. /\ \A i, j \in DOMAIN work_queue' : i # j => work_queue'[i] # work_queue'[j]
      /\ \A j \in DOMAIN work_queue' : work_queue'[j] # f /\ \E i \in DOMAIN work_queue : work_queue'[j] = work_queue[i]
  <2>1. \A i, j \in DOMAIN work_queue' : i # j => i + 1 # j + 1
    BY <1>2
  <2> QED BY <1>2, <1>5, <2>1
<1>7. /\ \A e \in events : e.fd # f
      /\ \A v \in Busy : TaskFd(v) # f
  BY <1>2 DEF Tokens, OneOwner
<1>8. OneOwner'
  <2>1. \A u, v \in Busy' : u # v => TaskFd(u)' # TaskFd(v)'
    BY <1>4, <1>7 DEF Tokens, OneOwner
  <2>2. \A e \in events, j \in DOMAIN work_queue' : e.fd # work_queue'[j]
    BY <1>6 DEF Tokens, OneOwner
  <2>3. \A e \in events, v \in Busy' : e.fd # TaskFd(v)'
    BY <1>4, <1>7 DEF Tokens, OneOwner
  <2>4. \A j \in DOMAIN work_queue', v \in Busy' : work_queue'[j] # TaskFd(v)'
    BY <1>4, <1>6 DEF Tokens, OneOwner
  <2>5. \A d, e \in events : d # e => d.fd # e.fd
    BY DEF Tokens, OneOwner
  <2> QED BY <1>1, <1>6, <2>1, <2>2, <2>3, <2>4, <2>5 DEF OneOwner
<1>9. \A g \in Fds : Pending(g) => Pending(g)'
  BY <1>1 DEF Pending, kernel
<1>10. \A j \in DOMAIN work_queue : Pending(work_queue[j])
  BY DEF Tokens
<1>11. \A j \in DOMAIN work_queue' : Pending(work_queue[j])'
  <2> SUFFICES ASSUME NEW j \in DOMAIN work_queue' PROVE Pending(work_queue[j])'
    OBVIOUS
  <2>1. Pending(work_queue'[j])
    BY <1>6, <1>10
  <2> QED BY <1>1, <2>1 DEF Pending, kernel
<1>12. \A e \in events : e.fd # Hello => Pending(e.fd)' /\ ~e.hup
  BY <1>0, <1>9 DEF Tokens
<1>13. \A v \in Busy' : IF task'[v].pc = "recv" THEN Pending(TaskFd(v))' ELSE Serves(v)'
  <2> SUFFICES ASSUME NEW v \in Busy'
               PROVE  IF task'[v].pc = "recv" THEN Pending(TaskFd(v))' ELSE Serves(v)'
    OBVIOUS
  <2>1. CASE v = w
    <3>1. fdtab[f] \in Conns /\ rx[fdtab[f]] = 1 /\ fdtab[f] \notin ready
      BY <1>2, <1>10 DEF Pending
    <3> QED BY <1>1, <1>3, <1>4, <2>1, <3>1 DEF Pending, kernel
  <2>2. CASE v # w
    <3>1. /\ v \in Busy /\ v \in Workers /\ task'[v] = task[v] /\ TaskFd(v) \in Fds
          /\ TaskFd(v)' = TaskFd(v)
      BY <1>0, <1>3, <1>4, <2>2
    <3>2. IF task[v].pc = "recv" THEN Pending(TaskFd(v)) ELSE Serves(v)
      BY <3>1 DEF Tokens
    <3>3. task[v].pc # "recv" => Serves(v)'
      BY <1>1, <3>1, <3>2 DEF Serves, TaskFd, kernel, client
    <3> QED BY <1>1, <3>1, <3>2, <3>3 DEF Pending, kernel
  <2> QED BY <2>1, <2>2
<1>14. /\ \A v \in Workers : task'[v].pc = "render" => \A g \in task'[v].db : fdtab'[g] = Db
       /\ \A u, v \in Workers : u # v /\ task'[u].pc = "render" /\ task'[v].pc = "render" =>
            task'[u].db \cap task'[v].db = {}
  BY <1>1, DatabasesKeep DEF kernel
<1>15. RepliesReachTheirAuthors'
  BY <1>1 DEF Tokens, RepliesReachTheirAuthors, WellBehaved, client
<1>16. /\ \A c \in Conns : c \in ready' => rx'[c] = 1
       /\ \A c \in Conns : rx'[c] = 1 \/ sent'[c] = 0 => reply'[c] = <<>>
  BY <1>1 DEF Tokens, kernel, client
<1> QED BY <1>1, <1>8, <1>11, <1>12, <1>13, <1>14, <1>15, <1>16 DEF Tokens

LEMMA RecvTokens ==
  ASSUME TypeOK, Sockets, Tokens, WellBehaved, NEW w \in Workers, Recv(w)
  PROVE  Tokens'
<1> DEFINE c == fdtab[TaskFd(w)]
           t(f) == [pc |-> "render", fd |-> TaskFd(w), of |-> c, db |-> {f},
                    whole |-> 1 = Need[c], shifted |-> FALSE]
<1>1. task[w].pc = "recv" /\ w \in Busy
  BY Tasks DEF Recv
<1>2. /\ TaskFd(w) \in Fds /\ c \in Conns /\ rx[c] = 1 /\ c \notin ready
      /\ \A g \in Fds : g # TaskFd(w) /\ fdtab[g] \in Conns => fdtab[g] # c
  BY <1>1, Holds DEF Pending
<1>3. /\ sent[c] = 1 /\ reply[c] = <<>>
      /\ (IF rx[c] > BUFFER_SIZE THEN BUFFER_SIZE ELSE rx[c]) = 1
  <2>1. sent[c] \in Nat /\ rx[c] <= sent[c] /\ sent[c] <= 1
    BY <1>2 DEF TypeOK, WellBehaved
  <2>2. reply[c] = <<>>
    BY <1>2 DEF Tokens
  <2> HIDE DEF c
  <2> QED BY <1>2, <2>1, <2>2, ServerAssumption
<1>4. /\ rx' = [rx EXCEPT ![c] = @ - 1]
      /\ UNCHANGED <<client, backlog, gone, ready, events, main, work_queue, reply, down>>
      /\ \E f \in Free : fdtab' = [fdtab EXCEPT ![f] = Db] /\ Now(w, t(f))
  BY <1>3 DEF Recv, TaskFd
<1>5. PICK f \in Free : fdtab' = [fdtab EXCEPT ![f] = Db] /\ Now(w, t(f))
  BY <1>4
<1>6. /\ f \in Fds /\ fdtab[f] = NoConn /\ fdtab'[f] = Db
      /\ \A g \in Fds : g # f => fdtab'[g] = fdtab[g]
  BY <1>5 DEF Free, TypeOK
<1>7. /\ rx'[c] = 0
      /\ \A d \in Conns : d # c => rx'[d] = rx[d]
  BY <1>2, <1>4 DEF TypeOK
<1>8. /\ t(f).pc = "render" /\ t(f).fd = TaskFd(w) /\ t(f).of = c /\ t(f).db = {f}
      /\ t(f).whole = (Need[c] = 1) /\ t(f).shifted = FALSE
  OBVIOUS
<1> HIDE DEF c, t
<1>9. /\ \A e \in events : e.fd # Hello => Pending(e.fd)' /\ ~e.hup
      /\ \A j \in DOMAIN work_queue : Pending(work_queue[j])'
      /\ task'[w] = t(f)
      /\ \A v \in Workers : v # w => task'[v] = task[v]
      /\ \A v \in Busy' : v # w => IF task'[v].pc = "recv" THEN Pending(TaskFd(v))' ELSE Serves(v)'
      /\ OneOwner'
  <2>1. \A g \in Fds : g # TaskFd(w) /\ fdtab[g] \in Conns =>
          /\ fdtab'[g] = fdtab[g] /\ rx'[fdtab[g]] = rx[fdtab[g]]
          /\ reply'[fdtab[g]] = reply[fdtab[g]]
    BY <1>2, <1>4, <1>6, <1>7, ServerAssumption
  <2>2. ready' \subseteq ready /\ UNCHANGED <<client, events, work_queue>>
    BY <1>4
  <2> QED BY <1>1, <1>5, <1>8, <2>1, <2>2, OthersKeep
<1>10. Serves(w)'
  <2>1. f # TaskFd(w) /\ fdtab'[TaskFd(w)] = c
    BY <1>2, <1>6, ServerAssumption DEF c
  <2>2. TaskFd(w)' = TaskFd(w)
    BY <1>8, <1>9 DEF TaskFd
  <2> QED BY <1>3, <1>4, <1>7, <1>8, <1>9, <2>1, <2>2 DEF Serves, client
<1>11. \A v \in Busy' : IF task'[v].pc = "recv" THEN Pending(TaskFd(v))' ELSE Serves(v)'
  BY <1>8, <1>9, <1>10
<1>12. \A v \in Workers : v # w /\ task[v].pc = "render" =>
         task[v].db \subseteq Fds /\ f \notin task[v].db /\ \A g \in task[v].db : fdtab[g] = Db
  BY <1>6, Tasks, Fields, ServerAssumption DEF Tokens
<1>13. /\ \A v \in Workers : task'[v].pc = "render" => \A g \in task'[v].db : fdtab'[g] = Db
       /\ \A u, v \in Workers : u # v /\ task'[u].pc = "render" /\ task'[v].pc = "render" =>
            task'[u].db \cap task'[v].db = {}
  BY <1>6, <1>8, <1>9, <1>12 DEF Tokens
<1>14. RepliesReachTheirAuthors'
  BY <1>4 DEF Tokens, RepliesReachTheirAuthors, WellBehaved, client
<1>15. \A d \in Conns : rx'[d] = 1 \/ sent'[d] = 0 => reply'[d] = <<>>
  BY <1>3, <1>4, <1>7 DEF Tokens, client
<1>16. \A d \in Conns : d \in ready' => rx'[d] = 1
  BY <1>2, <1>4, <1>7 DEF Tokens
<1> QED BY <1>4, <1>9, <1>11, <1>13, <1>14, <1>15, <1>16 DEF Tokens

LEMMA RenderTokens ==
  ASSUME TypeOK, Sockets, Tokens, NEW w \in Workers, Render(w)
  PROVE  Tokens'
<1> DEFINE t == [task[w] EXCEPT !.pc = "header", !.db = {}]
<1>1. /\ task[w].pc = "render" /\ w \in Busy /\ Now(w, t)
      /\ UNCHANGED <<client, rx, events, main, work_queue, reply, down>>
      /\ task[w].db \subseteq Fds /\ \A f \in task[w].db : fdtab[f] = Db
  BY Tasks, Fields DEF Render, Tokens
<1>2. /\ Serves(w) /\ TaskFd(w) \in Fds /\ fdtab[TaskFd(w)] \in Conns
      /\ task[w].of \in Conns
  BY <1>1, Holds
<1>3. /\ t.pc = "header" /\ t.fd = TaskFd(w) /\ t.of = task[w].of
      /\ t.whole = task[w].whole /\ t.shifted = task[w].shifted
  <2>1. DOMAIN task[w] = {"pc", "fd", "of", "db", "whole", "shifted"}
    BY <1>1, Tasks DEF TaskType, Idle
  <2> QED BY <2>1 DEF TaskFd
<1> HIDE DEF t
<1>4. /\ \A g \in Fds : fdtab[g] \in Conns => fdtab'[g] = fdtab[g]
      /\ \A g \in Fds : g \notin task[w].db => fdtab'[g] = fdtab[g]
      /\ ready' \subseteq ready
  <2>1. CASE UNCHANGED kernel
    BY <2>1 DEF kernel
  <2>2. ASSUME NEW f \in task[w].db, CloseFd(f)
        PROVE  /\ \A g \in Fds : fdtab[g] \in Conns => fdtab'[g] = fdtab[g]
               /\ \A g \in Fds : g \notin task[w].db => fdtab'[g] = fdtab[g]
               /\ ready' \subseteq ready
    BY <1>1, <2>2, Closed, ServerAssumption
  <2> QED BY <2>1, <2>2 DEF Render
<1>5. /\ \A e \in events : e.fd # Hello => Pending(e.fd)' /\ ~e.hup
      /\ \A j \in DOMAIN work_queue : Pending(work_queue[j])'
      /\ task'[w] = t
      /\ \A v \in Workers : v # w => task'[v] = task[v]
      /\ \A v \in Busy' : v # w => IF task'[v].pc = "recv" THEN Pending(TaskFd(v))' ELSE Serves(v)'
      /\ OneOwner'
  <2>1. \A g \in Fds : g # TaskFd(w) /\ fdtab[g] \in Conns =>
          /\ fdtab'[g] = fdtab[g] /\ rx'[fdtab[g]] = rx[fdtab[g]]
          /\ reply'[fdtab[g]] = reply[fdtab[g]]
    BY <1>1, <1>4
  <2> QED BY <1>1, <1>3, <1>4, <2>1, OthersKeep
<1>6. Serves(w)'
  <2>1. TaskFd(w)' = TaskFd(w) /\ fdtab'[TaskFd(w)] = fdtab[TaskFd(w)]
    BY <1>2, <1>3, <1>4, <1>5 DEF TaskFd
  <2> QED BY <1>1, <1>2, <1>3, <1>5, <2>1 DEF Serves, client
<1>7. \A v \in Busy' : IF task'[v].pc = "recv" THEN Pending(TaskFd(v))' ELSE Serves(v)'
  BY <1>3, <1>5, <1>6
<1>8. \A v \in Workers : v # w /\ task[v].pc = "render" => \A g \in task[v].db : fdtab'[g] = fdtab[g]
  <2> SUFFICES ASSUME NEW v \in Workers, v # w, task[v].pc = "render", NEW g \in task[v].db
               PROVE  fdtab'[g] = fdtab[g]
    OBVIOUS
  <2>1. g \in Fds /\ g \notin task[w].db
    BY <1>1, Tasks, Fields DEF Tokens
  <2> QED BY <1>4, <2>1
<1>9. /\ \A v \in Workers : task'[v].pc = "render" => \A g \in task'[v].db : fdtab'[g] = Db
      /\ \A u, v \in Workers : u # v /\ task'[u].pc = "render" /\ task'[v].pc = "render" =>
           task'[u].db \cap task'[v].db = {}
  BY <1>1, <1>3, <1>8, DatabasesKeep
<1>10. RepliesReachTheirAuthors'
  BY <1>1 DEF Tokens, RepliesReachTheirAuthors, WellBehaved, client
<1>11. /\ \A c \in Conns : c \in ready' => rx'[c] = 1
       /\ \A c \in Conns : rx'[c] = 1 \/ sent'[c] = 0 => reply'[c] = <<>>
  BY <1>1, <1>4 DEF Tokens, client
<1> QED BY <1>1, <1>5, <1>7, <1>9, <1>10, <1>11 DEF Tokens

LEMMA SendTokens ==
  ASSUME TypeOK, Sockets, Tokens, WellBehaved, NEW w \in Workers, Send(w)
  PROVE  Tokens'
<1> DEFINE c == fdtab[TaskFd(w)]
           next(pc) == [task[w] EXCEPT !.pc = pc, !.shifted = FALSE]
<1>1. /\ task[w].pc \in {"header", "body"} /\ w \in Busy
      /\ TaskFd(w) \in Fds /\ c \in Conns /\ Serves(w)
      /\ \A g \in Fds : g # TaskFd(w) /\ fdtab[g] \in Conns => fdtab[g] # c
  BY Tasks, Holds DEF Send
<1>2. /\ task[w].of = c /\ rx[c] = 0 /\ sent[c] = 1 /\ task[w].shifted = FALSE
      /\ task[w].whole = (Need[c] = 1)
      /\ task[w].pc = "header" => reply[c] = <<>>
      /\ task[w].pc = "body" => reply[c] = << Part(c, Need[c] = 1, "header") >>
  BY <1>1 DEF Serves
<1>3. reply' = [reply EXCEPT ![c] = Append(@, Part(c, Need[c] = 1, task[w].pc))]
  <2>1. reply' = [reply EXCEPT ![c] = Append(@, Part(task[w].of, task[w].whole,
                                        IF task[w].shifted THEN "garbled" ELSE task[w].pc))]
    BY DEF Send, TaskFd
  <2> QED BY <1>2, <2>1
<1>4. PICK pc \in {"body", "close"} : Now(w, next(pc)) /\ (pc = "body" => task[w].pc = "header")
  BY DEF Send
<1>5. UNCHANGED <<client, rx, kernel, events, main, work_queue, down>>
  BY DEF Send
<1>6. /\ next(pc).pc = pc /\ next(pc).fd = TaskFd(w) /\ next(pc).of = c
      /\ next(pc).whole = task[w].whole /\ next(pc).shifted = FALSE
  <2>1. DOMAIN task[w] = {"pc", "fd", "of", "db", "whole", "shifted"}
    BY <1>1, Tasks DEF TaskType, Idle
  <2> HIDE DEF c
  <2> QED BY <1>2, <2>1 DEF TaskFd
<1>7. /\ reply'[c] = Append(reply[c], Part(c, Need[c] = 1, task[w].pc))
      /\ \A d \in Conns : d # c => reply'[d] = reply[d]
  BY <1>1, <1>3 DEF TypeOK
<1> HIDE DEF c, next
<1>8. /\ \A e \in events : e.fd # Hello => Pending(e.fd)' /\ ~e.hup
      /\ \A j \in DOMAIN work_queue : Pending(work_queue[j])'
      /\ task'[w] = next(pc)
      /\ \A v \in Workers : v # w => task'[v] = task[v]
      /\ \A v \in Busy' : v # w => IF task'[v].pc = "recv" THEN Pending(TaskFd(v))' ELSE Serves(v)'
      /\ OneOwner'
  <2>1. \A g \in Fds : g # TaskFd(w) /\ fdtab[g] \in Conns =>
          /\ fdtab'[g] = fdtab[g] /\ rx'[fdtab[g]] = rx[fdtab[g]]
          /\ reply'[fdtab[g]] = reply[fdtab[g]]
    BY <1>1, <1>5, <1>7 DEF kernel
  <2>2. ready' \subseteq ready /\ UNCHANGED <<client, events, work_queue>>
    BY <1>5 DEF kernel
  <2> QED BY <1>1, <1>4, <1>6, <2>1, <2>2, OthersKeep
<1>9. reply'[c] = IF task[w].pc = "header" THEN << Part(c, Need[c] = 1, "header") >>
                   ELSE << Part(c, Need[c] = 1, "header"), Part(c, Need[c] = 1, "body") >>
  BY <1>1, <1>2, <1>7
<1>10. Serves(w)'
  <2>1. TaskFd(w)' = TaskFd(w) /\ fdtab'[TaskFd(w)] = c
    BY <1>5, <1>6, <1>8 DEF TaskFd, kernel, c
  <2>2. pc = "body" => reply'[c] = << Part(c, Need[c] = 1, "header") >>
    BY <1>4, <1>9
  <2> QED BY <1>2, <1>4, <1>5, <1>6, <1>8, <2>1, <2>2 DEF Serves, client
<1>11. \A v \in Busy' : IF task'[v].pc = "recv" THEN Pending(TaskFd(v))' ELSE Serves(v)'
  BY <1>6, <1>8, <1>10
<1>12. /\ \A v \in Workers : task'[v].pc = "render" => \A g \in task'[v].db : fdtab'[g] = Db
       /\ \A u, v \in Workers : u # v /\ task'[u].pc = "render" /\ task'[v].pc = "render" =>
            task'[u].db \cap task'[v].db = {}
  BY <1>4, <1>5, <1>6, DatabasesKeep DEF kernel
<1>13. RepliesReachTheirAuthors'
  <2>1. \A d \in Conns : \A i \in DOMAIN reply[d] :
          \/ i = 1 /\ reply[d][i] = Part(d, Need[d] = 1, "header")
          \/ i = 2 /\ reply[d][i] = Part(d, Need[d] = 1, "body")
    BY DEF Tokens, RepliesReachTheirAuthors
  <2>2. \A i \in DOMAIN reply'[c] :
          \/ i = 1 /\ reply'[c][i] = Part(c, Need[c] = 1, "header")
          \/ i = 2 /\ reply'[c][i] = Part(c, Need[c] = 1, "body")
    BY <1>9
  <2> QED BY <1>7, <2>1, <2>2 DEF RepliesReachTheirAuthors
<1>14. \A d \in Conns : rx'[d] = 1 \/ sent'[d] = 0 => reply'[d] = <<>>
  BY <1>2, <1>5, <1>7 DEF Tokens, client
<1>15. \A d \in Conns : d \in ready' => rx'[d] = 1
  BY <1>5 DEF Tokens, kernel
<1> QED BY <1>5, <1>8, <1>11, <1>12, <1>13, <1>14, <1>15 DEF Tokens

LEMMA CloseConnTokens ==
  ASSUME TypeOK, Sockets, Tokens, NEW w \in Workers, CloseConn(w)
  PROVE  Tokens'
<1>1. /\ task[w].pc = "close" /\ w \in Busy /\ Now(w, Idle) /\ CloseFd(TaskFd(w))
      /\ UNCHANGED <<client, rx, events, main, work_queue, reply, down>>
  BY Tasks DEF CloseConn, TaskFd
<1>2. /\ TaskFd(w) \in Fds /\ fdtab[TaskFd(w)] \in Conns
  BY <1>1, Holds
<1>3. /\ \A g \in Fds : g # TaskFd(w) => fdtab'[g] = fdtab[g]
      /\ ready' \subseteq ready
  BY <1>1, <1>2, Closed
<1>4. /\ \A e \in events : e.fd # Hello => Pending(e.fd)' /\ ~e.hup
      /\ \A j \in DOMAIN work_queue : Pending(work_queue[j])'
      /\ task'[w] = Idle
      /\ \A v \in Workers : v # w => task'[v] = task[v]
      /\ \A v \in Busy' : v # w => IF task'[v].pc = "recv" THEN Pending(TaskFd(v))' ELSE Serves(v)'
      /\ OneOwner'
  <2>1. \A g \in Fds : g # TaskFd(w) /\ fdtab[g] \in Conns =>
          /\ fdtab'[g] = fdtab[g] /\ rx'[fdtab[g]] = rx[fdtab[g]]
          /\ reply'[fdtab[g]] = reply[fdtab[g]]
    BY <1>1, <1>3
  <2> QED BY <1>1, <1>3, <2>1, OthersKeep
<1>5. \A v \in Busy' : IF task'[v].pc = "recv" THEN Pending(TaskFd(v))' ELSE Serves(v)'
  BY <1>4 DEF Busy
<1>6. \A v \in Workers : v # w /\ task[v].pc = "render" => \A g \in task[v].db : fdtab'[g] = fdtab[g]
  <2> SUFFICES ASSUME NEW v \in Workers, v # w, task[v].pc = "render", NEW g \in task[v].db
               PROVE  fdtab'[g] = fdtab[g]
    OBVIOUS
  <2>1. g \in Fds /\ g # TaskFd(w)
    BY <1>2, Tasks, Fields, ServerAssumption DEF Tokens
  <2> QED BY <1>3, <2>1
<1>7. /\ \A v \in Workers : task'[v].pc = "render" => \A g \in task'[v].db : fdtab'[g] = Db
      /\ \A u, v \in Workers : u # v /\ task'[u].pc = "render" /\ task'[v].pc = "render" =>
           task'[u].db \cap task'[v].db = {}
  BY <1>1, <1>6, DatabasesKeep DEF Idle
<1>8. RepliesReachTheirAuthors'
  BY <1>1 DEF Tokens, RepliesReachTheirAuthors, WellBehaved, client
<1>9. /\ \A c \in Conns : c \in ready' => rx'[c] = 1
      /\ \A c \in Conns : rx'[c] = 1 \/ sent'[c] = 0 => reply'[c] = <<>>
  BY <1>1, <1>3 DEF Tokens, client
<1> QED BY <1>1, <1>4, <1>5, <1>7, <1>8, <1>9 DEF Tokens

(* What only ill-behaved clients bring about. *)
LEMMA NoTrouble ==
  ASSUME TypeOK, Sockets, Tokens, WellBehaved, NEW w \in Workers
  PROVE  ~RecvEnd(w) /\ ~RecvError(w) /\ ~SendOnClosed(w) /\ ~SendToReset(w)
<1>1. w \in Busy => fdtab[TaskFd(w)] \in Conns /\ (task[w].pc = "recv" => rx[fdtab[TaskFd(w)]] = 1)
  BY Holds DEF Pending
<1>2. \A c \in Conns : peer[c] \notin {"fin", "reset"}
  BY DEF WellBehaved
<1>3. task[w].pc \in {"recv", "header", "body"} => w \in Busy
  BY Tasks
<1> QED BY <1>1, <1>2, <1>3 DEF RecvEnd, RecvError, SendOnClosed, SendToReset, TaskFd

LEMMA WorkerTokens ==
  ASSUME TypeOK, Sockets, Tokens, WellBehaved, NEW w \in Workers, Worker(w)
  PROVE  Tokens'
<1>1. CASE OpenFails(w) \/ RenderThrows(w)
  <2>1. UNCHANGED <<client, rx, kernel, events, work_queue, task, reply>>
    BY <1>1 DEF OpenFails, RenderThrows
  <2> QED BY <2>1 DEF Tokens, OneOwner, Pending, Serves, Busy, TaskFd, RepliesReachTheirAuthors,
                      WellBehaved, client, kernel
<1> QED BY <1>1, TakeTaskTokens, RecvTokens, RenderTokens, SendTokens, CloseConnTokens, NoTrouble DEF Worker

-----------------------------------------------------------------------------
(* While clients are well-behaved no task names a number that accept may    *)
(* hand out, so none closes a connection before it is added to epoll.       *)
LEMMA NoTaskNamesAFreeNumber ==
  ASSUME TypeOK, Sockets, Tokens, WellBehaved
  PROVE  ~AddFails
<1> SUFFICES ASSUME NEW f \in Free, NEW w \in Workers, task[w].pc \in {"close", "recv"}, task[w].fd = f
             PROVE  FALSE
  BY DEF AddFails
<1>1. w \in Busy
  BY Tasks
<1>2. fdtab[TaskFd(w)] \in Conns
  BY <1>1, Holds
<1> QED BY <1>2, ServerAssumption DEF Free, TaskFd

(* The ends of the process and their causes. *)
LEMMA StepCause ==
  ASSUME TypeOK, Sockets, WellBehaved => Tokens, Next
  PROVE  CrashHasACause'
<1>0. down = "no"
  BY DEF Next
<1>1. ASSUME UNCHANGED <<fdtab, client>> PROVE UNCHANGED <<Free, WellBehaved>>
  BY <1>1 DEF Free, WellBehaved, client
<1>2. CASE AcceptFails \/ \E w \in Workers : OpenFails(w)
  <2>1. down' = "exit" /\ Free = {} /\ UNCHANGED <<fdtab, client>>
    BY <1>2 DEF AcceptFails, OpenFails, kernel
  <2> QED BY <1>1, <2>1 DEF CrashHasACause
<1>3. CASE AddFails
  <2>1. down' = "exit" /\ UNCHANGED <<fdtab, client>>
    BY <1>3 DEF AddFails, kernel
  <2>2. ~WellBehaved
    BY <1>3, NoTaskNamesAFreeNumber
  <2> QED BY <1>1, <2>1, <2>2 DEF CrashHasACause
<1>4. ASSUME NEW w \in Workers, RecvError(w) PROVE CrashHasACause'
  <2>1. down' = "terminate" /\ UNCHANGED <<fdtab, client>>
    BY <1>4 DEF RecvError, kernel
  <2>2. ~WellBehaved
    BY <1>4, NoTrouble
  <2> QED BY <1>1, <2>1, <2>2 DEF CrashHasACause
<1>5. ASSUME NEW w \in Workers, SendToReset(w) PROVE CrashHasACause'
  <2>1. down' = "sigpipe" /\ peer' = peer /\ \E c \in Conns : peer[c] = "reset"
    BY <1>5 DEF SendToReset, client
  <2> QED BY <2>1 DEF CrashHasACause
<1>6. ASSUME NEW w \in Workers, RenderThrows(w) PROVE CrashHasACause'
  <2>1. down' = "throw" /\ task' = task /\ task[w].pc = "render" /\ task[w].of \in Risky
    BY <1>6 DEF RenderThrows
  <2> QED BY <2>1 DEF CrashHasACause
<1>7. ASSUME down' = down PROVE CrashHasACause'
  BY <1>0, <1>7 DEF CrashHasACause
<1> QED
  BY <1>2, <1>3, <1>4, <1>5, <1>6, <1>7
  DEF Next, Client, Connect, ClientSend, ClientFin, ClientReset, Arrive,
      Main, EpollWait, HangUp, AcceptEvent, Submit, Accept, AcceptAgain,
      Worker, TakeTask, Recv, Render, RecvEnd, Send, SendOnClosed, CloseConn

LEMMA StepIInv == ASSUME IInv, [Next]_vars PROVE IInv'
<1>0. TypeOK /\ Sockets /\ (WellBehaved => Tokens) /\ CrashHasACause
  BY DEF IInv
<1>1. CASE UNCHANGED vars
  <2>1. TypeOK'
    BY <1>0, <1>1 DEF vars, client, kernel, TypeOK
  <2>2. Sockets'
    BY <1>0, <1>1 DEF vars, client, kernel, Sockets, Open
  <2>3. WellBehaved' => Tokens'
    BY <1>0, <1>1 DEF vars, client, kernel, Tokens, OneOwner, Pending, Serves, Busy, TaskFd,
                      RepliesReachTheirAuthors, WellBehaved
  <2>4. CrashHasACause'
    BY <1>0, <1>1 DEF vars, client, kernel, CrashHasACause, Free, WellBehaved
  <2> QED BY <2>1, <2>2, <2>3, <2>4 DEF IInv
<1>2. CASE Next
  <2>1. (\E c \in Conns : Client(c)) \/ Main \/ (\E w \in Workers : Worker(w))
    BY <1>2 DEF Next
  <2>2. TypeOK'
    BY <1>0, <2>1, ClientTypes, MainTypes, WorkerTypes
  <2>3. Sockets'
    BY <1>0, <2>1, ClientSockets, MainSockets, WorkerSockets
  <2>4. ASSUME WellBehaved' PROVE Tokens'
    <3>1. WellBehaved /\ Tokens
      BY <1>0, <1>2, <2>4, StaysGood
    <3> QED BY <1>0, <2>1, <2>4, <3>1, ClientTokens, MainTokens, WorkerTokens
  <2> QED BY <1>0, <1>2, <2>2, <2>3, <2>4, StepCause DEF IInv
<1> QED BY <1>1, <1>2

LEMMA Invariance == Spec => []IInv
BY InitIInv, StepIInv, PTL DEF Spec

-----------------------------------------------------------------------------
(* The state keeps its types, rx never more than was sent. *)
THEOREM TypeCorrect == Spec => []TypeOK
<1>1. IInv => TypeOK
  BY DEF IInv
<1> QED BY <1>1, Invariance, PTL

(* While clients are well-behaved each descriptor is in one place only.     *)
THEOREM OneOwnerAlways == Spec => []OneOwnerPerDescriptor
<1>1. IInv => OneOwnerPerDescriptor
  BY DEF IInv, Tokens, OneOwnerPerDescriptor
<1> QED BY <1>1, Invariance, PTL

(* While clients are well-behaved each reply reaches its author.            *)
THEOREM RepliesAlways == Spec => []RepliesReachTheirAuthors
<1>1. ASSUME IInv PROVE RepliesReachTheirAuthors
  BY <1>1 DEF IInv, Tokens, RepliesReachTheirAuthors
<1> QED BY <1>1, Invariance, PTL

(* While clients are well-behaved no worker waits for a silent one.         *)
THEOREM NeverBlocks == Spec => []NoWorkerBlocks
<1>1. ASSUME IInv, WellBehaved, NEW w \in Workers, task[w].pc = "recv"
      PROVE  fdtab[TaskFd(w)] \in Conns /\ rx[fdtab[TaskFd(w)]] > 0
  <2>1. TypeOK /\ Sockets /\ Tokens
    BY <1>1 DEF IInv
  <2>2. Pending(TaskFd(w))
    BY <1>1, <2>1, Tasks, Holds
  <2> QED BY <2>2 DEF Pending
<1>2. IInv => NoWorkerBlocks
  BY <1>1 DEF NoWorkerBlocks
<1> QED BY <1>2, Invariance, PTL

(* The process ends for want of descriptors, by an exception of a handler   *)
(* that may throw, by a send to a peer that has reset, or after a client    *)
(* did more than send one segment and wait; and for no other reason.        *)
THEOREM Causes == Spec => []CrashHasACause
<1>1. IInv => CrashHasACause
  BY DEF IInv
<1> QED BY <1>1, Invariance, PTL

-----------------------------------------------------------------------------
(* The descriptors of databases, who uses one, and who has left one behind. *)
Lent == {f \in Fds : fdtab[f] = Db}
Rendering == {w \in Workers : task[w].pc = "render"}
Kept == {c \in Strays : Rendered(c)}

(* A closed connection is nowhere any more; a worker renders with one       *)
(* database; and each database still open is in use or left behind.         *)
Gone == \A c \in gone : /\ c \in Conns /\ peer[c] # "idle" /\ ~Open(c)
                        /\ \A i \in DOMAIN backlog : backlog[i] # c
OneDb == \A w \in Rendering : \E f \in Fds : task[w].db = {f}
Balance == Cardinality(Lent) = Cardinality(Rendering) + Cardinality(Kept)
Ledger == Gone /\ OneDb /\ (WellBehaved => Balance)

LEMMA FiniteLedger ==
  /\ IsFiniteSet(Lent) /\ IsFiniteSet(Rendering) /\ IsFiniteSet(Kept)
  /\ Cardinality(Lent) \in Nat /\ Cardinality(Rendering) \in Nat /\ Cardinality(Kept) \in Nat
<1>1. Lent \in SUBSET Fds /\ Rendering \in SUBSET Workers /\ Kept \in SUBSET Conns
  BY ServerAssumption DEF Lent, Rendering, Kept
<1> QED BY <1>1, ServerAssumption, FS_Subset, FS_CardinalityType

LEMMA InitLedger == Init => Ledger
<1> SUFFICES ASSUME Init PROVE Ledger
  OBVIOUS
<1>1. Lent = {} /\ Rendering = {} /\ Kept = {}
  BY ServerAssumption DEF Init, Lent, Rendering, Kept, Rendered, Idle
<1>2. Balance
  BY <1>1, FS_EmptySet DEF Balance
<1> QED BY <1>1, <1>2 DEF Ledger, Gone, OneDb, Init

(* A closed connection stays closed: no step puts it anywhere again. *)
LEMMA CloseKeepsGone ==
  ASSUME TypeOK, Sockets, Gone, NEW f \in Fds, CloseFd(f), peer' = peer
  PROVE  Gone'
<1>1. backlog' = backlog /\ \A c \in Conns : Open(c)' => Open(c)
  BY Closed, ServerAssumption DEF Open
<1>2. \A c \in gone' : c \in gone \/ (c \in Conns /\ c = fdtab[f])
  <2>1. CASE fdtab[f] = NoConn
    BY <2>1 DEF CloseFd, kernel
  <2>2. CASE fdtab[f] # NoConn
    BY <2>2 DEF CloseFd
  <2> QED BY <2>1, <2>2
<1>3. ASSUME NEW c \in gone', c \in Conns, c = fdtab[f]
      PROVE  /\ peer[c] # "idle" /\ ~Open(c)'
             /\ \A i \in DOMAIN backlog : backlog[i] # c
  <2>1. Open(c) /\ peer[c] # "idle"
    BY <1>3 DEF Open, Sockets
  <2>2. \A g \in Fds : fdtab'[g] = c => g # f /\ fdtab[g] = fdtab[f]
    BY <1>3, Closed, ServerAssumption
  <2>3. ~Open(c)'
    BY <1>3, <2>2 DEF Open, Sockets
  <2> QED BY <2>1, <2>3 DEF Sockets
<1> QED BY <1>1, <1>2, <1>3 DEF Gone

LEMMA StepGone == ASSUME TypeOK, Sockets, Gone, Next PROVE Gone'
<1>1. ASSUME UNCHANGED <<peer, backlog, fdtab, gone>> PROVE Gone'
  BY <1>1 DEF Gone, Open
<1>2. ASSUME NEW c \in Conns, Connect(c) PROVE Gone'
  <2>1. /\ peer[c] = "idle" /\ c \notin gone
        /\ \A d \in Conns : d # c => peer'[d] = peer[d]
        /\ backlog' = Append(backlog, c) /\ UNCHANGED <<fdtab, gone>>
    BY <1>2 DEF Connect, TypeOK, Gone
  <2>2. \A i \in DOMAIN backlog' : backlog'[i] = c \/ (i \in DOMAIN backlog /\ backlog'[i] = backlog[i])
    <3>1. backlog \in Seq(Conns)
      BY DEF TypeOK
    <3> QED BY <2>1, <3>1
  <2> QED BY <2>1, <2>2 DEF Gone, Open
<1>3. ASSUME NEW c \in Conns, ClientFin(c) \/ ClientReset(c) PROVE Gone'
  <2>1. /\ UNCHANGED <<backlog, fdtab, gone>>
        /\ \A d \in Conns : peer[d] # "idle" => peer'[d] # "idle"
    BY <1>3 DEF ClientFin, ClientReset, Arrive, TypeOK
  <2> QED BY <2>1 DEF Gone, Open
<1>4. ASSUME Accept PROVE Gone'
  <2>1. PICK f \in Free : fdtab' = [fdtab EXCEPT ![f] = Head(backlog)]
    BY <1>4 DEF Accept
  <2>2. /\ UNCHANGED <<peer, gone>> /\ backlog' = Tail(backlog) /\ backlog # <<>>
        /\ backlog \in Seq(Conns)
    BY <1>4 DEF Accept, client, TypeOK
  <2>3. \A i \in DOMAIN Tail(backlog) : i + 1 \in DOMAIN backlog /\ Tail(backlog)[i] = backlog[i + 1]
    BY <2>2
  <2>4. Head(backlog) = backlog[1] /\ 1 \in DOMAIN backlog
    BY <2>2
  <2>5. \A c \in gone : Open(c)' => Open(c) \/ c = Head(backlog)
    BY <2>1 DEF Open, TypeOK, Free
  <2> QED BY <2>2, <2>3, <2>4, <2>5 DEF Gone
<1>5. ASSUME NEW e \in events, HangUp(e) PROVE Gone'
  <2>1. e.fd \in Fds /\ CloseFd(e.fd) /\ peer' = peer
    BY <1>5, Named DEF HangUp, client, Sockets, Handled
  <2> QED BY <2>1, CloseKeepsGone
<1>6. ASSUME NEW w \in Workers, RecvEnd(w) \/ CloseConn(w) \/ Render(w) PROVE Gone'
  <2>1. peer' = peer /\ task[w].fd \in Fds
    BY <1>6, Tasks DEF RecvEnd, CloseConn, Render, client, TaskFd
  <2>2. CASE UNCHANGED kernel
    BY <1>1, <2>1, <2>2 DEF kernel
  <2>3. CASE \E f \in Fds : CloseFd(f)
    BY <2>1, <2>3, CloseKeepsGone
  <2>4. Render(w) => task[w].db \subseteq Fds
    BY Tasks, Fields DEF Render
  <2> QED BY <1>6, <2>1, <2>2, <2>3, <2>4 DEF RecvEnd, CloseConn, Render
<1>7. ASSUME NEW w \in Workers, Recv(w) PROVE Gone'
  <2>1. /\ UNCHANGED <<peer, backlog, gone>>
        /\ \E f \in Free : fdtab' = [fdtab EXCEPT ![f] = Db]
    BY <1>7 DEF Recv, client
  <2>2. \A c \in gone : Open(c)' => Open(c)
    BY <2>1, ServerAssumption DEF Open, TypeOK, Gone
  <2> QED BY <2>1, <2>2 DEF Gone
<1> QED
  BY <1>1, <1>2, <1>3, <1>4, <1>5, <1>6, <1>7
  DEF Next, Client, ClientSend, Arrive, Main, EpollWait, AcceptEvent, Submit, AcceptAgain, AcceptFails,
      AddFails, Worker, TakeTask, OpenFails, RenderThrows, RecvError, Send, SendOnClosed, SendToReset, client, kernel

(* Only Recv starts to render, with the one database it opens. *)
LEMMA StepOneDb == ASSUME TypeOK, OneDb, Next PROVE OneDb'
<1>1. ASSUME UNCHANGED task PROVE OneDb'
  BY <1>1 DEF OneDb, Rendering
<1>2. ASSUME NEW w \in Workers, NEW t, Now(w, t), t.pc # "render" PROVE OneDb'
  <2>1. task'[w] = t /\ \A v \in Workers : v # w => task'[v] = task[v]
    BY <1>2 DEF Now, TypeOK
  <2> QED BY <1>2, <2>1 DEF OneDb, Rendering
<1>3. ASSUME NEW w \in Workers, Recv(w) PROVE OneDb'
  <2> DEFINE t(f, b) == [pc |-> "render", fd |-> task[w].fd, of |-> fdtab[task[w].fd], db |-> {f},
                         whole |-> b, shifted |-> FALSE]
  <2>1. PICK f \in Free, b \in BOOLEAN : Now(w, t(f, b))
    BY <1>3 DEF Recv
  <2>2. f \in Fds /\ t(f, b).db = {f}
    BY <2>1 DEF Free
  <2>3. task'[w] = t(f, b) /\ \A v \in Workers : v # w => task'[v] = task[v]
    BY <2>1 DEF Now, TypeOK
  <2> QED BY <2>2, <2>3 DEF OneDb, Rendering
<1>4. ASSUME NEW w \in Workers,
             TakeTask(w) \/ RecvEnd(w) \/ Render(w) \/ Send(w) \/ SendOnClosed(w) \/ CloseConn(w)
      PROVE  OneDb'
  <2>1. Idle.pc # "render" /\ \A f : [pc |-> "recv", fd |-> f].pc # "render"
    BY DEF Idle
  <2>2. task[w].pc \in {"render", "header", "body"} =>
          /\ [task[w] EXCEPT !.pc = "header", !.db = {}].pc = "header"
          /\ [task[w] EXCEPT !.pc = "body", !.shifted = FALSE].pc = "body"
          /\ [task[w] EXCEPT !.pc = "close", !.shifted = FALSE].pc = "close"
          /\ [task[w] EXCEPT !.shifted = TRUE].pc = task[w].pc
    BY Tasks DEF TaskType, Idle
  <2> QED BY <1>2, <1>4, <2>1, <2>2 DEF TakeTask, RecvEnd, Render, Send, SendOnClosed, CloseConn
<1>5. (\E w \in Workers : OpenFails(w) \/ RenderThrows(w) \/ RecvError(w) \/ SendToReset(w)) => UNCHANGED task
  BY DEF OpenFails, RenderThrows, RecvError, SendToReset
<1>6. Main \/ (\E c \in Conns : Client(c)) => UNCHANGED task
  BY DEF Client, Connect, ClientSend, ClientFin, ClientReset, Arrive,
         Main, EpollWait, HangUp, AcceptEvent, Submit, Accept, AcceptAgain, AcceptFails, AddFails
<1> QED BY <1>1, <1>3, <1>4, <1>5, <1>6 DEF Next, Worker

-----------------------------------------------------------------------------
(* Steps that open or close no database and finish no connection. *)
LEMMA QuietBalance ==
  ASSUME Balance,
         \A f \in Fds : fdtab'[f] = Db <=> fdtab[f] = Db,
         gone' = gone,
         \A w \in Workers : task'[w].pc = "render" <=> task[w].pc = "render",
         \A w \in Workers : task[w].pc \in {"header", "body", "close"} \/ task'[w].pc \in {"header", "body", "close"} =>
           /\ task[w].pc \in {"header", "body", "close"} /\ task'[w].pc \in {"header", "body", "close"}
           /\ task'[w].of = task[w].of
  PROVE  Balance'
<1>1. Lent' = Lent /\ Rendering' = Rendering
  BY DEF Lent, Rendering
<1>2. Kept' = Kept
  BY DEF Kept, Rendered
<1> QED BY <1>1, <1>2 DEF Balance

LEMMA QuietSteps ==
  ASSUME TypeOK, Sockets, Tokens, Balance,
         \/ \E c \in Conns : Client(c)
         \/ Main
         \/ \E w \in Workers : TakeTask(w) \/ OpenFails(w) \/ RenderThrows(w) \/ Send(w)
  PROVE  Balance'
<1>1. ASSUME UNCHANGED <<fdtab, gone, task>> PROVE Balance'
  BY <1>1, QuietBalance
<1>2. ASSUME NEW c \in Conns, Client(c) PROVE Balance'
  BY <1>1, <1>2 DEF Client, Connect, ClientSend, ClientFin, ClientReset, Arrive
<1>3. ASSUME NEW e \in events PROVE ~HangUp(e)
  BY DEF HangUp, Handled, Sockets, Tokens
<1>4. ASSUME Accept PROVE Balance'
  <2>1. PICK f \in Free : fdtab' = [fdtab EXCEPT ![f] = Head(backlog)]
    BY <1>4 DEF Accept
  <2>2. Head(backlog) \in Conns /\ UNCHANGED <<gone, task>>
    BY <1>4 DEF Accept, TypeOK
  <2>3. \A g \in Fds : fdtab'[g] = Db <=> fdtab[g] = Db
    BY <2>1, <2>2, ServerAssumption DEF Free, TypeOK
  <2> QED BY <2>2, <2>3, QuietBalance
<1>5. ASSUME NEW w \in Workers, OpenFails(w) \/ RenderThrows(w) PROVE Balance'
  BY <1>1, <1>5 DEF OpenFails, RenderThrows, kernel
<1>6. ASSUME NEW w \in Workers, NEW t, Now(w, t), UNCHANGED <<fdtab, gone>>,
             t.pc # "render", task[w].pc # "render",
             t.pc \in {"header", "body", "close"} <=> task[w].pc \in {"header", "body", "close"},
             t.pc \in {"header", "body", "close"} => t.of = task[w].of
      PROVE  Balance'
  <2>1. task'[w] = t /\ \A v \in Workers : v # w => task'[v] = task[v]
    BY <1>6 DEF Now, TypeOK
  <2> QED BY <1>6, <2>1, QuietBalance
<1>7. ASSUME NEW w \in Workers, TakeTask(w) PROVE Balance'
  <2>1. /\ Idle.pc = "idle" /\ task[w] = Idle
        /\ [pc |-> "recv", fd |-> Head(work_queue)].pc = "recv"
        /\ Now(w, [pc |-> "recv", fd |-> Head(work_queue)]) /\ UNCHANGED <<fdtab, gone>>
    BY <1>7 DEF TakeTask, Idle, kernel
  <2> QED BY <1>6, <2>1
<1>8. ASSUME NEW w \in Workers, Send(w) PROVE Balance'
  <2>1. task[w].pc \in {"header", "body"} /\ UNCHANGED <<fdtab, gone>>
    BY <1>8 DEF Send, kernel
  <2>2. /\ [task[w] EXCEPT !.pc = "body", !.shifted = FALSE].pc = "body"
        /\ [task[w] EXCEPT !.pc = "body", !.shifted = FALSE].of = task[w].of
        /\ [task[w] EXCEPT !.pc = "close", !.shifted = FALSE].pc = "close"
        /\ [task[w] EXCEPT !.pc = "close", !.shifted = FALSE].of = task[w].of
    BY <2>1, Tasks DEF TaskType, Idle
  <2>3. \/ Now(w, [task[w] EXCEPT !.pc = "body", !.shifted = FALSE])
        \/ Now(w, [task[w] EXCEPT !.pc = "close", !.shifted = FALSE])
    BY <1>8 DEF Send
  <2> QED BY <1>6, <2>1, <2>2, <2>3
<1> QED BY <1>1, <1>2, <1>3, <1>4, <1>5, <1>7, <1>8
        DEF Main, EpollWait, AcceptEvent, Submit, AcceptAgain, AcceptFails, AddFails, kernel

(* recv returns a request: one database more, and one worker that renders.  *)
LEMMA RecvBalance ==
  ASSUME TypeOK, Balance, NEW w \in Workers, Recv(w)
  PROVE  Balance'
<1> DEFINE t(f, b) == [pc |-> "render", fd |-> task[w].fd, of |-> fdtab[task[w].fd], db |-> {f},
                       whole |-> b, shifted |-> FALSE]
<1>1. PICK f \in Free, b \in BOOLEAN :
        fdtab' = [fdtab EXCEPT ![f] = Db] /\ Now(w, t(f, b))
  BY DEF Recv
<1>2. task[w].pc = "recv" /\ gone' = gone /\ f \in Fds /\ fdtab[f] # Db /\ t(f, b).pc = "render"
  BY <1>1, ServerAssumption DEF Recv, Free
<1> HIDE DEF t
<1>3. task'[w] = t(f, b) /\ \A v \in Workers : v # w => task'[v] = task[v]
  BY <1>1 DEF Now, TypeOK
<1>4. Lent' = Lent \cup {f} /\ f \notin Lent
  BY <1>1, <1>2 DEF Lent, TypeOK
<1>5. Rendering' = Rendering \cup {w} /\ w \notin Rendering
  BY <1>2, <1>3 DEF Rendering
<1>6. Kept' = Kept
  BY <1>2, <1>3 DEF Kept, Rendered
<1>7. /\ Cardinality(Lent') = Cardinality(Lent) + 1
      /\ Cardinality(Rendering') = Cardinality(Rendering) + 1
  BY <1>4, <1>5, FiniteLedger, FS_AddElement
<1> QED BY <1>6, <1>7, FiniteLedger DEF Balance

(* The response is rendered: one worker that renders less, and either its   *)
(* database is closed or its request is one more stray to have left it.     *)
LEMMA RenderBalance ==
  ASSUME TypeOK, Sockets, Tokens, Gone, OneDb, Balance, NEW w \in Workers, Render(w)
  PROVE  Balance'
<1> DEFINE t == [task[w] EXCEPT !.pc = "header", !.db = {}]
           c == task[w].of
<1>1. task[w].pc = "render" /\ Now(w, t) /\ w \in Busy
  BY Tasks DEF Render
<1>2. t.pc = "header" /\ t.of = c
  BY <1>1, Tasks DEF TaskType, Idle
<1> HIDE DEF t
<1>3. task'[w] = t /\ \A v \in Workers : v # w => task'[v] = task[v]
  BY <1>1 DEF Now, TypeOK
<1>4. PICK f \in Fds : task[w].db = {f}
  BY <1>1 DEF OneDb, Rendering
<1>5. fdtab[f] = Db
  BY <1>1, <1>4 DEF Tokens
<1>6. Rendering' = Rendering \ {w} /\ w \in Rendering
  BY <1>1, <1>2, <1>3 DEF Rendering
<1>9. Cardinality(Rendering') = Cardinality(Rendering) - 1
  BY <1>6, FiniteLedger, FS_RemoveElement
<1>7. CASE c \in Strays
  <2>1. fdtab' = fdtab /\ gone' = gone
    BY <1>7 DEF Render, kernel
  <2>2. Lent' = Lent
    BY <2>1 DEF Lent
  <2>3. c \notin gone
    <3>1. Open(c) /\ c \in Conns
      BY <1>1, Holds DEF Serves, Open
    <3> QED BY <3>1 DEF Gone
  <2>4. ASSUME NEW v \in Workers, task[v].pc \in {"header", "body", "close"} PROVE task[v].of # c
    <3>1. v \in Busy /\ v # w
      BY <1>1, <2>4, Tasks
    <3>2. TaskFd(v) # TaskFd(w)
      BY <1>1, <3>1 DEF Tokens, OneOwner
    <3>3. /\ TaskFd(v) \in Fds /\ fdtab[TaskFd(v)] = task[v].of
          /\ TaskFd(w) \in Fds /\ fdtab[TaskFd(w)] = c /\ c \in Conns
      BY <1>1, <2>4, <3>1, Holds DEF Serves
    <3> QED BY <3>2, <3>3 DEF Sockets
  <2>5. Kept' = Kept \cup {c} /\ c \notin Kept
    BY <1>1, <1>2, <1>3, <1>7, <2>1, <2>3, <2>4 DEF Kept, Rendered
  <2>6. Cardinality(Kept') = Cardinality(Kept) + 1
    BY <2>5, FiniteLedger, FS_AddElement
  <2> QED BY <1>9, <2>2, <2>6, FiniteLedger DEF Balance
<1>8. CASE c \notin Strays
  <2>1. CloseFd(f)
    BY <1>4, <1>8 DEF Render
  <2>2. gone' = gone
    BY <1>5, <2>1, ServerAssumption DEF CloseFd, kernel
  <2>3. Lent' = Lent \ {f} /\ f \in Lent
    BY <1>5, <2>1, Closed, ServerAssumption DEF Lent
  <2>4. Kept' = Kept
    BY <1>1, <1>2, <1>3, <1>8, <2>2 DEF Kept, Rendered
  <2>5. Cardinality(Lent') = Cardinality(Lent) - 1
    BY <2>3, FiniteLedger, FS_RemoveElement
  <2> QED BY <1>9, <2>4, <2>5, FiniteLedger DEF Balance
<1> QED BY <1>7, <1>8

(* The connection is closed: what its worker had done stays done. *)
LEMMA CloseBalance ==
  ASSUME TypeOK, Sockets, Tokens, Balance, NEW w \in Workers, CloseConn(w)
  PROVE  Balance'
<1> DEFINE c == task[w].of
<1>1. /\ task[w].pc = "close" /\ w \in Busy /\ Now(w, Idle) /\ CloseFd(TaskFd(w))
      /\ TaskFd(w) \in Fds /\ fdtab[TaskFd(w)] = c /\ c \in Conns
  BY Tasks, Holds DEF CloseConn, TaskFd, Serves
<1>2. task'[w] = Idle /\ Idle.pc = "idle" /\ \A v \in Workers : v # w => task'[v] = task[v]
  BY <1>1 DEF Now, TypeOK, Idle
<1>3. gone' = gone \cup {c}
  BY <1>1, ServerAssumption DEF CloseFd
<1>4. Lent' = Lent
  BY <1>1, Closed, ServerAssumption DEF Lent
<1>5. Rendering' = Rendering
  BY <1>1, <1>2 DEF Rendering
<1>6. Kept' = Kept
  BY <1>1, <1>2, <1>3 DEF Kept, Rendered
<1> QED BY <1>4, <1>5, <1>6 DEF Balance

LEMMA StepLedger == ASSUME IInv, Ledger, [Next]_vars PROVE Ledger'
<1>1. CASE UNCHANGED vars
  <2>1. UNCHANGED <<gone, peer, fdtab, backlog, task>> /\ (WellBehaved' => WellBehaved)
    BY <1>1 DEF vars, client, kernel, WellBehaved
  <2>2. Gone' /\ OneDb'
    BY <2>1 DEF Ledger, Gone, Open, OneDb, Rendering
  <2>3. WellBehaved' => Balance'
    BY <2>1, QuietBalance DEF Ledger
  <2> QED BY <2>2, <2>3 DEF Ledger
<1>2. CASE Next
  <2>1. Gone' /\ OneDb'
    BY <1>2, StepGone, StepOneDb DEF IInv, Ledger
  <2>2. ASSUME WellBehaved' PROVE Balance'
    <3>1. TypeOK /\ Sockets /\ Tokens /\ Gone /\ OneDb /\ Balance /\ WellBehaved
      BY <1>2, <2>2, StaysGood DEF IInv, Ledger
    <3>2. \A w \in Workers : ~RecvEnd(w) /\ ~RecvError(w) /\ ~SendOnClosed(w) /\ ~SendToReset(w)
      BY <3>1, NoTrouble
    <3> QED BY <1>2, <3>1, <3>2, QuietSteps, RecvBalance, RenderBalance, CloseBalance DEF Next, Worker
  <2> QED BY <2>1, <2>2 DEF Ledger
<1> QED BY <1>1, <1>2

(* As many descriptors stand for connections as connections are open. *)
LEMMA OnePerConnection ==
  ASSUME TypeOK, Sockets
  PROVE  Cardinality({f \in Fds : fdtab[f] \in Conns}) = Cardinality({c \in Conns : Open(c)})
<1> DEFINE S == {f \in Fds : fdtab[f] \in Conns}
           T == {c \in Conns : Open(c)}
           g == [f \in S |-> fdtab[f]]
<1>1. IsFiniteSet(S)
  BY ServerAssumption, FS_Subset
<1>2. g \in [S -> T]
  BY DEF Open
<1>3. \A e, f \in S : e # f => g[e] # g[f]
  BY DEF Sockets
<1>4. \A c \in T : \E f \in S : g[f] = c
  BY DEF Open
<1> HIDE DEF S, T, g
<1>5. g \in Bijection(S, T)
  BY <1>2, <1>3, <1>4, Fun_IsBij
<1> QED BY <1>1, <1>5, FS_Bijection, Fun_ExistsBij DEF S, T

(* While clients are well-behaved the descriptors taken are those of open   *)
(* connections and of databases in use, and one for each stray answered:    *)
(* nothing else is ever left open, whatever the threads do in which order.  *)
THEOREM DescriptorsAreReturned == Spec => []DescriptorsComeBack
<1>1. ASSUME IInv, Ledger PROVE DescriptorsComeBack
  <2> SUFFICES ASSUME WellBehaved
               PROVE  Cardinality(Fds \ Free) = Cardinality({c \in Conns : Open(c)})
                        + Cardinality(Rendering) + Cardinality(Kept)
    BY DEF DescriptorsComeBack, Rendering, Kept
  <2> DEFINE S == {f \in Fds : fdtab[f] \in Conns}
  <2>1. TypeOK /\ Sockets /\ Balance
    BY <1>1 DEF IInv, Ledger
  <2>a. \A f \in Fds : fdtab[f] \in Conns \cup {Db, NoConn}
    BY <2>1 DEF TypeOK
  <2>2. Fds \ Free = S \cup Lent /\ S \cap Lent = {}
    BY <2>a, ServerAssumption DEF Free, Lent
  <2>3. IsFiniteSet(S) /\ Cardinality(S) \in Nat
    BY ServerAssumption, FS_Subset, FS_CardinalityType
  <2>4. Cardinality(S) = Cardinality({c \in Conns : Open(c)})
    BY <2>1, OnePerConnection
  <2> HIDE DEF S
  <2>5. Cardinality(Fds \ Free) = Cardinality(S) + Cardinality(Lent)
    <3>1. Cardinality(S \cup Lent) = Cardinality(S) + Cardinality(Lent) - Cardinality({})
      BY <2>2, <2>3, FiniteLedger, FS_Union
    <3>2. Cardinality({}) = 0
      BY FS_EmptySet
    <3>3. Cardinality(S) \in Nat /\ Cardinality(Lent) \in Nat
      BY <2>3, FiniteLedger
    <3>4. Cardinality(S \cup Lent) = Cardinality(S) + Cardinality(Lent)
      BY <3>1, <3>2, <3>3
    <3> QED BY <2>2, <3>4
  <2> QED BY <2>1, <2>3, <2>4, <2>5, FiniteLedger DEF Balance
<1>2. Init => IInv /\ Ledger
  BY InitIInv, InitLedger
<1>3. IInv /\ Ledger /\ [Next]_vars => IInv' /\ Ledger'
  BY StepIInv, StepLedger
<1> QED BY <1>1, <1>2, <1>3, PTL DEF Spec
=============================================================================
