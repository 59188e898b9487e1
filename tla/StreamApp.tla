----------------------------- MODULE StreamApp -----------------------------
(***************************************************************************)
(* The two-way video call (src/src/stream_main.cpp, stream_client.cpp,     *)
(* stream_server.cpp).  Each of two hosts runs a parent, which sends the   *)
(* pictures of the camera, and a child, which receives those of the peer.  *)
(*                                                                         *)
(* The child does not exit after StreamClient::run: it goes on to be a     *)
(* StreamServer of its own.  The parent keeps camera and connection open   *)
(* while it waits for the child.  A picture is only counted; a codec is    *)
(* the number of pictures it may hold back.  The network delivers in order *)
(* (TCP); the user may press Ctrl+C or start a host again.                 *)
(***************************************************************************)
EXTENDS Integers, FiniteSets

CONSTANTS Hosts,        \* the two machines of the call
          EncDelay,     \* pictures the encoder may hold (max_b_frames = 1)
          DecDelay,     \* pictures the decoder may hold
          WireCap,      \* pictures the socket buffers take before write blocks
          MaxFrames,    \* bound: pictures a sender takes
          MaxStarts     \* bound: times the program is started on a host

ASSUME HostsAssumption == \E a, b \in Hosts : a # b /\ Hosts = {a, b}
ASSUME BoundsAssumption == /\ EncDelay \in Nat /\ DecDelay \in Nat
                           /\ WireCap \in Nat \ {0}
                           /\ MaxFrames \in Nat /\ MaxStarts \in [Hosts -> Nat]

Roles == {"parent", "child"}
Procs == Hosts \X Roles
ParentOf(h) == <<h, "parent">>
ChildOf(h) == <<h, "child">>
ProcsOf(h) == {ParentOf(h), ChildOf(h)}
PeerOf(h) == CHOOSE k \in Hosts : k # h

VARIABLES pc,        \* where each process is
          end,       \* StreamServer::end of each process
          camera,    \* the processes that have their host's camera open
          works,     \* whether the camera of a host still gives pictures
          sending,   \* the processes with an open outgoing connection
          into,      \* the process whose connection a host's child accepted
          wire,      \* pictures on their way to a host's child
          captured,  \* pictures a host has taken since it connected
          encoder,   \* of them, those its encoder holds
          decoder,   \* pictures the decoder of a host's child holds
          shown,     \* pictures a host's child has shown in its window
          starts     \* how often the program was started on a host

pictures == <<wire, captured, encoder, decoder, shown>>
vars == <<pc, end, camera, works, sending, into, pictures, starts>>

Receiving == {"listen", "receive"}
Ended == {"down", "exited"}
Places == Receiving \cup Ended
            \cup {"sleep", "camera", "connect", "header", "stream", "wait"}

Alive(p) == pc[p] \notin Ended

MutHandles(p) == pc[p] \in {"receive", "stream", "wait"}  \* mutant: StreamClient installs its handler too

\* signal(SIGINT, ...) is the constructor's last call; before it, and all the
\* time a child receives, Ctrl+C has its default action.
Handles(p) == pc[p] \in {"stream", "wait"}

\* The peer's child still reads what p sends.
Delivers(p) == LET k == PeerOf(p[1]) IN p \in into[k] /\ pc[ChildOf(k)] = "receive"

-----------------------------------------------------------------------------
Init ==
  /\ pc = [p \in Procs |-> "down"]
  /\ end = [p \in Procs |-> FALSE]
  /\ camera = {}
  /\ works = [h \in Hosts |-> TRUE]
  /\ sending = {}
  /\ into = [h \in Hosts |-> {}]
  /\ wire = [h \in Hosts |-> 0]
  /\ captured = [h \in Hosts |-> 0]
  /\ encoder = [h \in Hosts |-> 0]
  /\ decoder = [h \in Hosts |-> 0]
  /\ shown = [h \in Hosts |-> 0]
  /\ starts = [h \in Hosts |-> 0]

\* Processes end, whatever the reason: what they have open is closed, what their
\* codecs, sockets and windows held is gone.
Exit(ps) ==
  /\ pc' = [p \in Procs |-> IF p \in ps THEN "exited" ELSE pc[p]]
  /\ camera' = camera \ ps
  /\ sending' = sending \ ps
  /\ encoder' = [h \in Hosts |-> IF ps \cap ProcsOf(h) \cap sending # {} THEN 0 ELSE encoder[h]]
  /\ wire' = [h \in Hosts |-> IF ChildOf(h) \in ps THEN 0 ELSE wire[h]]
  /\ decoder' = [h \in Hosts |-> IF ChildOf(h) \in ps THEN 0 ELSE decoder[h]]
  /\ shown' = [h \in Hosts |-> IF ChildOf(h) \in ps THEN 0 ELSE shown[h]]

Goto(p, place) == pc' = [pc EXCEPT ![p] = place]

\* The user starts the program: main forks.
Start(h) ==
  /\ \A p \in ProcsOf(h) : ~Alive(p)
  /\ starts[h] < MaxStarts[h]
  /\ starts' = [starts EXCEPT ![h] = @ + 1]
  /\ pc' = [pc EXCEPT ![ChildOf(h)] = "listen", ![ParentOf(h)] = "sleep"]
  /\ end' = [end EXCEPT ![ChildOf(h)] = FALSE, ![ParentOf(h)] = FALSE]
  /\ into' = [into EXCEPT ![h] = {}]
  /\ UNCHANGED <<camera, works, sending, pictures>>

(***************************************************************************)
(* The receiving child                                                     *)
(***************************************************************************)
\* One turn of StreamClient::run: the packet goes into the decoder, and what
\* the decoder gives out is shown.
Receive(h) ==
  /\ pc[ChildOf(h)] = "receive"
  /\ wire[h] > 0
  /\ wire' = [wire EXCEPT ![h] = @ - 1]
  /\ \E kept \in 0 .. DecDelay :
       /\ kept <= decoder[h] + 1
       /\ decoder' = [decoder EXCEPT ![h] = kept]
       /\ shown' = [shown EXCEPT ![h] = @ + decoder[h] + 1 - kept]
  /\ UNCHANGED <<pc, end, camera, works, sending, into, captured, encoder, starts>>

MutEndOfStream(h) ==  \* mutant: the stream ends with the connection, read or not
  /\ pc[ChildOf(h)] = "receive"
  /\ into[h] \cap sending = {}
  /\ Goto(ChildOf(h), "sleep")
  /\ UNCHANGED <<end, camera, works, sending, into, pictures, starts>>

\* av_read_frame fails once the sender has closed and all is read.  The decoder
\* is not flushed, and the child falls through to the sender's part of main.
EndOfStream(h) ==
  /\ pc[ChildOf(h)] = "receive"
  /\ into[h] \cap sending = {}
  /\ wire[h] = 0
  /\ Goto(ChildOf(h), "sleep")
  /\ UNCHANGED <<end, camera, works, sending, into, pictures, starts>>

(***************************************************************************)
(* The sender: the parent, and a child that fell through                   *)
(***************************************************************************)
Wake(p) ==
  /\ pc[p] = "sleep"
  /\ Goto(p, "camera")
  /\ UNCHANGED <<end, camera, works, sending, into, pictures, starts>>

\* init_input: the device is busy while the other process has it.
OpenCamera(p) ==
  /\ pc[p] = "camera"
  /\ IF works[p[1]] /\ camera \cap ProcsOf(p[1]) = {}
       THEN /\ Goto(p, "connect")
            /\ camera' = camera \cup {p}
            /\ UNCHANGED <<sending, encoder, wire, decoder, shown>>
       ELSE Exit({p})
  /\ UNCHANGED <<end, works, into, captured, starts>>

MutConnect(p) ==  \* mutant: one attempt, whose failure is only logged
  LET k == PeerOf(p[1]) IN
  /\ pc[p] = "connect"
  /\ IF pc[ChildOf(k)] = "listen"
       THEN /\ pc' = [pc EXCEPT ![p] = "header", ![ChildOf(k)] = "receive"]
            /\ sending' = sending \cup {p}
            /\ into' = [into EXCEPT ![k] = {p}]
            /\ captured' = [captured EXCEPT ![p[1]] = 0]
            /\ UNCHANGED <<end, camera, works, wire, encoder, decoder, shown, starts>>
       ELSE /\ Goto(p, "header")
            /\ UNCHANGED <<end, camera, works, sending, into, pictures, starts>>

\* init_output tries until the peer's child listens; that child accepts one
\* connection and no other.  A refused attempt changes nothing.
Connect(p) ==
  LET k == PeerOf(p[1]) IN
  /\ pc[p] = "connect"
  /\ IF pc[ChildOf(k)] = "listen"
       THEN /\ pc' = [pc EXCEPT ![p] = "header", ![ChildOf(k)] = "receive"]
            /\ sending' = sending \cup {p}
            /\ into' = [into EXCEPT ![k] = {p}]
            /\ captured' = [captured EXCEPT ![p[1]] = 0]
            /\ UNCHANGED <<end, camera, works, wire, encoder, decoder, shown, starts>>
       ELSE UNCHANGED vars

\* The header is written, then the constructor ends with signal().
Header(p) ==
  /\ pc[p] = "header"
  /\ Goto(p, "stream")
  /\ UNCHANGED <<end, camera, works, sending, into, pictures, starts>>

MutTurn(p) ==  \* mutant: an EAGAIN leaves the picture in hand, for the next turn
  LET h == p[1]
      k == PeerOf(h) IN
  /\ pc[p] = "stream"
  /\ works[h] /\ ~end[p]
  /\ captured[h] < MaxFrames
  /\ captured' = [captured EXCEPT ![h] = @ + 1]
  /\ encoder' = [encoder EXCEPT ![h] = @ + 1]
  /\ UNCHANGED <<pc, end, camera, works, sending, into, wire, decoder, shown, starts>>

\* One turn of StreamServer::run: a picture is read, decoded and displayed; the
\* encoder takes it and either keeps one more (EAGAIN) or gives one out, which is
\* written.  The write waits while the buffers are full; its result is not looked
\* at, and what is written to a child that is gone is lost.
Turn(p) ==
  LET h == p[1]
      k == PeerOf(h) IN
  /\ pc[p] = "stream"
  /\ works[h] /\ ~end[p]
  /\ captured[h] < MaxFrames
  /\ captured' = [captured EXCEPT ![h] = @ + 1]
  /\ \/ /\ encoder[h] < EncDelay
        /\ encoder' = [encoder EXCEPT ![h] = @ + 1]
        /\ UNCHANGED wire
     \/ /\ Delivers(p) => wire[k] < WireCap
        /\ wire' = [wire EXCEPT ![k] = IF Delivers(p) THEN @ + 1 ELSE @]
        /\ UNCHANGED encoder
  /\ UNCHANGED <<pc, end, camera, works, sending, into, decoder, shown, starts>>

MutLoopEnd(p) ==  \* mutant: the camera is closed with the loop
  /\ pc[p] = "stream"
  /\ end[p] \/ ~works[p[1]]
  /\ Goto(p, "wait")
  /\ camera' = camera \ {p}
  /\ UNCHANGED <<end, works, sending, into, pictures, starts>>

\* The loop ends, the trailer is written, waitpid is called; neither the camera
\* nor the connection is closed.
LoopEnd(p) ==
  /\ pc[p] = "stream"
  /\ end[p] \/ ~works[p[1]]
  /\ Goto(p, "wait")
  /\ UNCHANGED <<end, camera, works, sending, into, pictures, starts>>

\* waitpid: the parent waits for the child, the child has none to wait for.
\* Then the destructor runs and the process is gone.
WaitDone(p) ==
  /\ pc[p] = "wait"
  /\ p[2] = "parent" => ~Alive(ChildOf(p[1]))
  /\ Exit({p})
  /\ UNCHANGED <<end, works, into, captured, starts>>

(***************************************************************************)
(* What may happen to a host                                               *)
(***************************************************************************)
\* A call into the media libraries fails: exit(EXIT_FAILURE).
Fail(p) ==
  /\ pc[p] \in {"listen", "receive", "camera", "header", "stream"}
  /\ Exit({p})
  /\ UNCHANGED <<end, works, into, captured, starts>>

\* The camera being read fails (a read error, a loose plug), or is back.
CameraFails(h) ==
  /\ works[h]
  /\ \E p \in ProcsOf(h) : pc[p] = "stream"
  /\ works' = [works EXCEPT ![h] = FALSE]
  /\ UNCHANGED <<pc, end, camera, sending, into, pictures, starts>>

CameraReturns(h) ==
  /\ ~works[h]
  /\ works' = [works EXCEPT ![h] = TRUE]
  /\ UNCHANGED <<pc, end, camera, sending, into, pictures, starts>>

\* Ctrl+C reaches the processes of the terminal's job, which lasts as long as
\* the parent.
Interrupt(h) ==
  /\ Alive(ParentOf(h))
  /\ end' = [p \in Procs |-> IF p \in ProcsOf(h) /\ Handles(p) THEN TRUE ELSE end[p]]
  /\ Exit({p \in ProcsOf(h) : Alive(p) /\ ~Handles(p)})
  /\ UNCHANGED <<works, into, captured, starts>>

Sender(p) == \/ Wake(p) \/ OpenCamera(p) \/ Connect(p) \/ Header(p)
             \/ Turn(p) \/ LoopEnd(p) \/ WaitDone(p)
Receiver(h) == Receive(h) \/ EndOfStream(h)
Trouble(h) == Interrupt(h) \/ CameraFails(h) \/ CameraReturns(h)

Next == \/ \E h \in Hosts : Start(h) \/ Receiver(h) \/ Trouble(h)
        \/ \E p \in Procs : Sender(p) \/ Fail(p)

\* Processes are scheduled and a working camera gives pictures; nobody is
\* obliged to start a host or to press Ctrl+C, and nothing need fail.
Fairness == /\ \A p \in Procs : WF_vars(Sender(p))
            /\ \A h \in Hosts : WF_vars(Receiver(h))

Spec == Init /\ [][Next]_vars /\ Fairness

-----------------------------------------------------------------------------
\* Every variable has its type.
TypeOK ==
  /\ pc \in [Procs -> Places]
  /\ end \in [Procs -> BOOLEAN]
  /\ camera \subseteq Procs /\ sending \subseteq Procs
  /\ works \in [Hosts -> BOOLEAN]
  /\ into \in [Hosts -> SUBSET Procs]
  /\ wire \in [Hosts -> 0 .. WireCap]
  /\ captured \in [Hosts -> 0 .. MaxFrames]
  /\ encoder \in [Hosts -> 0 .. EncDelay]
  /\ decoder \in [Hosts -> 0 .. DecDelay]
  /\ shown \in [Hosts -> 0 .. MaxFrames]
  /\ starts \in [Hosts -> Nat] /\ \A h \in Hosts : starts[h] <= MaxStarts[h]

\* The child that fell through main takes the camera, and can become a second
\* sender, only when its parent is gone or has not opened the camera yet (and
\* will then fail to): the parent keeps it until after waitpid.
ChildSendsOnlyAsOrphan ==
  \A h \in Hosts : ChildOf(h) \in camera =>
    pc[ParentOf(h)] \in {"sleep", "camera", "exited"}

\* When a child has come to the end of the peer's stream, it has shown all the
\* pictures the peer took but those the two codecs held, which nobody flushes.
OnlyHeldFramesAreLost ==
  \A h \in Hosts : pc[ChildOf(h)] = "sleep" =>
    captured[PeerOf(h)] - shown[h] \in 0 .. EncDelay + DecDelay

\* Ctrl+C that a sender's handler took ends all of the program on that host:
\* the sender leaves its loop, and the child it waits for has been ended by the
\* same Ctrl+C, having no handler of its own.
InterruptEndsHost ==
  \A h \in Hosts : (\E p \in ProcsOf(h) : end[p])
                     ~> \A p \in ProcsOf(h) : pc[p] = "exited"

\* A parent that waits for a child at work on a connection comes to its end once
\* the peer has closed: the child falls through, finds the camera busy and exits.
PeerEndEndsWait ==
  \A h \in Hosts :
    (pc[ParentOf(h)] = "wait" /\ pc[ChildOf(h)] = "receive" /\ into[h] \cap sending = {})
       ~> pc[ParentOf(h)] = "exited"

BothUp == \A p \in Procs : Alive(p)

\* A sender goes on writing to a child that is gone.
TalksToNobody == \E p \in sending : ~Delivers(p)

\* In whatever order the two hosts are started, both come to see each other,
\* unless a process ends, a sender leaves its loop (Ctrl+C, a camera that fails), or
\* a sender's connection leads to a child of an earlier start.
PicturesFlow ==
  BothUp ~> \/ \A h \in Hosts : shown[h] > 0
            \/ ~BothUp
            \/ \E p \in Procs : pc[p] = "wait"
            \/ TalksToNobody
=============================================================================
