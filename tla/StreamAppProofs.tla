--------------------------- MODULE StreamAppProofs ---------------------------
(***************************************************************************)
(* For any two hosts, codecs, buffers and numbers of starts and pictures:  *)
(* the types of StreamApp, that a child sends only as an orphan, and that  *)
(* nothing but what the codecs held is lost on the way.                    *)
(***************************************************************************)
EXTENDS StreamApp, TLAPS

WithCamera == {"connect", "header", "stream", "wait"}
Connected == {"header", "stream", "wait"}
Fresh == {"down", "exited", "listen"}

Sends(h) == ParentOf(h) \in sending \/ ChildOf(h) \in sending

\* Pictures that host h's peer took and that are nowhere any more.
Lost(h) == captured[PeerOf(h)] - encoder[PeerOf(h)] - wire[h] - decoder[h] - shown[h]

\* Camera and connection are open exactly between two places of a sender.
Devices ==
  /\ \A p \in Procs : (p \in camera) <=> (pc[p] \in WithCamera)
  /\ \A p \in Procs : (p \in sending) <=> (pc[p] \in Connected)
  /\ \A h \in Hosts : ~(ParentOf(h) \in camera /\ ChildOf(h) \in camera)

\* main forks once per start, and only the child receives.
Births ==
  \A h \in Hosts : /\ pc[ParentOf(h)] \notin Receiving
                   /\ (pc[ParentOf(h)] = "down") <=> (pc[ChildOf(h)] = "down")

\* A child that receives, or has just ended to, accounts for every picture its
\* sender took; who else sends from that host has no other child to send to.
Stream(h) ==
  /\ pc[ChildOf(h)] \in Fresh => wire[h] = 0 /\ decoder[h] = 0 /\ shown[h] = 0
  /\ ~Sends(h) => encoder[h] = 0
  /\ pc[ChildOf(h)] = "receive" =>
       \A p \in ProcsOf(PeerOf(h)) : p \in sending => p \in into[h]
  /\ pc[ChildOf(h)] = "sleep" => wire[h] = 0 /\ ~Sends(PeerOf(h))
  /\ pc[ChildOf(h)] \in {"receive", "sleep"} => Lost(h) \in 0 .. EncDelay
  /\ pc[ChildOf(h)] = "receive" /\ Sends(PeerOf(h)) => Lost(h) = 0

IInv == TypeOK /\ Devices /\ Births /\ \A h \in Hosts : Stream(h)

-----------------------------------------------------------------------------
\* Each host has one peer, whose peer it is.
LEMMA Peers == \A h \in Hosts : /\ PeerOf(h) \in Hosts /\ PeerOf(h) # h
                                /\ PeerOf(PeerOf(h)) = h
                                /\ \A k \in Hosts : k = h \/ k = PeerOf(h)
<1>1. PICK a, b \in Hosts : a # b /\ Hosts = {a, b}
  BY HostsAssumption
<1>2. \A h \in Hosts : PeerOf(h) \in Hosts /\ PeerOf(h) # h
  <2> SUFFICES ASSUME NEW h \in Hosts PROVE PeerOf(h) \in Hosts /\ PeerOf(h) # h
    OBVIOUS
  <2>1. \E k \in Hosts : k # h
    BY <1>1
  <2> QED BY <2>1 DEF PeerOf
<1> QED BY <1>1, <1>2

\* A process is its host's parent or its host's child.
LEMMA Names ==
  /\ \A h \in Hosts : /\ ParentOf(h) \in Procs /\ ChildOf(h) \in Procs
                      /\ ParentOf(h) # ChildOf(h)
                      /\ ParentOf(h)[1] = h /\ ChildOf(h)[1] = h
  /\ \A g, h \in Hosts : /\ ParentOf(g) # ChildOf(h)
                         /\ ParentOf(g) = ParentOf(h) => g = h
                         /\ ChildOf(g) = ChildOf(h) => g = h
  /\ \A p \in Procs : p[1] \in Hosts /\ (p = ParentOf(p[1]) \/ p = ChildOf(p[1]))
BY DEF Procs, Roles, ParentOf, ChildOf

-----------------------------------------------------------------------------
LEMMA InitIInv == Init => IInv
<1> SUFFICES ASSUME Init PROVE IInv
  OBVIOUS
<1>1. TypeOK
  BY BoundsAssumption DEF Init, TypeOK, Places, Ended, Receiving
<1>2. Devices /\ Births
  BY Names DEF Init, Devices, Births, WithCamera, Connected, Receiving
<1>3. \A h \in Hosts : Stream(h)
  BY Names, Peers DEF Init, Stream, Sends, Fresh
<1> QED BY <1>1, <1>2, <1>3 DEF IInv

\* Processes that end, whatever the reason, keep the invariant: a sender's
\* pictures are lost with its encoder, a child's with its window.
LEMMA ExitKeeps ==
  ASSUME IInv, NEW ps \in SUBSET Procs, \A p \in ps : pc[p] # "down",
         Exit(ps), UNCHANGED <<works, into, captured, starts>>,
         end' \in [Procs -> BOOLEAN]
  PROVE  IInv'
<1>1. TypeOK'
  BY Names, BoundsAssumption DEF IInv, TypeOK, Exit, Places, Ended
<1>2. Devices'
  BY Names DEF IInv, TypeOK, Devices, Exit, WithCamera, Connected
<1>3. Births'
  BY Names DEF IInv, TypeOK, Births, Exit, Receiving
<1>4. ASSUME NEW h \in Hosts PROVE Stream(h)'
  <2> DEFINE k == PeerOf(h)
  <2>1. /\ k \in Hosts /\ k # h /\ PeerOf(k) = h
        /\ ChildOf(h) \in Procs /\ ChildOf(k) \in Procs /\ ParentOf(k) \in Procs
    BY Peers, Names
  <2>2. CASE ChildOf(h) \in ps
    <3>1. /\ pc'[ChildOf(h)] = "exited"
          /\ wire'[h] = 0 /\ decoder'[h] = 0 /\ shown'[h] = 0
      BY <2>1, <2>2 DEF Exit
    <3>2. ~Sends(h)' => encoder'[h] = 0
      BY <2>1, Names DEF Exit, IInv, TypeOK, Stream, Sends, ProcsOf
    <3> QED BY <3>1, <3>2 DEF Stream
  <2>3. CASE ChildOf(h) \notin ps
    <3>1. /\ pc'[ChildOf(h)] = pc[ChildOf(h)]
          /\ wire'[h] = wire[h] /\ decoder'[h] = decoder[h] /\ shown'[h] = shown[h]
          /\ captured'[k] = captured[k] /\ into'[h] = into[h]
      BY <2>1, <2>3 DEF Exit, IInv, TypeOK
    <3>2. \A p \in Procs : p \in sending' => p \in sending
      BY DEF Exit
    <3>3. ~Sends(h)' => encoder'[h] = 0
      BY <2>1, Names DEF Exit, IInv, TypeOK, Stream, Sends, ProcsOf
    <3>4. /\ Sends(k)' => Sends(k) /\ encoder'[k] = encoder[k]
          /\ ~Sends(k)' => encoder'[k] = 0
      <4>1. ~(ParentOf(k) \in sending /\ ChildOf(k) \in sending)
        BY <2>1 DEF IInv, Devices, WithCamera, Connected
      <4>2. ~Sends(k) => encoder[k] = 0
        BY <2>1 DEF IInv, Stream
      <4> QED BY <2>1, <4>1, <4>2, Names DEF Exit, IInv, TypeOK, Sends, ProcsOf
    <3>5. Lost(h)' = Lost(h) + encoder[k] - encoder'[k]
      BY <1>1, <2>1, <3>1 DEF Lost, IInv, TypeOK
    <3>6. /\ encoder[k] \in 0 .. EncDelay /\ encoder'[k] \in 0 .. EncDelay
          /\ Lost(h) \in Int
      BY <1>1, <2>1, BoundsAssumption DEF Lost, IInv, TypeOK
    <3>7. pc[ChildOf(h)] \in {"receive", "sleep"} => Lost(h)' \in 0 .. EncDelay
      BY <2>1, <3>4, <3>5, <3>6, BoundsAssumption DEF IInv, Stream
    <3>8. pc[ChildOf(h)] = "receive" /\ Sends(k)' => Lost(h)' = 0
      BY <2>1, <3>4, <3>5, <3>6 DEF IInv, Stream
    <3>9. pc[ChildOf(h)] = "receive" =>
            \A p \in ProcsOf(k) : p \in sending' => p \in into'[h]
      BY <2>1, <3>1, <3>2, Names DEF IInv, Stream, ProcsOf
    <3> QED BY <2>1, <3>1, <3>3, <3>4, <3>7, <3>8, <3>9 DEF IInv, Stream
  <2> QED BY <2>2, <2>3
<1> QED BY <1>1, <1>2, <1>3, <1>4 DEF IInv

\* A process goes on to another place, and only that.
LEMMA GotoKeeps ==
  ASSUME IInv, NEW p \in Procs, NEW place, Goto(p, place),
         \/ pc[p] = "receive" /\ place = "sleep" /\ p[2] = "child"
              /\ into[p[1]] \cap sending = {} /\ wire[p[1]] = 0
         \/ pc[p] = "sleep" /\ place = "camera"
         \/ pc[p] = "header" /\ place = "stream"
         \/ pc[p] = "stream" /\ place = "wait",
         UNCHANGED <<end, camera, works, sending, into, pictures, starts>>
  PROVE  IInv'
<1>1. TypeOK'
  BY DEF IInv, TypeOK, Goto, Places, Ended, Receiving, pictures
<1>2. Devices'
  BY Names DEF IInv, TypeOK, Devices, Goto, WithCamera, Connected
<1>3. Births'
  BY Names DEF IInv, TypeOK, Births, Goto, Receiving
<1>4. ASSUME NEW h \in Hosts PROVE Stream(h)'
  <2>1. /\ PeerOf(h) \in Hosts /\ PeerOf(PeerOf(h)) = h
        /\ ChildOf(h) \in Procs
    BY Peers, Names
  <2>2. /\ Lost(h)' = Lost(h) /\ wire'[h] = wire[h]
        /\ decoder'[h] = decoder[h] /\ shown'[h] = shown[h]
        /\ \A g \in Hosts : Sends(g)' <=> Sends(g)
        /\ encoder' = encoder /\ into' = into /\ sending' = sending
    BY DEF Lost, Sends, pictures
  <2>3. CASE ChildOf(h) # p
    <3>1. pc'[ChildOf(h)] = pc[ChildOf(h)]
      BY <2>1, <2>3 DEF Goto, IInv, TypeOK
    <3> QED BY <2>1, <2>2, <3>1 DEF IInv, Stream
  <2>4. CASE ChildOf(h) = p /\ pc[p] = "receive"
    <3>1. pc'[p] = "sleep" /\ into[h] \cap sending = {} /\ wire[h] = 0
      BY <2>1, <2>4, Names DEF Goto, IInv, TypeOK
    <3>2. ~Sends(PeerOf(h))
      BY <2>1, <2>4, <3>1, Names DEF IInv, Stream, Sends, ProcsOf
    <3> QED BY <2>1, <2>2, <2>4, <3>1, <3>2 DEF IInv, Stream, Fresh
  <2>5. CASE ChildOf(h) = p /\ pc[p] # "receive"
    <3>1. pc'[p] \in {"camera", "stream", "wait"}
      BY <2>1, <2>5 DEF Goto, IInv, TypeOK
    <3> QED BY <2>1, <2>2, <2>5, <3>1 DEF IInv, Stream, Fresh
  <2> QED BY <2>3, <2>4, <2>5
<1> QED BY <1>1, <1>2, <1>3, <1>4 DEF IInv

LEMMA StartKeeps == ASSUME IInv, NEW h \in Hosts, Start(h) PROVE IInv'
<1>1. TypeOK'
  <2>1. /\ starts' \in [Hosts -> Nat] /\ \A g \in Hosts : starts'[g] <= MaxStarts[g]
    <3>1. /\ starts \in [Hosts -> Nat] /\ \A g \in Hosts : starts[g] <= MaxStarts[g]
          /\ starts[h] < MaxStarts[h] /\ starts' = [starts EXCEPT ![h] = @ + 1]
      BY DEF IInv, TypeOK, Start
    <3>2. starts' \in [Hosts -> Nat]
      BY <3>1
    <3>3. MaxStarts[h] \in Nat /\ starts[h] \in Nat
      BY <3>1, BoundsAssumption
    <3>4. ASSUME NEW g \in Hosts PROVE starts'[g] <= MaxStarts[g]
      BY <3>1, <3>3
    <3> QED BY <3>2, <3>4
  <2>2. /\ pc' \in [Procs -> Places] /\ end' \in [Procs -> BOOLEAN]
        /\ into' \in [Hosts -> SUBSET Procs]
    BY DEF IInv, TypeOK, Start, Places, Ended, Receiving
  <2> QED BY <2>1, <2>2 DEF IInv, TypeOK, Start, pictures
<1>2. /\ ParentOf(h) \in Procs /\ ChildOf(h) \in Procs
      /\ pc' = [pc EXCEPT ![ChildOf(h)] = "listen", ![ParentOf(h)] = "sleep"]
      /\ pc[ParentOf(h)] \in Ended /\ pc[ChildOf(h)] \in Ended
      /\ camera' = camera /\ sending' = sending
  BY Names DEF Start, Alive, ProcsOf
<1>3. Devices'
  BY <1>2, Names DEF IInv, TypeOK, Devices, WithCamera, Connected, Ended
<1>4. Births'
  BY <1>2, Names DEF IInv, TypeOK, Births, Receiving
<1>5. ASSUME NEW g \in Hosts PROVE Stream(g)'
  <2>1. /\ PeerOf(g) \in Hosts /\ ChildOf(g) \in Procs
    BY Peers, Names
  <2>2. /\ Lost(g)' = Lost(g) /\ wire'[g] = wire[g]
        /\ decoder'[g] = decoder[g] /\ shown'[g] = shown[g]
        /\ \A f \in Hosts : Sends(f)' <=> Sends(f)
        /\ encoder' = encoder
        /\ g # h => into'[g] = into[g]
    BY <1>2 DEF Lost, Sends, pictures, Start, IInv, TypeOK
  <2>3. CASE g # h
    <3>1. pc'[ChildOf(g)] = pc[ChildOf(g)]
      BY <1>2, <2>1, <2>3, Names DEF IInv, TypeOK
    <3>2. sending' = sending /\ Stream(g)
      BY <1>2 DEF IInv
    <3> QED BY <2>1, <2>2, <2>3, <3>1, <3>2 DEF Stream
  <2>4. CASE g = h
    <3>1. pc'[ChildOf(g)] = "listen"
      BY <1>2, <2>1, <2>4, Names DEF IInv, TypeOK
    <3>2. pc[ChildOf(g)] \in Fresh /\ Stream(g)
      BY <1>2, <2>4 DEF IInv, Fresh, Ended
    <3> QED BY <2>1, <2>2, <3>1, <3>2 DEF Stream, Fresh
  <2> QED BY <2>3, <2>4
<1> QED BY <1>1, <1>3, <1>4, <1>5 DEF IInv

LEMMA ReceiveKeeps == ASSUME IInv, NEW h \in Hosts, Receive(h) PROVE IInv'
<1>1. PICK kept \in 0 .. DecDelay :
        /\ kept <= decoder[h] + 1
        /\ decoder' = [decoder EXCEPT ![h] = kept]
        /\ shown' = [shown EXCEPT ![h] = @ + decoder[h] + 1 - kept]
  BY DEF Receive
<1>2. /\ pc[ChildOf(h)] = "receive" /\ wire[h] > 0
      /\ wire' = [wire EXCEPT ![h] = @ - 1]
      /\ UNCHANGED <<pc, end, camera, works, sending, into, captured, encoder, starts>>
  BY DEF Receive
<1>3. /\ PeerOf(h) \in Hosts /\ \A g \in Hosts : PeerOf(g) \in Hosts
  BY Peers
<1>4. /\ Lost(h)' = Lost(h)
      /\ wire'[h] \in 0 .. WireCap /\ decoder'[h] \in 0 .. DecDelay
      /\ shown'[h] \in Nat /\ shown'[h] + wire'[h] <= shown[h] + wire[h] + decoder[h]
  BY <1>1, <1>2, <1>3, BoundsAssumption DEF Lost, IInv, TypeOK
<1>5. shown'[h] \in 0 .. MaxFrames
  <2>1. Lost(h) >= 0
    BY <1>2, BoundsAssumption DEF IInv, Stream
  <2> QED BY <1>1, <1>2, <1>3, <1>4, <2>1, BoundsAssumption DEF Lost, IInv, TypeOK
<1>6. TypeOK'
  BY <1>1, <1>2, <1>4, <1>5, BoundsAssumption DEF IInv, TypeOK
<1>7. Devices' /\ Births'
  BY <1>2 DEF IInv, Devices, Births
<1>8. ASSUME NEW g \in Hosts PROVE Stream(g)'
  <2>1. \A f \in Hosts : Sends(f)' <=> Sends(f)
    BY <1>2 DEF Sends
  <2>2. CASE g = h
    BY <1>2, <1>3, <1>4, <2>1, <2>2 DEF IInv, Stream, Fresh
  <2>3. CASE g # h
    <3>1. wire'[g] = wire[g] /\ decoder'[g] = decoder[g] /\ shown'[g] = shown[g]
      BY <1>1, <1>2, <2>3 DEF IInv, TypeOK
    <3>2. Lost(g)' = Lost(g)
      BY <1>2, <3>1 DEF Lost
    <3> QED BY <1>2, <1>3, <2>1, <3>1, <3>2 DEF IInv, Stream
  <2> QED BY <2>2, <2>3
<1> QED BY <1>6, <1>7, <1>8 DEF IInv

LEMMA OpenCameraKeeps == ASSUME IInv, NEW p \in Procs, OpenCamera(p) PROVE IInv'
<1>1. CASE Exit({p})
  <2>1. pc[p] # "down" /\ {p} \in SUBSET Procs
        /\ UNCHANGED <<end, works, into, captured, starts>>
    BY DEF OpenCamera
  <2>2. end' \in [Procs -> BOOLEAN]
    BY <2>1 DEF IInv, TypeOK
  <2> QED BY <1>1, <2>1, <2>2, ExitKeeps
<1>2. CASE ~Exit({p})
  <2>1. /\ pc[p] = "camera" /\ Goto(p, "connect")
        /\ camera \cap ProcsOf(p[1]) = {} /\ camera' = camera \cup {p}
        /\ UNCHANGED <<sending, encoder, wire, decoder, shown, end, works, into, captured, starts>>
    BY <1>2 DEF OpenCamera
  <2>2. TypeOK'
    BY <2>1 DEF IInv, TypeOK, Goto, Places, Ended, Receiving
  <2>3. Devices'
    BY <2>1, Names DEF IInv, TypeOK, Devices, Goto, WithCamera, Connected, ProcsOf
  <2>4. Births'
    BY <2>1, Names DEF IInv, TypeOK, Births, Goto, Receiving
  <2>5. ASSUME NEW h \in Hosts PROVE Stream(h)'
    <3>1. PeerOf(h) \in Hosts /\ ChildOf(h) \in Procs
      BY Peers, Names
    <3>2. /\ pc'[ChildOf(h)] = pc[ChildOf(h)] \/ pc'[ChildOf(h)] = "connect"
          /\ Lost(h)' = Lost(h) /\ \A g \in Hosts : Sends(g)' <=> Sends(g)
      BY <2>1, <3>1 DEF Goto, IInv, TypeOK, Lost, Sends
    <3> QED BY <2>1, <3>1, <3>2 DEF IInv, Stream, Fresh
  <2> QED BY <2>2, <2>3, <2>4, <2>5 DEF IInv
<1> QED BY <1>1, <1>2

LEMMA ConnectKeeps == ASSUME IInv, NEW p \in Procs, Connect(p) PROVE IInv'
<1> DEFINE o == p[1]
           k == PeerOf(p[1])
<1>1. CASE UNCHANGED vars
  BY <1>1 DEF vars, pictures, IInv, TypeOK, Devices, Births, Stream, Lost, Sends
<1>2. CASE ~UNCHANGED vars
  <2>1. /\ pc[p] = "connect" /\ pc[ChildOf(k)] = "listen"
        /\ pc' = [pc EXCEPT ![p] = "header", ![ChildOf(k)] = "receive"]
        /\ sending' = sending \cup {p}
        /\ into' = [into EXCEPT ![k] = {p}]
        /\ captured' = [captured EXCEPT ![o] = 0]
        /\ UNCHANGED <<end, camera, works, wire, encoder, decoder, shown, starts>>
    BY <1>2 DEF Connect
  <2>2. /\ o \in Hosts /\ k \in Hosts /\ k # o /\ PeerOf(k) = o
        /\ ChildOf(k) \in Procs /\ ChildOf(k) # p /\ p \in ProcsOf(o)
        /\ \A h \in Hosts : h = o \/ h = k
    BY Peers, Names DEF ProcsOf
  <2>3. TypeOK'
    BY <2>1, <2>2, BoundsAssumption DEF IInv, TypeOK, Places, Ended, Receiving
  <2>4. Devices'
    BY <2>1, <2>2, Names DEF IInv, TypeOK, Devices, WithCamera, Connected
  <2>5. Births'
    BY <2>1, <2>2, Names DEF IInv, TypeOK, Births, Receiving
  <2>6. ~Sends(o) /\ p \notin sending
    BY <2>1, <2>2, Names DEF IInv, Devices, WithCamera, Connected, Sends
  <2>7. /\ \A q \in Procs : q \in sending' <=> q \in sending \/ q = p
        /\ Sends(k)' <=> Sends(k)
        /\ Sends(o)'
    BY <2>1, <2>2, Names DEF Sends
  <2>8. Stream(o)'
    <3>1. /\ captured'[k] = captured[k] /\ into'[o] = into[o]
          /\ pc'[ChildOf(o)] = IF ChildOf(o) = p THEN "header" ELSE pc[ChildOf(o)]
      BY <2>1, <2>2, Names DEF IInv, TypeOK
    <3>2. Lost(o)' = Lost(o)
      BY <2>1, <3>1 DEF Lost
    <3>3. \A q \in ProcsOf(k) : q \in sending' <=> q \in sending
      BY <2>2, <2>7, Names DEF ProcsOf
    <3>4. Stream(o)
      BY <2>2 DEF IInv
    <3> QED BY <2>1, <2>2, <2>7, <3>1, <3>2, <3>3, <3>4 DEF Stream, Fresh
  <2>9. Stream(k)'
    <3>1. /\ captured'[o] = 0 /\ into'[k] = {p} /\ pc'[ChildOf(k)] = "receive"
      BY <2>1, <2>2 DEF IInv, TypeOK
    <3>2. /\ encoder[o] = 0 /\ wire[k] = 0 /\ decoder[k] = 0 /\ shown[k] = 0
          /\ ~Sends(k) => encoder[k] = 0
      BY <2>1, <2>2, <2>6 DEF IInv, Stream, Fresh
    <3>3. Lost(k)' = 0
      BY <2>1, <2>2, <3>1, <3>2 DEF Lost
    <3>4. \A q \in ProcsOf(o) : q \in sending' => q \in into'[k]
      BY <2>2, <2>6, <2>7, <3>1, Names DEF ProcsOf, Sends
    <3> QED BY <2>1, <2>2, <2>7, <3>1, <3>2, <3>3, <3>4, BoundsAssumption DEF Stream, Fresh
  <2> QED BY <2>2, <2>3, <2>4, <2>5, <2>8, <2>9 DEF IInv
<1> QED BY <1>1, <1>2

\* A picture taken goes into the encoder, or one goes out onto the wire of the
\* child that reads it; only a sender whose child is gone loses any.
LEMMA TurnKeeps == ASSUME IInv, NEW p \in Procs, Turn(p) PROVE IInv'
<1> DEFINE o == p[1]
           k == PeerOf(p[1])
<1>1. /\ pc[p] = "stream" /\ captured[o] < MaxFrames
      /\ captured' = [captured EXCEPT ![o] = @ + 1]
      /\ UNCHANGED <<pc, end, camera, works, sending, into, decoder, shown, starts>>
      /\ \/ /\ encoder[o] < EncDelay
            /\ encoder' = [encoder EXCEPT ![o] = @ + 1]
            /\ wire' = wire
         \/ /\ Delivers(p) => wire[k] < WireCap
            /\ wire' = [wire EXCEPT ![k] = IF Delivers(p) THEN @ + 1 ELSE @]
            /\ encoder' = encoder
  BY DEF Turn
<1>2. /\ o \in Hosts /\ k \in Hosts /\ k # o /\ PeerOf(k) = o /\ p \in ProcsOf(o)
      /\ \A h \in Hosts : h = o \/ h = k
  BY Peers, Names DEF ProcsOf
<1>3. Sends(o) /\ p \in sending
  BY <1>1, <1>2, Names DEF IInv, Devices, Connected, Sends
<1>4. TypeOK'
  <2>1. captured' \in [Hosts -> 0 .. MaxFrames]
    BY <1>1, <1>2, BoundsAssumption DEF IInv, TypeOK
  <2>2. encoder' \in [Hosts -> 0 .. EncDelay]
    BY <1>1, <1>2, BoundsAssumption DEF IInv, TypeOK
  <2>3. wire' \in [Hosts -> 0 .. WireCap]
    BY <1>1, <1>2, BoundsAssumption DEF IInv, TypeOK
  <2> QED BY <1>1, <2>1, <2>2, <2>3 DEF IInv, TypeOK
<1>5. Devices' /\ Births'
  BY <1>1 DEF IInv, Devices, Births
<1>6. Stream(o)'
  <2>1. Lost(o)' = Lost(o) /\ wire'[o] = wire[o]
    BY <1>1, <1>2 DEF IInv, TypeOK, Lost
  <2>2. \A h \in Hosts : Sends(h)' <=> Sends(h)
    BY <1>1 DEF Sends
  <2>3. Stream(o)
    BY <1>2 DEF IInv
  <2> QED BY <1>1, <1>2, <1>3, <2>1, <2>2, <2>3 DEF Stream
<1>7. Stream(k)'
  <2>1. pc[ChildOf(k)] = "receive" => Delivers(p)
    BY <1>2, <1>3 DEF IInv, Stream, Delivers
  <2>2. ~Delivers(p) => wire'[k] = wire[k]
    BY <1>1, <1>2 DEF IInv, TypeOK
  <2>3. pc[ChildOf(k)] # "sleep"
    BY <1>2, <1>3 DEF IInv, Stream
  <2>4. Delivers(p) => pc[ChildOf(k)] = "receive" /\ Lost(k)' = Lost(k)
    BY <1>1, <1>2 DEF IInv, TypeOK, Lost, Delivers
  <2>5. encoder'[k] = encoder[k]
    BY <1>1, <1>2 DEF IInv, TypeOK
  <2>6. \A h \in Hosts : Sends(h)' <=> Sends(h)
    BY <1>1 DEF Sends
  <2>7. Stream(k)
    BY <1>2 DEF IInv
  <2> QED BY <1>1, <1>2, <2>1, <2>2, <2>3, <2>4, <2>5, <2>6, <2>7 DEF Stream, Fresh
<1> QED BY <1>2, <1>4, <1>5, <1>6, <1>7 DEF IInv

LEMMA CameraKeeps ==
  ASSUME IInv, NEW h \in Hosts, CameraFails(h) \/ CameraReturns(h) PROVE IInv'
<1>1. /\ works' \in [Hosts -> BOOLEAN]
      /\ UNCHANGED <<pc, end, camera, sending, into, wire, captured, encoder, decoder, shown, starts>>
  BY DEF CameraFails, CameraReturns, pictures, IInv, TypeOK
<1> QED BY <1>1 DEF IInv, TypeOK, Devices, Births, Stream, Lost, Sends

LEMMA InterruptKeeps == ASSUME IInv, NEW h \in Hosts, Interrupt(h) PROVE IInv'
<1> DEFINE ps == {p \in ProcsOf(h) : Alive(p) /\ ~Handles(p)}
<1>1. ps \in SUBSET Procs /\ \A p \in ps : pc[p] # "down"
  BY Names DEF ProcsOf, Alive, Ended
<1>2. Exit(ps) /\ UNCHANGED <<works, into, captured, starts>>
  BY DEF Interrupt
<1>3. end' \in [Procs -> BOOLEAN]
  BY DEF Interrupt, IInv, TypeOK
<1> QED BY <1>1, <1>2, <1>3, ExitKeeps

LEMMA EndsAlone ==
  ASSUME IInv, NEW p \in Procs, WaitDone(p) \/ Fail(p) PROVE IInv'
<1>1. {p} \in SUBSET Procs /\ pc[p] # "down" /\ Exit({p})
      /\ UNCHANGED <<works, into, captured, starts>> /\ end' = end
  BY DEF WaitDone, Fail
<1>2. end' \in [Procs -> BOOLEAN]
  BY <1>1 DEF IInv, TypeOK
<1> QED BY <1>1, <1>2, ExitKeeps

LEMMA StepIInv == IInv /\ [Next]_vars => IInv'
<1> SUFFICES ASSUME IInv, [Next]_vars PROVE IInv'
  OBVIOUS
<1>1. ASSUME NEW h \in Hosts, Start(h) PROVE IInv'
  BY <1>1, StartKeeps
<1>2. ASSUME NEW h \in Hosts, Receive(h) PROVE IInv'
  BY <1>2, ReceiveKeeps
<1>3. ASSUME NEW h \in Hosts, EndOfStream(h) PROVE IInv'
  <2>1. /\ ChildOf(h) \in Procs /\ ChildOf(h)[1] = h /\ ChildOf(h)[2] = "child"
    BY Names DEF ChildOf
  <2>2. /\ pc[ChildOf(h)] = "receive" /\ Goto(ChildOf(h), "sleep")
        /\ into[h] \cap sending = {} /\ wire[h] = 0
        /\ UNCHANGED <<end, camera, works, sending, into, pictures, starts>>
    BY <1>3 DEF EndOfStream
  <2> QED BY <2>1, <2>2, GotoKeeps
<1>4. ASSUME NEW h \in Hosts, Trouble(h) PROVE IInv'
  BY <1>4, InterruptKeeps, CameraKeeps DEF Trouble
<1>5. ASSUME NEW p \in Procs, Wake(p) \/ Header(p) \/ LoopEnd(p) PROVE IInv'
  <2>1. /\ UNCHANGED <<end, camera, works, sending, into, pictures, starts>>
        /\ \/ pc[p] = "sleep" /\ Goto(p, "camera")
           \/ pc[p] = "header" /\ Goto(p, "stream")
           \/ pc[p] = "stream" /\ Goto(p, "wait")
    BY <1>5 DEF Wake, Header, LoopEnd
  <2> QED BY <2>1, GotoKeeps
<1>6. ASSUME NEW p \in Procs, OpenCamera(p) \/ Connect(p) \/ Turn(p) PROVE IInv'
  BY <1>6, OpenCameraKeeps, ConnectKeeps, TurnKeeps
<1>7. ASSUME NEW p \in Procs, WaitDone(p) \/ Fail(p) PROVE IInv'
  BY <1>7, EndsAlone
<1>8. CASE UNCHANGED vars
  BY <1>8 DEF vars, pictures, IInv, TypeOK, Devices, Births, Stream, Lost, Sends
<1> QED BY <1>1, <1>2, <1>3, <1>4, <1>5, <1>6, <1>7, <1>8 DEF Next, Sender, Receiver

LEMMA Invariance == Spec => []IInv
<1>1. Init => IInv
  BY InitIInv
<1>2. IInv /\ [Next]_vars => IInv'
  BY StepIInv
<1> QED BY <1>1, <1>2, PTL DEF Spec

\* Every variable of the call has its type (StreamApp: the processes, the
\* cameras and connections, and the pictures on their way).
THEOREM TypeCorrect == Spec => []TypeOK
<1>1. IInv => TypeOK
  BY DEF IInv
<1> QED BY <1>1, Invariance, PTL

\* The child that goes on through main after StreamClient::run has the camera
\* only while its parent has not opened it, or is gone.
THEOREM Orphans == Spec => []ChildSendsOnlyAsOrphan
<1>1. IInv => ChildSendsOnlyAsOrphan
  <2> SUFFICES ASSUME IInv, NEW h \in Hosts, ChildOf(h) \in camera
               PROVE  pc[ParentOf(h)] \in {"sleep", "camera", "exited"}
    BY DEF ChildSendsOnlyAsOrphan
  <2>1. ParentOf(h) \in Procs /\ ChildOf(h) \in Procs
    BY Names
  <2>2. pc[ParentOf(h)] \notin WithCamera /\ pc[ParentOf(h)] \in Places
    BY <2>1 DEF IInv, TypeOK, Devices
  <2>3. pc[ParentOf(h)] \notin Receiving /\ pc[ParentOf(h)] # "down"
    BY <2>1 DEF IInv, Devices, Births, WithCamera
  <2> QED BY <2>2, <2>3 DEF Places, Ended, Receiving, WithCamera
<1> QED BY <1>1, Invariance, PTL

\* A child at the end of its peer's stream has shown every picture the peer took
\* but those the two codecs held, whatever ended the stream.
THEOREM OnlyHeldAreLost == Spec => []OnlyHeldFramesAreLost
<1>1. IInv => OnlyHeldFramesAreLost
  <2> SUFFICES ASSUME IInv, NEW h \in Hosts, pc[ChildOf(h)] = "sleep"
               PROVE  captured[PeerOf(h)] - shown[h] \in 0 .. EncDelay + DecDelay
    BY DEF OnlyHeldFramesAreLost
  <2>1. PeerOf(h) \in Hosts
    BY Peers
  <2>2. Lost(h) \in 0 .. EncDelay /\ wire[h] = 0 /\ encoder[PeerOf(h)] = 0
    BY <2>1 DEF IInv, Stream
  <2>3. /\ captured[PeerOf(h)] \in Nat /\ decoder[h] \in 0 .. DecDelay /\ shown[h] \in Nat
    BY <2>1, BoundsAssumption DEF IInv, TypeOK
  <2> QED BY <2>2, <2>3, BoundsAssumption DEF Lost
<1> QED BY <1>1, Invariance, PTL
=============================================================================
