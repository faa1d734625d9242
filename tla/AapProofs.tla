----------------------------- MODULE AapProofs ------------------------------
(***************************************************************************)
(* Proofs about Aap: with the head unit that is there first, the handshake *)
(* goes through its phases in order, for any number of frames on the wire  *)
(* and whatever else the head unit sends between them.                     *)
(***************************************************************************)
EXTENDS Aap, TLAPS

(* The fold of DoHandshake. *)
F == INSTANCE FoldTheorems WITH Op <- ServerStep

-----------------------------------------------------------------------------
(* The inductive invariant: where the message is that the head unit waits
   for.  Everything else on the wire is noise. *)

Quiet == \A i \in 1..Len(toDevice) : toDevice[i].code = "other"
Carries(frame) ==
    \E i \in 1..Len(toDevice) :
        /\ toDevice[i] = frame
        /\ \A j \in 1..Len(toDevice) : j # i => toDevice[j].code = "other"

VersionFrame == Frame(FullPacket, "VersionRequest", <<>>)
AuthFrame == Frame(FullPacket, "AuthComplete", <<>>)
TlsFrame(flight) == Frame(FullPacket, "SSLHandshake", <<flight>>)

(* Nothing is on its way between the two ends. *)
Idle == Quiet /\ toHost = <<>> /\ deviceToHost = <<>>

(* The head unit's message is on the wire, or its answer is. *)
Versioning ==
    /\ deviceToHost = <<>>
    /\ \/ Carries(VersionFrame) /\ toHost = <<>>
       \/ Quiet /\ toHost = <<Packet("VersionResponse", <<>>)>>

(* A flight is on the wire; or its answer is in the BIO, and the io thread is
   about to send it; or that is on the wire. *)
Exchange(flight, before, answer, after) ==
    \/ /\ tls = before /\ deviceToHost = <<>>
       /\ Carries(TlsFrame(flight)) /\ toHost = <<>>
    \/ /\ tls = after /\ deviceToHost = <<answer>>
       /\ Quiet /\ toHost = <<>> /\ pc = "pump"
    \/ /\ tls = after /\ deviceToHost = <<>>
       /\ Quiet /\ toHost = <<Packet("SSLHandshake", <<answer>>)>>

Authenticating ==
    /\ deviceToHost = <<>> /\ toHost = <<>>
    /\ Quiet \/ Carries(AuthFrame)

(* Between two exchanges. *)
Resting ==
    /\ Idle
    /\ \/ hu \in {"version", "hello"} /\ tls = "start"
       \/ hu = "finish" /\ tls = "helloDone"
       \/ hu = "auth" /\ tls = "done"

Phase ==
    \/ Resting
    \/ hu = "waitVersion" /\ tls = "start" /\ Versioning
    \/ hu = "waitServer" /\ Exchange("clientHello", "start", "serverHello", "helloDone")
    \/ hu = "waitFinished" /\ Exchange("clientFinish", "helloDone", "serverFinish", "done")
    \/ hu = "online" /\ tls = "done" /\ Authenticating

FirstInPhase ==
    connections = 1 =>
        /\ Phase
        /\ hostToDevice = <<>>
        /\ state = "connected" => hu = "online"

-----------------------------------------------------------------------------
(* Types *)

TlsStates == {"start", "helloDone", "done", "failed"}
Servers == [tls : TlsStates, sent : Seq(Flights), unread : Seq(Flights)]
Before == [tls |-> tls, sent |-> <<>>, unread |-> <<>>]
FoldedServer(input) == F!Fold(Before, input)

(* DoHandshake in terms of the fold whose trace is known. *)
LEMMA DoHandshakeFolds ==
    ASSUME NEW input, DoHandshake(input)
    PROVE  /\ tls' = FoldedServer(input).tls
           /\ hostToDevice' = FoldedServer(input).unread
           /\ deviceToHost' = deviceToHost \o FoldedServer(input).sent
<1>1. FoldLeft(ServerStep, Before, input) = FoldedServer(input)
  BY DEF FoldedServer, F!Fold, F!FoldLeft, FoldLeft, MapThenFoldSet, F!MapThenFoldSet, Max, F!Max
<1>2. QED
  BY <1>1 DEF DoHandshake, Before

(* One flight leaves a TLS server in one of its states. *)
LEMMA ServerStepType ==
    ASSUME NEW server \in Servers, NEW flight \in Flights
    PROVE  ServerStep(server, flight) \in Servers
<1> /\ server.tls \in TlsStates
    /\ server.sent \in Seq(Flights) /\ server.unread \in Seq(Flights)
    /\ server = [tls |-> server.tls, sent |-> server.sent, unread |-> server.unread]
  BY DEF Servers
<1>1. /\ Append(server.unread, flight) \in Seq(Flights)
      /\ \A f \in Flights : Append(server.sent, f) \in Seq(Flights)
  OBVIOUS
<1>2. CASE server.tls \in {"done", "failed"}
  BY <1>1, <1>2 DEF ServerStep, Servers
<1>3. CASE server.tls = "start" /\ flight = "clientHello"
  BY <1>1, <1>3 DEF ServerStep, Servers, TlsStates, Flights
<1>4. CASE server.tls = "helloDone" /\ flight = "clientFinish"
  BY <1>1, <1>4 DEF ServerStep, Servers, TlsStates, Flights
<1>5. CASE /\ server.tls \notin {"done", "failed"}
           /\ ~(server.tls = "start" /\ flight = "clientHello")
           /\ ~(server.tls = "helloDone" /\ flight = "clientFinish")
  BY <1>1, <1>5 DEF ServerStep, Servers, TlsStates, Flights
<1>6. QED
  BY <1>2, <1>3, <1>4, <1>5

(* ... and so do any number of them. *)
LEMMA FoldedServerType ==
    ASSUME TypeOK, NEW input \in Seq(Flights)
    PROVE  FoldedServer(input) \in Servers
<1>1. Before \in Servers
  BY DEF Before, Servers, TlsStates, TypeOK
<1>2. Len(input) \in Nat /\ DOMAIN input = 1..Len(input)
  OBVIOUS
<1> DEFINE n == Len(input)
<1> HIDE DEF n
<1>3. PICK g : F!Trace(g, Before, input, n) /\ FoldedServer(input) = g[n]
  BY <1>2, F!FoldLeftTrace DEF FoldedServer, n
<1>4. n \in Nat /\ \A k \in 1..n : input[k] \in Flights
  BY <1>2 DEF n
<1> DEFINE S == {k \in 0..n : g[k] \in Servers}
<1>5. 0 \in S
  BY <1>1, <1>3, <1>4 DEF F!Trace
<1>6. ASSUME NEW k \in 0..(n - 1), k \in S
      PROVE  k + 1 \in S
  <2>1. k + 1 \in 1..n /\ (k + 1) - 1 = k
    BY <1>4
  <2>2. g[k + 1] = ServerStep(g[k], input[k + 1])
    BY <1>3, <2>1 DEF F!Trace
  <2>3. QED
    BY <1>4, <1>6, <2>1, <2>2, ServerStepType
<1> HIDE DEF S
<1>7. \A k \in 0..n : k \in S
  BY <1>4, <1>5, <1>6, F!IntervalInduction
<1>8. QED
  BY <1>3, <1>4, <1>7 DEF S

HuStates == {"version", "waitVersion", "hello", "waitServer", "finish", "waitFinished",
             "auth", "online", "refused"}
Packets == [code : {"VersionResponse", "SSLHandshake"}, body : Seq(Flights)]
Frames == [flags : SUBSET Flags, code : Codes, body : Seq(Flights)]

(* What DoHandshake leaves in the SSL object and in the BIOs has its type. *)
LEMMA DoHandshakeType ==
    ASSUME TypeOK, NEW input \in Seq(Flights), DoHandshake(input)
    PROVE  /\ tls' \in TlsStates
           /\ hostToDevice' \in Seq(Flights) /\ deviceToHost' \in Seq(Flights)
<1>1. FoldedServer(input) \in Servers
  BY FoldedServerType
<1>2. /\ FoldedServer(input).tls \in TlsStates
      /\ FoldedServer(input).sent \in Seq(Flights)
      /\ FoldedServer(input).unread \in Seq(Flights)
  BY <1>1 DEF Servers
<1>3. deviceToHost \o FoldedServer(input).sent \in Seq(Flights)
  BY <1>2 DEF TypeOK
<1>4. QED
  BY <1>2, <1>3, DoHandshakeFolds

(* A frame that the head unit sends is a frame. *)
LEMMA SendsType ==
    ASSUME TypeOK, NEW frame \in Frames, Sends(<<frame>>)
    PROVE  /\ toDevice' \in Seq(Frames) /\ Len(toDevice') <= MaxWire
           /\ UNCHANGED <<deviceVars, toHost, connections>>
BY DEF Sends, TypeOK, Frames

(* The frames the head unit sends are frames as the wire carries them. *)
LEMMA FramesAre ==
    /\ VersionFrame \in Frames /\ AuthFrame \in Frames
    /\ \A flight \in Flights : TlsFrame(flight) \in Frames
    /\ \A flags \in SUBSET Flags : Frame(flags, "other", <<"part">>) \in Frames
<1>1. FullPacket \in SUBSET Flags
  BY DEF FullPacket, Flags
<1>2. "part" \in Flights
  BY DEF Flights
<1>3. QED
  <2>1. /\ <<>> \in Seq(Flights)
        /\ \A flight \in Flights : <<flight>> \in Seq(Flights)
    OBVIOUS
  <2>2. \A flags \in SUBSET Flags, code \in Codes, body \in Seq(Flights) :
            Frame(flags, code, body) \in Frames
    BY DEF Frame, Frames
  <2>3. {"VersionRequest", "AuthComplete", "SSLHandshake", "other"} \subseteq Codes
    BY DEF Codes
  <2>4. QED
    BY <1>1, <1>2, <2>1, <2>2, <2>3 DEF VersionFrame, AuthFrame, TlsFrame

(* TypeOK in terms of the named sets. *)
LEMMA TypeParts ==
    TypeOK <=> /\ state \in {"handshake", "connected"}
               /\ tls \in TlsStates
               /\ hostToDevice \in Seq(Flights) /\ deviceToHost \in Seq(Flights)
               /\ pc \in {"select", "pump"}
               /\ toDevice \in Seq(Frames) /\ Len(toDevice) <= MaxWire
               /\ toHost \in Seq(Packets)
               /\ hu \in HuStates
               /\ noise \in 0..MaxNoise /\ connections \in 1..Connections
BY DEF TypeOK, TlsStates, Frames, Packets, HuStates

(* Every step leaves every variable in its domain. *)
LEMMA TypeStep ==
    ASSUME TypeOK, [Next]_vars
    PROVE  TypeOK'
<1> USE ConstantsAssumption
<1> /\ state \in {"handshake", "connected"}
    /\ tls \in TlsStates
    /\ hostToDevice \in Seq(Flights) /\ deviceToHost \in Seq(Flights)
    /\ pc \in {"select", "pump"}
    /\ toDevice \in Seq(Frames) /\ Len(toDevice) <= MaxWire
    /\ toHost \in Seq(Packets)
    /\ hu \in HuStates
    /\ noise \in 0..MaxNoise /\ connections \in 1..Connections
  BY TypeParts
<1> DEFINE Goal == /\ state' \in {"handshake", "connected"}
                   /\ tls' \in TlsStates
                   /\ hostToDevice' \in Seq(Flights) /\ deviceToHost' \in Seq(Flights)
                   /\ pc' \in {"select", "pump"}
                   /\ toDevice' \in Seq(Frames) /\ Len(toDevice') <= MaxWire
                   /\ toHost' \in Seq(Packets)
                   /\ hu' \in HuStates
                   /\ noise' \in 0..MaxNoise /\ connections' \in 1..Connections
<1> SUFFICES Goal
  BY DEF TypeOK, TlsStates, Frames, Packets, HuStates
<1>1. CASE \E frame \in {Head(toDevice)} : toDevice # <<>> /\ HandleFrame(frame)
  <2> DEFINE frame == Head(toDevice)
  <2>1. toDevice # <<>> /\ HandleFrame(frame) /\ toDevice \in Seq(Frames)
    BY <1>1
  <2>2. frame \in Frames /\ Tail(toDevice) \in Seq(Frames) /\ Len(Tail(toDevice)) <= MaxWire
    BY <2>1
  <2>3. frame.body \in Seq(Flights)
    BY <2>2 DEF Frames
  <2> HIDE DEF frame
  <2>4. ASSUME Reads(frame)
        PROVE  /\ toDevice' \in Seq(Frames) /\ Len(toDevice') <= MaxWire
               /\ pc' \in {"select", "pump"}
               /\ UNCHANGED <<hu, noise, connections>>
    BY <2>2, <2>4 DEF Reads
  <2>5. CASE HandleUnsupported(frame)
    BY <2>4, <2>5 DEF HandleUnsupported
  <2>6. CASE HandleVersionRequest(frame)
    <3>1. Packet("VersionResponse", <<>>) \in Packets
      BY DEF Packet, Packets
    <3>2. QED
      BY <2>4, <2>6, <3>1 DEF HandleVersionRequest, ReadsPacket
  <2>7. CASE HandleSslHandshake(frame)
    <3>1. IncomingCiphertext(frame.body) /\ Reads(frame) /\ UNCHANGED <<state, toHost>>
      BY <2>7 DEF HandleSslHandshake, ReadsPacket
    <3>2. /\ tls' \in TlsStates
          /\ hostToDevice' \in Seq(Flights) /\ deviceToHost' \in Seq(Flights)
      <4>1. hostToDevice \o frame.body \in Seq(Flights)
        BY <2>3
      <4>2. CASE state = "handshake"
        BY <3>1, <2>3, <4>1, <4>2, DoHandshakeType DEF IncomingCiphertext
      <4>3. CASE state # "handshake"
        BY <3>1, <4>1, <4>3 DEF IncomingCiphertext, TlsStates
      <4>4. QED
        BY <4>2, <4>3
    <3>3. QED
      BY <2>4, <3>1, <3>2
  <2>8. CASE HandleAuthComplete(frame)
    BY <2>4, <2>8 DEF HandleAuthComplete, ReadsPacket
  <2>9. CASE HandleOther(frame)
    BY <2>4, <2>9 DEF HandleOther, ReadsPacket
  <2>10. QED
    BY <2>1, <2>5, <2>6, <2>7, <2>8, <2>9 DEF HandleFrame
<1>2. CASE MaybeSendOutgoingCiphertext
  <2>1. Packet("SSLHandshake", deviceToHost) \in Packets
    BY DEF Packet, Packets
  <2>2. Append(toHost, Packet("SSLHandshake", deviceToHost)) \in Seq(Packets)
    BY <2>1
  <2>3. <<>> \in Seq(Flights)
    OBVIOUS
  <2>4. QED
    BY <1>2, <2>2, <2>3 DEF MaybeSendOutgoingCiphertext
<1>3. CASE HostSend
  <2>1. \E frame \in Frames : Sends(<<frame>>)
    BY <1>3, FramesAre DEF HostSend, TlsPacket, VersionFrame, AuthFrame, TlsFrame, Flights
  <2>2. QED
    BY <1>3, <2>1, SendsType DEF HostSend, HostMoves, deviceVars, HuStates
<1>4. CASE HostNoise
  <2>1. \E frame \in Frames : Sends(<<frame>>)
    BY <1>4, FramesAre DEF HostNoise, FullPacket, Flags
  <2>2. QED
    BY <1>4, <2>1, SendsType DEF HostNoise, deviceVars
<1>5. CASE HostReceive
  <2>1. hu' \in {"hello", "finish", "auth", "refused"}
    <3>1. CASE Head(toHost) = Expected /\ hu \notin {"waitVersion", "waitServer", "waitFinished"}
      <4>1. Head(toHost).code = "other"
        BY <3>1 DEF Expected, Packet
      <4>2. Head(toHost) \in Packets
        BY <1>5 DEF HostReceive
      <4>3. QED
        BY <4>1, <4>2 DEF Packets
    <3>2. QED
      BY <1>5, <3>1 DEF HostReceive, After
  <2>2. Tail(toHost) \in Seq(Packets)
    BY <1>5 DEF HostReceive
  <2>3. QED
    BY <1>5, <2>1, <2>2 DEF HostReceive, deviceVars, HuStates
<1>6. CASE Reconnect
  BY <1>6 DEF Reconnect, deviceVars, HuStates
<1>7. CASE UNCHANGED vars
  BY <1>7 DEF vars, deviceVars
<1>8. QED
  BY <1>1, <1>2, <1>3, <1>4, <1>5, <1>6, <1>7 DEF Next, Device

(* Every variable keeps to its domain, whatever the head unit sends and however
   often it is connected. *)
THEOREM TypeCorrect == Spec => []TypeOK
<1>1. Init => TypeOK
  BY ConstantsAssumption DEF Init, TypeOK
<1>2. TypeOK /\ [Next]_vars => TypeOK'
  BY TypeStep
<1>3. QED
  BY <1>1, <1>2, PTL DEF Spec

-----------------------------------------------------------------------------
(* The wire to the device *)

(* A frame that is read off a wire of noise is noise. *)
LEMMA QuietRead ==
    ASSUME TypeOK, Quiet, toDevice # <<>>, toDevice' = Tail(toDevice)
    PROVE  Head(toDevice).code = "other" /\ Quiet'
BY DEF Quiet, TypeOK

(* The frame read off a wire that carries one message is noise or that. *)
LEMMA CarriesRead ==
    ASSUME TypeOK, NEW frame, Carries(frame), toDevice # <<>>, toDevice' = Tail(toDevice)
    PROVE  \/ Head(toDevice) = frame /\ Quiet'
           \/ Head(toDevice).code = "other" /\ Carries(frame)'
<1>1. PICK i \in 1..Len(toDevice) :
          /\ toDevice[i] = frame
          /\ \A j \in 1..Len(toDevice) : j # i => toDevice[j].code = "other"
  BY DEF Carries
<1>2. /\ Len(toDevice) \in Nat /\ Head(toDevice) = toDevice[1]
      /\ Len(toDevice') = Len(toDevice) - 1
      /\ \A j \in 1..(Len(toDevice) - 1) : toDevice'[j] = toDevice[j + 1]
  BY DEF TypeOK
<1>3. CASE i = 1
  BY <1>1, <1>2, <1>3 DEF Quiet
<1>4. CASE i # 1
  <2>1. i - 1 \in 1..Len(toDevice') /\ toDevice'[i - 1] = frame
    BY <1>1, <1>2, <1>4
  <2>2. \A j \in 1..Len(toDevice') : j # i - 1 => toDevice'[j].code = "other"
    BY <1>1, <1>2
  <2>3. toDevice[1].code = "other"
    BY <1>1, <1>2, <1>4
  <2>4. QED
    BY <1>2, <2>1, <2>2, <2>3 DEF Carries
<1>5. QED
  BY <1>3, <1>4

(* A message that is sent on a wire of noise is carried, noise changes nothing. *)
LEMMA WireSends ==
    ASSUME TypeOK, NEW frame, toDevice' = toDevice \o <<frame>>
    PROVE  /\ Quiet => Carries(frame)'
           /\ frame.code = "other" =>
                /\ Quiet => Quiet'
                /\ \A message : Carries(message) => Carries(message)'
<1>1. /\ Len(toDevice) \in Nat /\ Len(toDevice') = Len(toDevice) + 1
      /\ \A j \in 1..Len(toDevice) : toDevice'[j] = toDevice[j]
      /\ toDevice'[Len(toDevice) + 1] = frame
  BY DEF TypeOK
<1>2. Quiet => Carries(frame)'
  BY <1>1 DEF Quiet, Carries
<1>3. frame.code = "other" /\ Quiet => Quiet'
  BY <1>1 DEF Quiet
<1>4. ASSUME frame.code = "other", NEW message, Carries(message)
      PROVE  Carries(message)'
  BY <1>1, <1>4 DEF Carries
<1>5. QED
  BY <1>2, <1>3, <1>4

-----------------------------------------------------------------------------
(* The handshake of the first head unit *)

(* A TLS server that is given the flight it waits for goes one state further
   and has its answer ready. *)
LEMMA DoHandshakeOne ==
    ASSUME NEW flight, DoHandshake(<<flight>>), deviceToHost = <<>>,
           NEW after, NEW answer,
           \/ tls = "start" /\ flight = "clientHello"
                /\ after = "helloDone" /\ answer = "serverHello"
           \/ tls = "helloDone" /\ flight = "clientFinish"
                /\ after = "done" /\ answer = "serverFinish"
    PROVE  tls' = after /\ hostToDevice' = <<>> /\ deviceToHost' = <<answer>>
<1>1. FoldedServer(<<flight>>) = ServerStep(Before, flight)
  BY F!FoldOfOne DEF FoldedServer
<1>2. ServerStep(Before, flight) = [Before EXCEPT !.tls = after, !.sent = Append(@, answer)]
  <2>1. Before.tls = tls
    BY DEF Before
  <2>2. CASE tls = "start"
    BY <2>1, <2>2 DEF ServerStep
  <2>3. CASE tls = "helloDone"
    BY <2>1, <2>3 DEF ServerStep
  <2>4. QED
    BY <2>2, <2>3
<1>3. /\ ServerStep(Before, flight).tls = after
      /\ ServerStep(Before, flight).unread = <<>>
      /\ ServerStep(Before, flight).sent = <<answer>>
  <2>1. Before.sent = <<>> /\ Before.unread = <<>>
    BY DEF Before
  <2>2. /\ ServerStep(Before, flight).tls = after
        /\ ServerStep(Before, flight).unread = Before.unread
        /\ ServerStep(Before, flight).sent = Append(Before.sent, answer)
    BY <1>2 DEF Before
  <2>3. QED
    BY <2>1, <2>2
<1>4. /\ tls' = after /\ hostToDevice' = <<>>
      /\ deviceToHost' = <<>> \o <<answer>>
  BY <1>1, <1>3, DoHandshakeFolds
<1>5. QED
  BY <1>4

(* A frame that is read is gone, and the io thread goes on to send. *)
LEMMA FrameIsRead ==
    ASSUME NEW frame, HandleFrame(frame)
    PROVE  Reads(frame)
BY DEF HandleFrame, HandleUnsupported, HandleVersionRequest, HandleSslHandshake,
       HandleAuthComplete, HandleOther, ReadsPacket

(* Noise changes nothing but that. *)
LEMMA NoiseHandled ==
    ASSUME NEW frame, HandleFrame(frame), frame.code = "other"
    PROVE  UNCHANGED <<state, tls, hostToDevice, deviceToHost, toHost>>
BY DEF HandleFrame, HandleUnsupported, HandleVersionRequest, HandleSslHandshake,
       HandleAuthComplete, HandleOther, ReadsPacket

(* A version request is answered, and nothing else happens. *)
LEMMA VersionHandled ==
    ASSUME HandleFrame(VersionFrame)
    PROVE  /\ toHost' = Append(toHost, Packet("VersionResponse", <<>>))
           /\ UNCHANGED <<state, tls, hostToDevice, deviceToHost>>
BY DEF HandleFrame, HandleUnsupported, HandleVersionRequest, HandleSslHandshake,
       HandleAuthComplete, HandleOther, ReadsPacket, VersionFrame, Frame

(* An authentication frame leaves TLS and the BIOs alone. *)
LEMMA AuthHandled ==
    ASSUME HandleFrame(AuthFrame)
    PROVE  UNCHANGED <<tls, hostToDevice, deviceToHost, toHost>>
BY DEF HandleFrame, HandleUnsupported, HandleVersionRequest, HandleSslHandshake,
       HandleAuthComplete, HandleOther, ReadsPacket, AuthFrame, Frame

(* A flight of the handshake is put into an empty BIO and handled at once. *)
LEMMA TlsHandled ==
    ASSUME NEW flight, HandleFrame(TlsFrame(flight)), state = "handshake",
           hostToDevice = <<>>
    PROVE  DoHandshake(<<flight>>) /\ UNCHANGED <<state, toHost>>
<1>1. /\ TlsFrame(flight).code = "SSLHandshake" /\ TlsFrame(flight).flags = FullPacket
      /\ TlsFrame(flight).body = <<flight>>
  BY DEF TlsFrame, Frame
<1>2. HandleSslHandshake(TlsFrame(flight))
  BY <1>1 DEF HandleFrame, HandleUnsupported, HandleVersionRequest, HandleSslHandshake,
       HandleAuthComplete, HandleOther, ReadsPacket
<1>3. IncomingCiphertext(TlsFrame(flight).body) /\ UNCHANGED <<state, toHost>>
  BY <1>2 DEF HandleSslHandshake
<1>4. IncomingCiphertext(<<flight>>)
  BY <1>1, <1>3
<1>5. DoHandshake(<<flight>>)
  <2>1. DoHandshake(hostToDevice \o <<flight>>)
    BY <1>4 DEF IncomingCiphertext
  <2>2. hostToDevice \o <<flight>> = <<flight>>
    OBVIOUS
  <2>3. QED
    BY <2>1, <2>2
<1>6. QED
  BY <1>3, <1>5

(* While the first head unit is there, the io thread stays in its phase when
   it reads: noise is dropped, and the one message is handled. *)
LEMMA ReadKeepsPhase ==
    ASSUME TypeOK, Phase, hostToDevice = <<>>, state = "connected" => hu = "online",
           toDevice # <<>>, HandleFrame(Head(toDevice))
    PROVE  Phase' /\ hostToDevice' = <<>> /\ (state = "connected" => hu = "online")'
<1> DEFINE frame == Head(toDevice)
           Kept == UNCHANGED <<state, tls, hostToDevice, deviceToHost, toHost>>
<1>1. /\ toDevice' = Tail(toDevice) /\ pc = "select" /\ pc' = "pump"
      /\ UNCHANGED hu
  BY FrameIsRead DEF Reads
<1>2. ASSUME Quiet
      PROVE  Quiet' /\ Kept
  BY <1>1, <1>2, QuietRead, NoiseHandled
<1>3. ASSUME NEW message, Carries(message)
      PROVE  \/ frame = message /\ Quiet'
             \/ Carries(message)' /\ Kept
  BY <1>1, <1>3, CarriesRead, NoiseHandled
<1>4. state \in {"handshake", "connected"}
  BY DEF TypeOK
<1> HIDE DEF frame
<1>5. CASE Resting
  <2>1. Idle' /\ Kept
    BY <1>2, <1>5 DEF Idle, Resting
  <2>2. QED
    BY <1>1, <1>5, <2>1 DEF Phase, Resting
<1>6. CASE hu = "waitVersion" /\ tls = "start" /\ Versioning
  <2>1. CASE Carries(VersionFrame)' /\ Kept /\ toHost = <<>>
    BY <1>1, <1>6, <2>1 DEF Phase, Versioning
  <2>2. CASE frame = VersionFrame /\ Quiet' /\ toHost = <<>>
    <3>1. /\ toHost' = Append(toHost, Packet("VersionResponse", <<>>))
          /\ UNCHANGED <<state, tls, hostToDevice, deviceToHost>>
      BY <2>2, VersionHandled DEF frame
    <3>2. toHost' = <<Packet("VersionResponse", <<>>)>>
      BY <2>2, <3>1
    <3>3. QED
      BY <1>1, <1>6, <2>2, <3>1, <3>2 DEF Phase, Versioning
  <2>3. CASE Quiet' /\ Kept /\ toHost = <<Packet("VersionResponse", <<>>)>>
    BY <1>1, <1>6, <2>3 DEF Phase, Versioning
  <2>4. QED
    BY <1>2, <1>3, <1>6, <2>1, <2>2, <2>3 DEF Versioning
<1>7. ASSUME NEW flight, NEW before, NEW answer, NEW after,
             Exchange(flight, before, answer, after), state = "handshake",
             \/ before = "start" /\ flight = "clientHello"
                  /\ after = "helloDone" /\ answer = "serverHello"
             \/ before = "helloDone" /\ flight = "clientFinish"
                  /\ after = "done" /\ answer = "serverFinish"
      PROVE  /\ Exchange(flight, before, answer, after)'
             /\ hostToDevice' = <<>> /\ UNCHANGED state
  <2>1. CASE /\ tls = before /\ deviceToHost = <<>> /\ toHost = <<>>
             /\ Carries(TlsFrame(flight))' /\ Kept
    BY <2>1 DEF Exchange
  <2>2. CASE /\ tls = before /\ deviceToHost = <<>> /\ toHost = <<>>
             /\ frame = TlsFrame(flight) /\ Quiet'
    <3>1. DoHandshake(<<flight>>) /\ UNCHANGED <<state, toHost>>
      BY <1>7, <2>2, TlsHandled DEF frame
    <3>2. tls' = after /\ hostToDevice' = <<>> /\ deviceToHost' = <<answer>>
      BY <1>7, <2>2, <3>1, DoHandshakeOne
    <3>3. QED
      BY <1>1, <2>2, <3>1, <3>2 DEF Exchange
  <2>3. CASE /\ tls = after /\ deviceToHost = <<>> /\ Quiet' /\ Kept
             /\ toHost = <<Packet("SSLHandshake", <<answer>>)>>
    BY <2>3 DEF Exchange
  <2>4. QED
    BY <1>1, <1>2, <1>3, <1>7, <2>1, <2>2, <2>3 DEF Exchange
<1>8. CASE hu = "waitServer" /\ Exchange("clientHello", "start", "serverHello", "helloDone")
  <2>1. state = "handshake"
    BY <1>4, <1>8
  <2>2. /\ Exchange("clientHello", "start", "serverHello", "helloDone")'
        /\ hostToDevice' = <<>> /\ UNCHANGED state
    BY <1>7, <1>8, <2>1
  <2>3. QED
    BY <1>1, <1>8, <2>1, <2>2 DEF Phase
<1>9. CASE hu = "waitFinished" /\ Exchange("clientFinish", "helloDone", "serverFinish", "done")
  <2>1. state = "handshake"
    BY <1>4, <1>9
  <2>2. /\ Exchange("clientFinish", "helloDone", "serverFinish", "done")'
        /\ hostToDevice' = <<>> /\ UNCHANGED state
    BY <1>7, <1>9, <2>1
  <2>3. hu' = "waitFinished" /\ state' = "handshake"
    BY <1>1, <1>9, <2>1, <2>2
  <2>4. Phase'
    BY <2>2, <2>3 DEF Phase
  <2>5. QED
    BY <2>2, <2>3, <2>4
<1>10. CASE hu = "online" /\ tls = "done" /\ Authenticating
  <2>1. CASE frame = AuthFrame /\ Quiet'
    BY <1>1, <1>10, <2>1, AuthHandled DEF Phase, Authenticating, frame
  <2>2. CASE (Quiet \/ Carries(AuthFrame))' /\ Kept
    BY <1>1, <1>10, <2>2 DEF Phase, Authenticating
  <2>3. QED
    BY <1>2, <1>3, <1>10, <2>1, <2>2 DEF Authenticating
<1>11. \/ Resting
       \/ hu = "waitVersion" /\ tls = "start" /\ Versioning
       \/ hu = "waitServer" /\ Exchange("clientHello", "start", "serverHello", "helloDone")
       \/ hu = "waitFinished" /\ Exchange("clientFinish", "helloDone", "serverFinish", "done")
       \/ hu = "online" /\ tls = "done" /\ Authenticating
  BY DEF Phase
<1>12. QED
  BY <1>5, <1>6, <1>8, <1>9, <1>10, <1>11

(* What is in the BIO goes out as the packet the head unit waits for. *)
LEMMA PumpKeepsPhase ==
    ASSUME Phase, MaybeSendOutgoingCiphertext
    PROVE  Phase'
<1>1. /\ UNCHANGED <<state, tls, toDevice, hu>>
      /\ IF deviceToHost # <<>>
           THEN /\ toHost' = Append(toHost, Packet("SSLHandshake", deviceToHost))
                /\ deviceToHost' = <<>>
           ELSE UNCHANGED <<toHost, deviceToHost>>
  BY DEF MaybeSendOutgoingCiphertext
<1>2. (Quiet => Quiet') /\ \A frame : Carries(frame) => Carries(frame)'
  BY <1>1 DEF Quiet, Carries
<1>3. CASE deviceToHost = <<>>
  <2>1. UNCHANGED <<tls, toHost, deviceToHost, hu>>
    BY <1>1, <1>3
  <2>2. Resting => Resting'
    BY <1>2, <2>1 DEF Resting, Idle
  <2>3. Versioning => Versioning'
    BY <1>2, <2>1 DEF Versioning
  <2>4. Authenticating => Authenticating'
    BY <1>2, <2>1 DEF Authenticating
  <2>5. ASSUME NEW flight, NEW before, NEW answer, NEW after,
               Exchange(flight, before, answer, after)
        PROVE  Exchange(flight, before, answer, after)'
    BY <1>2, <1>3, <2>1, <2>5 DEF Exchange
  <2>6. QED
    BY <2>1, <2>2, <2>3, <2>4, <2>5 DEF Phase
<1>4. CASE deviceToHost # <<>>
  <2>1. ASSUME NEW flight, NEW before, NEW answer, NEW after,
               Exchange(flight, before, answer, after)
        PROVE  Exchange(flight, before, answer, after)'
    <3>1. tls = after /\ deviceToHost = <<answer>> /\ Quiet /\ toHost = <<>>
      BY <1>4, <2>1 DEF Exchange
    <3>2. toHost' = <<Packet("SSLHandshake", <<answer>>)>> /\ deviceToHost' = <<>>
      BY <1>1, <1>4, <3>1
    <3>3. QED
      BY <1>1, <1>2, <3>1, <3>2 DEF Exchange
  <2>2. QED
    BY <1>1, <1>4, <2>1 DEF Phase, Resting, Idle, Versioning, Authenticating
<1>5. QED
  BY <1>3, <1>4

(* The head unit's next message starts an exchange on a wire of noise. *)
LEMMA SendKeepsPhase ==
    ASSUME TypeOK, Phase, HostSend
    PROVE  Phase' /\ (hu = "online" => hu' = "online")
<1>1. PICK frame, from, to :
          /\ HostMoves(from, to) /\ Sends(<<frame>>)
          /\ \/ frame = VersionFrame /\ from = "version" /\ to = "waitVersion"
             \/ frame = TlsFrame("clientHello") /\ from = "hello" /\ to = "waitServer"
             \/ frame = TlsFrame("clientFinish") /\ from = "finish" /\ to = "waitFinished"
             \/ frame = AuthFrame /\ from = "auth" /\ to = "online"
  BY DEF HostSend, TlsPacket, VersionFrame, TlsFrame, AuthFrame
<1>2. /\ hu = from /\ hu' = to /\ UNCHANGED <<deviceVars, toHost>>
      /\ toDevice' = toDevice \o <<frame>>
  BY <1>1 DEF HostMoves, Sends
<1>3. Idle /\ \/ hu \in {"version", "hello"} /\ tls = "start"
              \/ hu = "finish" /\ tls = "helloDone"
              \/ hu = "auth" /\ tls = "done"
  BY <1>1, <1>2 DEF Phase, Resting
<1>4. Carries(frame)' /\ toHost' = <<>> /\ deviceToHost' = <<>> /\ tls' = tls
  BY <1>2, <1>3, WireSends DEF Idle, deviceVars
<1>5. QED
  BY <1>1, <1>2, <1>3, <1>4 DEF Phase, Versioning, Exchange, Authenticating

(* Noise leaves every exchange where it is. *)
LEMMA NoiseKeepsPhase ==
    ASSUME TypeOK, Phase, HostNoise
    PROVE  Phase' /\ hu' = hu
<1>1. PICK frame : frame.code = "other" /\ Sends(<<frame>>)
  BY DEF HostNoise, Frame
<1>2. /\ hu' = hu /\ UNCHANGED <<tls, deviceToHost, pc, toHost>>
      /\ toDevice' = toDevice \o <<frame>>
  BY <1>1 DEF HostNoise, Sends, deviceVars
<1>3. (Quiet => Quiet') /\ \A message : Carries(message) => Carries(message)'
  BY <1>1, <1>2, WireSends
<1>4. Resting => Resting'
  BY <1>2, <1>3 DEF Resting, Idle
<1>5. Versioning => Versioning'
  BY <1>2, <1>3 DEF Versioning
<1>6. Authenticating => Authenticating'
  BY <1>2, <1>3 DEF Authenticating
<1>7. ASSUME NEW flight, NEW before, NEW answer, NEW after,
             Exchange(flight, before, answer, after)
      PROVE  Exchange(flight, before, answer, after)'
  BY <1>2, <1>3, <1>7 DEF Exchange
<1>8. QED
  BY <1>2, <1>4, <1>5, <1>6, <1>7 DEF Phase

(* The packet that is waiting for the head unit is the one it waits for. *)
LEMMA ReceiveKeepsPhase ==
    ASSUME TypeOK, Phase, HostReceive
    PROVE  Phase' /\ hu # "online"
<1>1. /\ toHost # <<>> /\ toHost' = Tail(toHost)
      /\ hu' = IF Head(toHost) = Expected THEN After[hu] ELSE "refused"
      /\ UNCHANGED <<tls, deviceToHost, toDevice>>
  BY DEF HostReceive, deviceVars
<1>2. Quiet => Quiet'
  BY <1>1 DEF Quiet
<1>3. ASSUME NEW packet, toHost = <<packet>>
      PROVE  toHost' = <<>> /\ Head(toHost) = packet
  BY <1>1, <1>3
<1>4. CASE hu = "waitVersion" /\ tls = "start" /\ Versioning
  <2>1. Quiet /\ toHost = <<Packet("VersionResponse", <<>>)>> /\ deviceToHost = <<>>
    BY <1>1, <1>4 DEF Versioning
  <2>2. Expected = Packet("VersionResponse", <<>>)
    BY <1>4 DEF Expected
  <2>3. hu' = "hello"
    BY <1>1, <1>3, <1>4, <2>1, <2>2 DEF After
  <2>4. QED
    BY <1>1, <1>2, <1>3, <1>4, <2>1, <2>3 DEF Phase, Resting, Idle
<1>5. ASSUME NEW flight, NEW before, NEW answer, NEW after,
             Exchange(flight, before, answer, after)
      PROVE  /\ tls' = after /\ Idle'
             /\ Head(toHost) = Packet("SSLHandshake", <<answer>>)
  BY <1>1, <1>2, <1>3, <1>5 DEF Exchange, Idle
<1>6. CASE hu = "waitServer" /\ Exchange("clientHello", "start", "serverHello", "helloDone")
  <2>1. Expected = Packet("SSLHandshake", <<"serverHello">>)
    BY <1>6 DEF Expected
  <2>2. tls' = "helloDone" /\ Idle' /\ hu' = "finish"
    BY <1>1, <1>5, <1>6, <2>1 DEF After
  <2>3. QED
    BY <1>6, <2>2 DEF Phase, Resting
<1>7. CASE hu = "waitFinished" /\ Exchange("clientFinish", "helloDone", "serverFinish", "done")
  <2>1. Expected = Packet("SSLHandshake", <<"serverFinish">>)
    BY <1>7 DEF Expected
  <2>2. tls' = "done" /\ Idle' /\ hu' = "auth"
    BY <1>1, <1>5, <1>7, <2>1 DEF After
  <2>3. QED
    BY <1>7, <2>2 DEF Phase, Resting
<1>8. QED
  BY <1>1, <1>4, <1>6, <1>7 DEF Phase, Resting, Idle, Authenticating

(* No step leaves the phases of the first session. *)
LEMMA FirstInPhaseStep ==
    ASSUME TypeOK, FirstInPhase, [Next]_vars
    PROVE  FirstInPhase'
<1> SUFFICES ASSUME connections' = 1
             PROVE  /\ Phase' /\ hostToDevice' = <<>>
                    /\ state' = "connected" => hu' = "online"
  BY DEF FirstInPhase
<1>1. CASE Reconnect
  <2>1. connections \in Nat \ {0} /\ connections' = connections + 1
    BY <1>1, ConstantsAssumption DEF Reconnect, TypeOK
  <2>2. QED
    BY <2>1
<1>2. CASE UNCHANGED vars
  BY <1>2 DEF vars, deviceVars, FirstInPhase, Phase, Resting, Idle, Versioning, Exchange,
              Authenticating, Quiet, Carries
<1>3. CASE Device \/ HostSend \/ HostNoise \/ HostReceive
  <2>1. connections = 1
    BY <1>3, FrameIsRead DEF Device, Reads, MaybeSendOutgoingCiphertext, HostSend, HostNoise,
                             HostReceive, Sends
  <2>2. Phase /\ hostToDevice = <<>> /\ (state = "connected" => hu = "online")
    BY <2>1 DEF FirstInPhase
  <2>3. CASE toDevice # <<>> /\ HandleFrame(Head(toDevice))
    BY <2>2, <2>3, ReadKeepsPhase
  <2>4. CASE MaybeSendOutgoingCiphertext
    BY <2>2, <2>4, PumpKeepsPhase DEF MaybeSendOutgoingCiphertext
  <2>5. CASE HostSend
    BY <2>2, <2>5, SendKeepsPhase DEF HostSend, Sends, deviceVars
  <2>6. CASE HostNoise
    BY <2>2, <2>6, NoiseKeepsPhase DEF HostNoise, Sends, deviceVars
  <2>7. CASE HostReceive
    BY <2>2, <2>7, ReceiveKeepsPhase DEF HostReceive, deviceVars
  <2>8. QED
    BY <1>3, <2>3, <2>4, <2>5, <2>6, <2>7 DEF Device
<1>4. QED
  BY <1>1, <1>2, <1>3 DEF Next

(* Whatever the first head unit sends besides, its handshake is in one of the
   phases, with one message on its way at most. *)
THEOREM FirstKeepsPhase == Spec => []FirstInPhase
<1>1. Init => FirstInPhase
  BY DEF Init, FirstInPhase, Phase, Resting, Idle, Quiet
<1>2. TypeOK /\ FirstInPhase /\ [Next]_vars => FirstInPhase'
  BY FirstInPhaseStep
<1>3. QED
  BY <1>1, <1>2, TypeCorrect, PTL DEF Spec

(* The device says connected to the first head unit only when both ends have
   finished the handshake. *)
THEOREM FirstOnline == Spec => []FirstIsOnline
<1>1. FirstInPhase => FirstIsOnline
  BY DEF FirstInPhase, FirstIsOnline, ConnectedIsOnline, Phase, Resting
<1>2. QED
  BY <1>1, FirstKeepsPhase, PTL

(* The first head unit never gets a packet that it did not wait for. *)
THEOREM FirstAccepted == Spec => []FirstNotRefused
<1>1. FirstInPhase => FirstNotRefused
  BY DEF FirstInPhase, FirstNotRefused, Phase, Resting
<1>2. QED
  BY <1>1, FirstKeepsPhase, PTL
=============================================================================
