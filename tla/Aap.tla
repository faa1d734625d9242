-------------------------------- MODULE Aap --------------------------------
(***************************************************************************)
(* The Android Auto protocol, android-auto/aap.cpp: one AAConnection for   *)
(* the life of the process, whose io thread reads a frame, dispatches its  *)
(* packet and then sends what OpenSSL left in a memory BIO.  OpenSSL and   *)
(* the head unit at the other end of the cable are external: the first is  *)
(* a TLS server that consumes flights, the second follows the order of     *)
(* messages that the handlers expect.                                      *)
(***************************************************************************)
EXTENDS Naturals, SequencesExt

CONSTANTS
    Connections,  \* how often the head unit is connected, at most
    MaxWire,      \* frames in flight to the device, at most
    MaxNoise      \* frames outside the handshake, per connection, at most

ASSUME ConstantsAssumption ==
    /\ Connections \in Nat \ {0} /\ MaxWire \in Nat \ {0, 1} /\ MaxNoise \in Nat

VARIABLES
    state,         \* AAConnection::state
    tls,           \* the state of the SSL object
    hostToDevice, deviceToHost,  \* the memory BIOs, in flights
    pc,            \* the io thread: "select" or "pump"
    toDevice, toHost,  \* frames to, and packets from, the device
    hu,            \* the head unit
    noise, connections
deviceVars == <<state, tls, hostToDevice, deviceToHost, pc>>
vars == <<deviceVars, toDevice, toHost, hu, noise, connections>>

Flights == {"clientHello", "serverHello", "clientFinish", "serverFinish", "alert", "part"}
Codes == {"VersionRequest", "VersionResponse", "SSLHandshake", "AuthComplete", "other"}
Flags == {"first", "last", "encrypted"}
Packet(code, body) == [code |-> code, body |-> body]
Frame(flags, code, body) == [flags |-> flags, code |-> code, body |-> body]
FullPacket == {"first", "last"}

(* One type invariant: every variable keeps to its domain. *)
TypeOK ==
    /\ state \in {"handshake", "connected"}
    /\ tls \in {"start", "helloDone", "done", "failed"}
    /\ hostToDevice \in Seq(Flights) /\ deviceToHost \in Seq(Flights)
    /\ pc \in {"select", "pump"}
    /\ toDevice \in Seq([flags : SUBSET Flags, code : Codes, body : Seq(Flights)])
    /\ Len(toDevice) <= MaxWire
    /\ toHost \in Seq([code : {"VersionResponse", "SSLHandshake"}, body : Seq(Flights)])
    /\ hu \in {"version", "waitVersion", "hello", "waitServer", "finish", "waitFinished",
               "auth", "online", "refused"}
    /\ noise \in 0..MaxNoise /\ connections \in 1..Connections

(* The constructor: SSL_accept and SSL_do_handshake find no input. *)
Init ==
    /\ state = "handshake" /\ tls = "start"
    /\ hostToDevice = <<>> /\ deviceToHost = <<>>
    /\ pc = "select"
    /\ toDevice = <<>> /\ toHost = <<>>
    /\ hu = "version"
    /\ noise = 0 /\ connections = 1

-----------------------------------------------------------------------------
(* The device *)

(* A TLS server that is given one more flight. *)
ServerStep(server, flight) ==
    CASE server.tls \in {"done", "failed"} -> [server EXCEPT !.unread = Append(@, flight)]
      [] server.tls = "start" /\ flight = "clientHello" ->
            [server EXCEPT !.tls = "helloDone", !.sent = Append(@, "serverHello")]
      [] server.tls = "helloDone" /\ flight = "clientFinish" ->
            [server EXCEPT !.tls = "done", !.sent = Append(@, "serverFinish")]
      [] OTHER -> [server EXCEPT !.tls = "failed", !.sent = Append(@, "alert")]

(* SSL_do_handshake: it goes on until the input BIO is empty or it is over. *)
DoHandshake(input) ==
    LET server == FoldLeft(ServerStep, [tls |-> tls, sent |-> <<>>, unread |-> <<>>], input)
    IN  /\ tls' = server.tls
        /\ hostToDevice' = server.unread
        /\ deviceToHost' = deviceToHost \o server.sent

(* mutant: the handshake step is left to the next frame *)
IncomingCiphertextLate(flights) ==
    IF state = "handshake" /\ hostToDevice # <<>>
        THEN DoHandshake(hostToDevice \o flights)
        ELSE /\ hostToDevice' = hostToDevice \o flights
             /\ UNCHANGED <<tls, deviceToHost>>

IncomingCiphertext(flights) ==
    IF state = "handshake"
        THEN DoHandshake(hostToDevice \o flights)
        ELSE /\ hostToDevice' = hostToDevice \o flights
             /\ UNCHANGED <<tls, deviceToHost>>

(* The io thread takes the next frame; its packet is dispatched by code. *)
Reads(frame) ==
    /\ pc = "select" /\ pc' = "pump"
    /\ toDevice' = Tail(toDevice)
    /\ UNCHANGED <<hu, noise, connections>>
ReadsPacket(frame, code) == Reads(frame) /\ frame.flags = FullPacket /\ frame.code = code

HandleUnsupported(frame) ==
    /\ Reads(frame)
    /\ frame.flags # FullPacket
    /\ UNCHANGED <<state, tls, hostToDevice, deviceToHost, toHost>>

HandleVersionRequest(frame) ==
    /\ ReadsPacket(frame, "VersionRequest")
    /\ toHost' = Append(toHost, Packet("VersionResponse", <<>>))
    /\ UNCHANGED <<state, tls, hostToDevice, deviceToHost>>

(* mutant: the first TLS packet already makes the connection *)
HandleSslHandshakeConnects(frame) ==
    /\ ReadsPacket(frame, "SSLHandshake")
    /\ IncomingCiphertext(frame.body)
    /\ state' = "connected"
    /\ UNCHANGED toHost

HandleSslHandshake(frame) ==
    /\ ReadsPacket(frame, "SSLHandshake")
    /\ IncomingCiphertext(frame.body)
    /\ UNCHANGED <<state, toHost>>

(* The status it carries is printed only. *)
HandleAuthComplete(frame) ==
    /\ ReadsPacket(frame, "AuthComplete")
    /\ state' = "connected"
    /\ UNCHANGED <<tls, hostToDevice, deviceToHost, toHost>>

HandleOther(frame) ==
    /\ \E code \in {"VersionResponse", "other"} : ReadsPacket(frame, code)
    /\ UNCHANGED <<state, tls, hostToDevice, deviceToHost, toHost>>

(* mutant: at most one flight is read from the BIO *)
MaybeSendOutgoingCiphertextOne ==
    /\ pc = "pump" /\ pc' = "select"
    /\ IF deviceToHost # <<>>
         THEN /\ toHost' = Append(toHost, Packet("SSLHandshake", <<Head(deviceToHost)>>))
              /\ deviceToHost' = deviceToHost
         ELSE UNCHANGED <<toHost, deviceToHost>>
    /\ UNCHANGED <<state, tls, hostToDevice, toDevice, hu, noise, connections>>

(* Everything pending is sent as one packet. *)
MaybeSendOutgoingCiphertext ==
    /\ pc = "pump" /\ pc' = "select"
    /\ IF deviceToHost # <<>>
         THEN /\ toHost' = Append(toHost, Packet("SSLHandshake", deviceToHost))
              /\ deviceToHost' = <<>>
         ELSE UNCHANGED <<toHost, deviceToHost>>
    /\ UNCHANGED <<state, tls, hostToDevice, toDevice, hu, noise, connections>>

HandleFrame(frame) ==
    \/ HandleUnsupported(frame) \/ HandleVersionRequest(frame) \/ HandleSslHandshake(frame)
    \/ HandleAuthComplete(frame) \/ HandleOther(frame)
Device == (toDevice # <<>> /\ HandleFrame(Head(toDevice))) \/ MaybeSendOutgoingCiphertext

-----------------------------------------------------------------------------
(* The head unit *)

Sends(frames) ==
    /\ Len(toDevice) + Len(frames) <= MaxWire
    /\ toDevice' = toDevice \o frames
    /\ UNCHANGED <<deviceVars, toHost, connections>>

TlsPacket(flight) == <<Frame(FullPacket, "SSLHandshake", <<flight>>)>>
HostMoves(from, to) == hu = from /\ hu' = to /\ UNCHANGED noise
HostSend ==
    \/ /\ HostMoves("version", "waitVersion")
       /\ Sends(<<Frame(FullPacket, "VersionRequest", <<>>)>>)
    \/ HostMoves("hello", "waitServer") /\ Sends(TlsPacket("clientHello"))
    \/ HostMoves("finish", "waitFinished") /\ Sends(TlsPacket("clientFinish"))
    \/ /\ HostMoves("auth", "online")
       /\ Sends(<<Frame(FullPacket, "AuthComplete", <<>>)>>)

(* What the handlers do not expect: application data, other codes, pieces. *)
HostNoise ==
    /\ noise < MaxNoise
    /\ noise' = noise + 1
    /\ \E flags \in {FullPacket, {"first"}, FullPacket \cup {"encrypted"}} :
            Sends(<<Frame(flags, "other", <<"part">>)>>)
    /\ UNCHANGED hu

Expected == CASE hu = "waitVersion"  -> Packet("VersionResponse", <<>>)
              [] hu = "waitServer"   -> Packet("SSLHandshake", <<"serverHello">>)
              [] hu = "waitFinished" -> Packet("SSLHandshake", <<"serverFinish">>)
              [] OTHER               -> Packet("other", <<>>)
After == [waitVersion |-> "hello", waitServer |-> "finish", waitFinished |-> "auth"]

HostReceive ==
    /\ toHost # <<>>
    /\ toHost' = Tail(toHost)
    /\ hu' = IF Head(toHost) = Expected THEN After[hu] ELSE "refused"
    /\ UNCHANGED <<deviceVars, toDevice, noise, connections>>

(* The cable is pulled and plugged in, or the head unit restarts: what was on
   the wire is lost, aa_conn stays as it is.  (Between a read and the write
   that follows it, the write would fail its assert.) *)
Reconnect ==
    /\ pc = "select"
    /\ connections < Connections
    /\ connections' = connections + 1
    /\ hu' = "version" /\ noise' = 0
    /\ toDevice' = <<>> /\ toHost' = <<>>
    /\ UNCHANGED deviceVars

Next == Device \/ HostSend \/ HostNoise \/ HostReceive \/ Reconnect

(* The io thread loops for ever; a head unit goes on with its handshake. *)
Fairness == WF_vars(Device) /\ WF_vars(HostSend) /\ WF_vars(HostReceive)
Spec == Init /\ [][Next]_vars /\ Fairness

-----------------------------------------------------------------------------
(* What must hold *)

(* "past this point, SSL is online", aap.cpp:106: connected says so of the
   head unit that is there now, at the latest once it has had its version
   response. *)
ConnectedIsOnline ==
    state = "connected" /\ hu \notin {"version", "waitVersion"} => tls = "done" /\ hu = "online"

(* ... of the first head unit it does: AuthComplete comes only when both ends
   have finished, whatever else was received between. *)
FirstIsOnline == connections = 1 => ConnectedIsOnline

(* The first head unit never gets a packet it did not wait for: one answer for
   each of its messages, in order, and each flight once. *)
FirstNotRefused == connections = 1 => hu # "refused"

(* A head unit that is not disconnected gets through the handshake, whatever
   else it sends. *)
HandshakeCompletes == <>(hu = "online" /\ state = "connected") \/ <>(connections > 1)
=============================================================================
