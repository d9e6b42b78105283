-------------------------- MODULE WebRtcTransport --------------------------
(***************************************************************************)
(* RTC::WebRtcTransport of the worker: the ICE server and the DTLS         *)
(* transport of one peer and the handlers that tie them together, with the *)
(* requests 'connect' and 'restartIce' of the application.                 *)
(*                                                                         *)
(* Each action is one event of the worker's libuv loop: a received packet, *)
(* a closed TCP connection, a timeout or a request on the Channel.         *)
(***************************************************************************)
EXTENDS IceServer, DtlsTransport

VARIABLE dtls       \* the record described in DtlsTransport

vars == <<iceVars, dtls>>

TypeOK == IceTypeOK /\ dtls \in DtlsRecord

Init == IceInit /\ dtls = NewDtls

IceConnected(state) == state \in {"connected", "completed"}

IsConnected == IceConnected(iceState) /\ dtls.state = "connected"

---------------------------------------------------------------------------
(* OpenSSL: what it can do with received data.  Its timeouts stay below 30 *)
(* seconds (onSslDtlsTimer); once it has given up it processes nothing.    *)

Received(d) ==
    {o \in Outcome : /\ o.timeout # "long"
                     /\ GivenUp(d) => ~ o.done /\ ~ o.progress /\ o.timeout = "keep"}

---------------------------------------------------------------------------
(* Handlers, as operators on the record.                                   *)

\* 'auto' becomes 'server' once ICE is connected.
MayRunDtlsTransport(d, ice) ==
    LET role == IF d.dtlsRole = "auto" THEN "server" ELSE d.dtlsRole
    IN  IF d.localRole # d.dtlsRole /\ IceConnected(ice)
          THEN Run([d EXCEPT !.dtlsRole = role], role)
          ELSE d

\* Mutant: the parent class is not told.
IceConnectedSilently(d, ice) == MayRunDtlsTransport(d, ice)

\* OnIceServerConnected and OnIceServerCompleted.
OnIceServerConnected(d, ice) ==
    LET ran == MayRunDtlsTransport(d, ice)
    IN  IF ran.state = "connected" THEN [ran EXCEPT !.parent = TRUE] ELSE ran

\* Mutant: the parent class is not told.
IceDisconnectedSilently(d) == d

OnIceServerDisconnected(d) == IF d.state = "connected" THEN [d EXCEPT !.parent = FALSE] ELSE d

\* The callback the ICE server made, if any; OnIceServerSelectedTuple only
\* informs the application.
OnIceEvent(d, event, ice) ==
    CASE event = "none"                       -> d
      [] event \in {"connected", "completed"} -> OnIceServerConnected(d, ice)
      [] event = "disconnected"               -> OnIceServerDisconnected(d)

\* The body of 'connect' once its parameters are parsed.  An empty list of
\* fingerprints is not refused: SetRemoteFingerprint asserts there is one.
ConnectWith(d, fingerprints, remoteRole, ice, o) ==
    LET called == [d EXCEPT !.dtlsRole = IF remoteRole = "client" THEN "server" ELSE "client",
                            !.connectCalled = TRUE]
        set    == SetRemoteFingerprint(called, o)
    IN  IF fingerprints = "empty" THEN [called EXCEPT !.aborted = TRUE]
        ELSE IF d.handshakeDone /\ set.state = "failed" THEN set
        ELSE MayRunDtlsTransport(set, ice)

---------------------------------------------------------------------------
(* Actions.                                                                *)

OnStunDataReceived ==
    /\ StunReceived
    /\ dtls' = OnIceEvent(dtls, iceEvent', iceState')

OnRtcTcpConnectionClosed ==
    /\ \E t \in Tuple : RemoveTuple(t)
    /\ dtls' = OnIceEvent(dtls, iceEvent', iceState')

\* The tuple is selected even when the data is ignored afterwards.
OnDtlsDataReceived ==
    /\ \E t \in Tuple : ForceSelectedTuple(t)
    /\ IF IsRunning(dtls)
         THEN \E o \in Received(dtls) : dtls' = ProcessDtlsData(dtls, o)
         ELSE UNCHANGED dtls

OnRtpDataReceived ==
    /\ dtls.state = "connected" /\ dtls.srtpRecv # "none"
    /\ \E t \in Tuple : ForceSelectedTuple(t)
    /\ UNCHANGED dtls

KeepIce ==
    /\ KeepTuples
    /\ response' = NoResponse
    /\ UNCHANGED <<cred, oldCred, newestUsed>>

Connect ==
    /\ ~ dtls.connectCalled
    /\ \E fingerprints \in {"one", "empty"}, remoteRole \in {"auto", "client", "server"}, o \in Outcome :
          dtls' = ConnectWith(dtls, fingerprints, remoteRole, iceState, o)
    /\ KeepIce

RestartIceRequest == RestartIce /\ UNCHANGED dtls

OnDtlsTimer ==
    /\ dtls.timer
    /\ dtls' = OnTimer(dtls)
    /\ KeepIce

\* The SCTP association sends data and SSL_write fails, also when it does so
\* in the call in which DTLS connects.
SendDataFails ==
    /\ dtls.state = "connected"
    /\ \E o \in Received(dtls) : ~ o.done /\ dtls' = SendApplicationDataFailed(dtls, o)
    /\ KeepIce

Next ==
    /\ ~ dtls.aborted
    /\ \/ OnStunDataReceived
       \/ OnRtcTcpConnectionClosed
       \/ OnDtlsDataReceived
       \/ OnRtpDataReceived
       \/ Connect
       \/ RestartIceRequest
       \/ OnDtlsTimer
       \/ SendDataFails

Spec == Init /\ [][Next]_vars

---------------------------------------------------------------------------
(* Properties.                                                             *)

\* Only a running DTLS transport has a role, a finished handshake or a timer:
\* a timeout or a late packet never meets a transport that was reset, where
\* the assertions of SetTimeout and ExtractSrtpKeys would abort the worker.
RunningHasRole ==
    /\ IsRunning(dtls) <=> dtls.localRole # "none"
    /\ dtls.handshakeDone => IsRunning(dtls)
    /\ dtls.timer => IsRunning(dtls)

\* DTLS is 'connected' only after the peer's certificate was compared with the
\* fingerprint given to connect(), in whichever order they arrived.
ConnectedMeansVerified ==
    dtls.state = "connected" => dtls.handshakeDone /\ dtls.fingerprint /\ dtls.connectCalled

\* Media is never protected with the keys of an earlier handshake, although
\* the sessions survive a reset of the DTLS transport.
KeysAreCurrent ==
    dtls.state = "connected" => dtls.srtpSend # "stale" /\ dtls.srtpRecv # "stale"

\* When media can flow, RTC::Transport knows it, and there is a tuple to send
\* it to (SendRtpPacket dereferences the selected tuple).
ParentKnowsConnected ==
    IsConnected => selectedTuple # NoTuple /\ (dtls.srtpRecv # "none" => dtls.parent)

\* The application knows the DTLS state, except when the receiving SRTP
\* session could not be created.
ApplicationKnowsState ==
    dtls.told = dtls.state \/ (dtls.state = "connected" /\ dtls.srtpRecv = "none")

\* A handshake as client is driven by the retransmission timer until OpenSSL
\* gives up.
ClientIsTimed ==
    dtls.state = "connecting" /\ dtls.localRole = "client" /\ ~ dtls.handshakeDone
        => dtls.timer \/ GivenUp(dtls)

\* While ICE is connected DTLS runs in the transport's role and in no other,
\* also when connect() comes after it was started as 'server'.
RoleIsAgreed ==
    ~ dtls.aborted /\ IsRunning(dtls) /\ IceConnected(iceState) => dtls.localRole = dtls.dtlsRole

\* DTLS runs in the agreed role or not at all, and only then has a handshake or a
\* timer.
RunsInItsRole == RunningHasRole /\ RoleIsAgreed

\* Media flows only over a verified connection, with the keys of that handshake.
ConnectionVerified == ConnectedMeansVerified /\ KeysAreCurrent

\* RTC::Transport and the application know of the connection what they have to.
EveryoneKnows == ParentKnowsConnected /\ ApplicationKnowsState

\* When media can no longer flow, RTC::Transport is told in the same step.
DisconnectionReported ==
    [][IsConnected /\ ~ IsConnected' => ~ dtls'.parent]_vars

\* The inductive invariant: the one of the ICE server, the parts above, and
\* that a fingerprint comes from connect() only and 'auto' never runs.
Inv ==
    /\ IceInv
    /\ dtls \in DtlsRecord
    /\ RunningHasRole
    /\ dtls.fingerprint => dtls.connectCalled
    /\ dtls.dtlsRole = "auto" => dtls.localRole = "none"
    /\ ConnectedMeansVerified
    /\ KeysAreCurrent
    /\ ApplicationKnowsState
    /\ ClientIsTimed
    /\ RoleIsAgreed
    /\ ParentKnowsConnected

\* The assertion at the head of SetRemoteFingerprint never fails.  The code
\* violates this: connect() accepts an empty list of fingerprints.
FingerprintProvided == ~ dtls.aborted

\* OnTimer sets the DTLS timer again, so that a handshake that is never
\* answered cannot stay 'connecting' for ever without the application being
\* told.  The code violates this once OpenSSL has given up.
TimerSetAgain ==
    dtls.state = "connecting" /\ dtls.localRole = "client" /\ ~ dtls.handshakeDone => dtls.timer
=============================================================================
