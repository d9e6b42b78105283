--------------------------- MODULE DtlsTransport ---------------------------
(***************************************************************************)
(* RTC::DtlsTransport of the worker, as operators on a record, together    *)
(* with the callbacks of its listener, RTC::WebRtcTransport.  The worker   *)
(* is single-threaded, so one libuv callback is one composition of these   *)
(* operators.  (One callback does call back: when DTLS connects, the SCTP  *)
(* association sends its first packet; that this fails at once is left to  *)
(* a step of its own.)                                                     *)
(*                                                                         *)
(* OpenSSL is external: what it does with the received data is an outcome. *)
(*   done     the info callback reported the end of a handshake            *)
(*   bad      close alert received, or a fatal error                       *)
(*   valid    the certificate matches the remote fingerprint and an SRTP   *)
(*            crypto suite was negotiated                                  *)
(*   srtp     which SRTP sessions can be created from the exported keys    *)
(*   progress a flight of the peer was complete: the count of timeouts is  *)
(*            reset (dtls1_stop_timer)                                     *)
(*   timeout  DTLSv1_get_timeout: nothing or 0 ms ("keep"), less than 30   *)
(*            seconds ("short"), or more ("long")                          *)
(***************************************************************************)
EXTENDS Naturals

CONSTANT MaxTimeouts    \* DTLS1_TMO_ALERT_COUNT: OpenSSL gives up after it

ASSUME MaxTimeoutsAssumption == MaxTimeouts \in Nat

Outcome ==
    [done : BOOLEAN, bad : BOOLEAN, valid : BOOLEAN, progress : BOOLEAN,
     srtp : {"both", "recvOnly", "none"}, timeout : {"keep", "short", "long"}]

Session == {"none", "current", "stale"}

(***************************************************************************)
(* state, localRole, handshakeDone, timer and fingerprint belong to the    *)
(* DTLS transport; dtlsRole, connectCalled and the SRTP sessions to the    *)
(* listener.  A session is stale when its keys are of an earlier           *)
(* handshake.  timeouts counts the timeouts of the current flight, above   *)
(* MaxTimeouts when OpenSSL has given up.  told is the dtlsState the       *)
(* application knows, parent is what RTC::Transport was told last, aborted *)
(* says that an MS_ASSERT failed.                                          *)
(***************************************************************************)
DtlsRecord ==
    [state : {"new", "connecting", "connected", "failed", "closed"},
     localRole : {"none", "client", "server"},
     handshakeDone : BOOLEAN, timer : BOOLEAN, timeouts : 0 .. MaxTimeouts + 1,
     fingerprint : BOOLEAN,
     dtlsRole : {"auto", "client", "server"}, connectCalled : BOOLEAN,
     srtpSend : Session, srtpRecv : Session,
     told : {"new", "connecting", "connected", "failed", "closed"},
     parent : BOOLEAN, aborted : BOOLEAN]

NewDtls ==
    [state |-> "new", localRole |-> "none",
     handshakeDone |-> FALSE, timer |-> FALSE, timeouts |-> 0, fingerprint |-> FALSE,
     dtlsRole |-> "auto", connectCalled |-> FALSE,
     srtpSend |-> "none", srtpRecv |-> "none",
     told |-> "new", parent |-> FALSE, aborted |-> FALSE]

IsRunning(d) == d.state \in {"connecting", "connected"}

---------------------------------------------------------------------------
(* The listener's callbacks.                                               *)

OnDtlsTransportConnecting(d) == [d EXCEPT !.told = "connecting"]

\* Without a receiving session the sending one is deleted and nobody is told.
OnDtlsTransportConnected(d, o) ==
    IF o.srtp = "none"
      THEN [d EXCEPT !.srtpSend = "none", !.srtpRecv = "none"]
      ELSE [d EXCEPT !.srtpSend = IF o.srtp = "both" THEN "current" ELSE "none",
                     !.srtpRecv = "current", !.told = "connected", !.parent = TRUE]

OnDtlsTransportFailed(d) == [d EXCEPT !.told = "failed"]

OnDtlsTransportClosed(d) == [d EXCEPT !.told = "closed", !.parent = FALSE]

---------------------------------------------------------------------------
(* DtlsTransport.                                                          *)

Older(session) == IF session = "current" THEN "stale" ELSE session

\* Mutant: the timer keeps running.
ResetKeepsTimer(d) ==
    IF IsRunning(d)
      THEN [d EXCEPT !.state = "new", !.localRole = "none", !.handshakeDone = FALSE,
                     !.timeouts = 0, !.srtpSend = Older(@), !.srtpRecv = Older(@)]
      ELSE d

Reset(d) ==
    IF IsRunning(d)
      THEN [d EXCEPT !.state = "new", !.localRole = "none", !.handshakeDone = FALSE, !.timer = FALSE,
                     !.timeouts = 0, !.srtpSend = Older(@), !.srtpRecv = Older(@)]
      ELSE d

Fail(d) == OnDtlsTransportFailed([Reset(d) EXCEPT !.state = "failed"])

Close(d) == OnDtlsTransportClosed([Reset(d) EXCEPT !.state = "closed"])

\* Returns false, that is, a transport that is not running, when it fails.
SetTimeout(d, timeout) ==
    CASE timeout = "keep"  -> d
      [] timeout = "short" -> [d EXCEPT !.timer = TRUE]
      [] timeout = "long"  -> Fail(d)

ExtractSrtpKeys(d, o) == OnDtlsTransportConnected([d EXCEPT !.state = "connected"], o)

ProcessHandshake(d, o) == IF o.valid THEN ExtractSrtpKeys(d, o) ELSE Fail(d)

\* Mutant: the handshake is processed before the fingerprint is known.
CheckStatusWithoutFingerprint(d, o) ==
    LET finished == [d EXCEPT !.handshakeDone = TRUE, !.timer = FALSE]
    IN  IF o.done THEN IF d.handshakeDone THEN finished ELSE ProcessHandshake(finished, o)
        ELSE IF o.bad THEN IF d.state = "connected" THEN Close(d) ELSE Fail(d)
        ELSE d

\* Returns false, that is, a transport that is not running, on a bad status.
CheckStatus(d, o) ==
    LET finished == [d EXCEPT !.handshakeDone = TRUE, !.timer = FALSE]
    IN  IF o.done THEN IF ~ d.handshakeDone /\ d.fingerprint THEN ProcessHandshake(finished, o) ELSE finished
        ELSE IF o.bad THEN IF d.state = "connected" THEN Close(d) ELSE Fail(d)
        ELSE d

ProcessDtlsData(d, o) ==
    LET read    == IF o.progress THEN [d EXCEPT !.timeouts = 0] ELSE d
        checked == CheckStatus(read, o)
    IN  IF IsRunning(checked) THEN SetTimeout(checked, o.timeout) ELSE checked

\* SSL_write failed: the only way in which sending data changes the state.
SendApplicationDataFailed(d, o) == IF d.state = "connected" THEN CheckStatus(d, o) ELSE d

SetRemoteFingerprint(d, o) ==
    LET set == [d EXCEPT !.fingerprint = TRUE]
    IN  IF d.handshakeDone /\ d.state # "connected" THEN ProcessHandshake(set, o) ELSE set

\* A change of role resets a running transport; the same role does nothing.
\* The first flight of a client has a timeout of 100 ms.
Run(d, role) ==
    LET started == OnDtlsTransportConnecting([Reset(d) EXCEPT !.localRole = role, !.state = "connecting"])
    IN  CASE d.localRole = role -> d
          [] d.localRole # role /\ role = "client" -> SetTimeout(started, "short")
          [] d.localRole # role /\ role = "server" -> started

GivenUp(d) == d.timeouts > MaxTimeouts

\* The timer is one-shot.  OpenSSL retransmits the flight with a longer
\* timeout, of 6.4 seconds at most (onSslDtlsTimer), or it gives up and its
\* timer stays expired: the remaining time is 0 ms.
OnTimer(d) ==
    LET fired   == [d EXCEPT !.timer = FALSE]
        handled == [fired EXCEPT !.timeouts = IF GivenUp(d) THEN @ ELSE @ + 1]
    IN  IF d.handshakeDone THEN fired
        ELSE SetTimeout(handled, IF GivenUp(handled) THEN "keep" ELSE "short")
=============================================================================
