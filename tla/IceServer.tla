----------------------------- MODULE IceServer -----------------------------
(***************************************************************************)
(* RTC::IceServer of the worker: the ICE-Lite endpoint of a WebRTC         *)
(* transport.  It answers STUN Binding Requests, keeps the list of valid   *)
(* transport tuples and the selected one among them, and survives a        *)
(* restart of the ICE credentials.                                         *)
(*                                                                         *)
(* usernameFragment and password are always replaced together by fresh     *)
(* random strings (WebRtcTransport, TRANSPORT_RESTART_ICE), so a pair is   *)
(* represented by the number of the restart that created it.  A tuple is   *)
(* identified by what TransportTuple::Compare compares.                    *)
(***************************************************************************)
EXTENDS Integers, Sequences

CONSTANTS
    Tuple,          \* the transport tuples (local socket and remote address)
    MaxRestarts     \* bound on ICE restarts

ASSUME MaxRestartsAssumption == MaxRestarts \in Nat

NoTuple == "none"
ASSUME NoTupleAssumption == NoTuple \notin Tuple
NoCred == -1
Cred == 0 .. MaxRestarts

VARIABLES
    iceState, tuples, selectedTuple,
    cred,       \* usernameFragment and password
    oldCred     \* oldUsernameFragment and oldPassword, NoCred when empty

(***************************************************************************)
(* History: the response sent and the state change announced by the last   *)
(* step, the selected tuple the listener knows of, and the newest          *)
(* credentials the peer has used.                                          *)
(***************************************************************************)
VARIABLES response, iceEvent, announced, newestUsed

iceVars == <<iceState, tuples, selectedTuple, cred, oldCred, response, iceEvent, announced, newestUsed>>

\* code 0: no response; key: what the request was authenticated with, signed:
\* what the response is authenticated with.
NoResponse == [code |-> 0, key |-> NoCred, signed |-> NoCred]
Refusal(code, key) == [code |-> code, key |-> key, signed |-> NoCred]
Response == [code : {0, 200, 400, 401, 487}, key : Cred \cup {NoCred}, signed : Cred \cup {NoCred}]

IceTypeOK ==
    /\ iceState \in {"new", "connected", "completed", "disconnected"}
    /\ tuples \in Seq(Tuple)
    /\ selectedTuple \in Tuple \cup {NoTuple}
    /\ cred \in Cred /\ oldCred \in Cred \cup {NoCred}
    /\ response \in Response
    /\ iceEvent \in {"none", "connected", "completed", "disconnected"}
    /\ announced \in Tuple \cup {NoTuple}
    /\ newestUsed \in Cred \cup {NoCred}

IceInit ==
    /\ iceState = "new" /\ tuples = <<>> /\ selectedTuple = NoTuple
    /\ cred = 0 /\ oldCred = NoCred
    /\ response = NoResponse /\ iceEvent = "none" /\ announced = NoTuple /\ newestUsed = NoCred

---------------------------------------------------------------------------
(* Pieces of the handlers.                                                 *)

Stored == {tuples[i] : i \in DOMAIN tuples}

\* HasTuple returns at once when there is no selected tuple.
HasTuple(t) == selectedTuple # NoTuple /\ t \in Stored

IsValidTuple(t) == HasTuple(t)

AddTuple(t) == tuples' = <<t>> \o tuples

AddTupleIfNew(t) == IF HasTuple(t) THEN UNCHANGED tuples ELSE AddTuple(t)

\* The listener is told only of a change.
SetSelectedTuple(t) ==
    /\ selectedTuple' = t
    /\ announced' = IF t = selectedTuple THEN announced ELSE t

HandleTuple(t, useCandidate) ==
    \/ /\ iceState \in {"new", "disconnected"}
       /\ AddTuple(t)
       /\ SetSelectedTuple(t)
       /\ iceState' = IF useCandidate THEN "completed" ELSE "connected"
       /\ iceEvent' = iceState'
    \/ /\ iceState \in {"connected", "completed"}
       /\ ~ useCandidate
       /\ AddTupleIfNew(t)
       /\ iceEvent' = "none"
       /\ UNCHANGED <<iceState, selectedTuple, announced>>
    \/ /\ iceState \in {"connected", "completed"}
       /\ useCandidate
       /\ AddTupleIfNew(t)
       /\ SetSelectedTuple(t)
       /\ iceState' = "completed"
       /\ iceEvent' = IF iceState = "connected" THEN "completed" ELSE "none"

---------------------------------------------------------------------------
(* ProcessStunPacket, one action per outcome.                              *)

KeepTuples == UNCHANGED <<iceState, tuples, selectedTuple, announced>> /\ iceEvent' = "none"

\* Mutant: the old credentials stay valid after the new ones were used.
OldCredKept(key) == oldCred

\* The old credentials after a request authenticated with key.
OldCredAfter(key) == IF key = cred THEN NoCred ELSE oldCred

\* The password the response is authenticated with.
SigningCred(old) == IF old = NoCred THEN cred ELSE old

\* Wrong method, no fingerprint or missing attributes in a request: 400.
BadRequest ==
    /\ response' = Refusal(400, NoCred)
    /\ KeepTuples
    /\ UNCHANGED <<cred, oldCred, newestUsed>>

\* An indication, a response, or a packet that is no request: ignored.
IgnoredStunPacket ==
    /\ response' = NoResponse
    /\ KeepTuples
    /\ UNCHANGED <<cred, oldCred, newestUsed>>

Accepts(key) == key = cred \/ (oldCred # NoCred /\ key = oldCred)

Unauthorized(key) ==
    /\ ~ Accepts(key)
    /\ response' = Refusal(401, key)
    /\ KeepTuples
    /\ UNCHANGED <<cred, oldCred, newestUsed>>

NewestUsedAfter(key) == newestUsed' = IF key > newestUsed THEN key ELSE newestUsed

RoleConflict(key) ==
    /\ Accepts(key)
    /\ oldCred' = OldCredAfter(key)
    /\ response' = Refusal(487, key)
    /\ KeepTuples
    /\ NewestUsedAfter(key)
    /\ UNCHANGED cred

BindingRequest(t, key, useCandidate) ==
    /\ Accepts(key)
    /\ oldCred' = OldCredAfter(key)
    /\ response' = [code |-> 200, key |-> key, signed |-> SigningCred(OldCredAfter(key))]
    /\ HandleTuple(t, useCandidate)
    /\ NewestUsedAfter(key)
    /\ UNCHANGED cred

---------------------------------------------------------------------------
(* The other operations.                                                   *)

RestartIce ==
    /\ cred < MaxRestarts
    /\ oldCred' = cred
    /\ cred' = cred + 1
    /\ response' = NoResponse
    /\ KeepTuples
    /\ UNCHANGED newestUsed

\* The list without its k-th element.
Without(s, k) == [i \in 1 .. Len(s) - 1 |-> IF i < k THEN s[i] ELSE s[i + 1]]

\* Mutant: losing the selected tuple always disconnects.
DisconnectAlways ==
    /\ selectedTuple' = NoTuple
    /\ announced' = NoTuple
    /\ iceState' = "disconnected"
    /\ iceEvent' = "disconnected"

\* The first tuple becomes the selected one; without tuples ICE disconnects.
Reselect ==
    IF tuples' # <<>>
      THEN /\ SetSelectedTuple(tuples'[1])
           /\ iceEvent' = "none"
           /\ UNCHANGED iceState
      ELSE /\ selectedTuple' = NoTuple
           /\ announced' = NoTuple
           /\ iceState' = "disconnected"
           /\ iceEvent' = "disconnected"

RemoveTuple(t) ==
    /\ t \in Stored
    /\ \E k \in DOMAIN tuples :
          /\ tuples[k] = t /\ \A j \in 1 .. k - 1 : tuples[j] # t
          /\ tuples' = Without(tuples, k)
    /\ IF t = selectedTuple
         THEN Reselect
         ELSE /\ iceEvent' = "none"
              /\ UNCHANGED <<iceState, selectedTuple, announced>>
    /\ response' = NoResponse
    /\ UNCHANGED <<cred, oldCred, newestUsed>>

\* Callers check IsValidTuple first.
ForceSelectedTuple(t) ==
    /\ IsValidTuple(t)
    /\ SetSelectedTuple(t)
    /\ iceEvent' = "none"
    /\ response' = NoResponse
    /\ UNCHANGED <<iceState, tuples, cred, oldCred, newestUsed>>

StunReceived ==
    \/ BadRequest
    \/ IgnoredStunPacket
    \/ \E key \in Cred : Unauthorized(key) \/ RoleConflict(key)
    \/ \E t \in Tuple, key \in Cred, useCandidate \in BOOLEAN : BindingRequest(t, key, useCandidate)

IceNext ==
    \/ StunReceived
    \/ RestartIce
    \/ \E t \in Tuple : RemoveTuple(t) \/ ForceSelectedTuple(t)

IceSpec == IceInit /\ [][IceNext]_iceVars

---------------------------------------------------------------------------
(* Properties.                                                             *)

\* The assertions of HandleTuple and ForceSelectedTuple: there are tuples, and
\* a selected one among them, exactly in the states 'connected' and
\* 'completed', however requests and closed connections interleave.
StateMatchesTuples ==
    /\ iceState \in {"new", "disconnected"} <=> tuples = <<>>
    /\ tuples = <<>> <=> selectedTuple = NoTuple
    /\ selectedTuple # NoTuple => selectedTuple \in Stored

\* A tuple is stored once, so RemoveTuple leaves no copy of a closed
\* connection behind that could be selected later.
TuplesDistinct ==
    \A i, j \in DOMAIN tuples : tuples[i] = tuples[j] => i = j

\* The listener always knows the selected tuple: the one it was told last,
\* none after a disconnection.
SelectionAnnounced == announced = selectedTuple

\* A success response is authenticated with the credentials of the request it
\* answers, before, during and after an ICE restart: the peer can verify it.
PeerCanVerify == response.code = 200 => response.signed = response.key

\* The old credentials are those of the restart before, and the peer has used
\* none newer than those still accepted.
CredentialsOrdered ==
    /\ newestUsed <= cred
    /\ oldCred # NoCred => newestUsed <= oldCred /\ oldCred < cred

\* What is accepted is not older than what the peer has used.
NotOlder == response'.code \in {200, 487} => response'.key >= newestUsed

\* Once the peer has used newer credentials, older ones are refused.
NoCredentialRollback == [][NotOlder]_iceVars

\* Both, for every order of requests with old and new credentials around a
\* restart: what is accepted can be verified, and nothing older comes back.
CredentialsInOrder == [][PeerCanVerify' /\ NotOlder]_iceVars

\* The inductive invariant.
IceInv ==
    /\ IceTypeOK
    /\ StateMatchesTuples
    /\ TuplesDistinct
    /\ SelectionAnnounced
    /\ PeerCanVerify
    /\ CredentialsOrdered
=============================================================================
