---------------------- MODULE WebRtcTransportProofs ----------------------
(***************************************************************************)
(* Proofs about the ICE server and the WebRTC transport, for every set of  *)
(* tuples and every number of ICE restarts: the inductive invariant IceInv *)
(* of the server alone; the operators of the DTLS transport keep its record*)
(* consistent; the server announces its state changes; and together they   *)
(* give the invariant Inv and its consequences.                            *)
(***************************************************************************)
EXTENDS WebRtcTransport, TLAPS

-----------------------------------------------------------------------------
(* The ICE server alone: IceInv and its consequences.                      *)

\* Adding a tuple in front keeps a sequence of distinct tuples, and stores
\* exactly the new one besides the old ones.
LEMMA FrontAdded ==
    ASSUME tuples \in Seq(Tuple), NEW t \in Tuple, tuples' = <<t>> \o tuples
    PROVE  /\ tuples' \in Seq(Tuple) /\ tuples' # <<>>
           /\ t \in Stored'
           /\ \A u \in Stored : u \in Stored'
           /\ t \notin Stored /\ TuplesDistinct => TuplesDistinct'
  <1>1. tuples' \in Seq(Tuple) /\ Len(tuples') = Len(tuples) + 1
    OBVIOUS
  <1>2. \A i \in 1 .. Len(tuples') : tuples'[i] = IF i = 1 THEN t ELSE tuples[i - 1]
    BY <1>1
  <1>3. t \in Stored'
    BY <1>1, <1>2 DEF Stored
  <1>4. ASSUME NEW u \in Stored PROVE u \in Stored'
    <2>1. PICK i \in DOMAIN tuples : u = tuples[i]
      BY DEF Stored
    <2>2. i + 1 \in DOMAIN tuples' /\ tuples'[i + 1] = u
      BY <1>1, <1>2, <2>1
    <2> QED
      BY <2>2 DEF Stored
  <1>5. ASSUME t \notin Stored, TuplesDistinct PROVE TuplesDistinct'
    <2>1. \A i \in 1 .. Len(tuples) : tuples[i] # t
      BY <1>5 DEF Stored
    <2>2. ASSUME NEW i \in 1 .. Len(tuples'), NEW j \in 1 .. Len(tuples'), tuples'[i] = tuples'[j]
          PROVE  i = j
      BY <1>1, <1>2, <1>5, <2>1, <2>2 DEF TuplesDistinct
    <2> QED
      BY <1>1, <2>2 DEF TuplesDistinct
  <1> QED
    BY <1>1, <1>3, <1>4, <1>5

\* Removing the k-th of distinct tuples removes that tuple and no other.
LEMMA OneRemoved ==
    ASSUME tuples \in Seq(Tuple), TuplesDistinct, NEW k \in DOMAIN tuples, tuples' = Without(tuples, k)
    PROVE  /\ tuples' \in Seq(Tuple)
           /\ TuplesDistinct'
           /\ \A u \in Stored : u # tuples[k] => u \in Stored'
           /\ tuples' # <<>> => tuples'[1] \in Tuple /\ tuples'[1] \in Stored' /\ tuples'[1] # tuples[k]
  <1>1. /\ Len(tuples) \in Nat /\ k \in 1 .. Len(tuples)
        /\ \A i \in 1 .. Len(tuples) : tuples[i] \in Tuple
    OBVIOUS
  <1>2. tuples' \in Seq(Tuple) /\ Len(tuples') = Len(tuples) - 1
    BY <1>1 DEF Without
  <1>3. \A i \in 1 .. Len(tuples') : tuples'[i] = IF i < k THEN tuples[i] ELSE tuples[i + 1]
    BY <1>1, <1>2 DEF Without
  <1>4. TuplesDistinct'
    BY <1>1, <1>2, <1>3 DEF TuplesDistinct
  <1>5. ASSUME NEW u \in Stored, u # tuples[k] PROVE u \in Stored'
    <2>1. PICK i \in DOMAIN tuples : u = tuples[i]
      BY DEF Stored
    <2>2. i # k
      BY <1>5, <2>1
    <2>3. CASE i < k
      <3>1. i \in DOMAIN tuples' /\ tuples'[i] = u
        BY <1>1, <1>2, <1>3, <2>1, <2>3
      <3> QED
        BY <3>1 DEF Stored
    <2>4. CASE i > k
      <3>1. i - 1 \in DOMAIN tuples' /\ tuples'[i - 1] = u
        BY <1>1, <1>2, <1>3, <2>1, <2>4
      <3> QED
        BY <3>1 DEF Stored
    <2> QED
      BY <1>1, <2>1, <2>2, <2>3, <2>4
  <1>6. ASSUME tuples' # <<>>
        PROVE  tuples'[1] \in Tuple /\ tuples'[1] \in Stored' /\ tuples'[1] # tuples[k]
    <2>1. 1 \in 1 .. Len(tuples')
      BY <1>2, <1>6
    <2>2. tuples'[1] \in Stored'
      BY <1>2, <2>1 DEF Stored
    <2>3. tuples'[1] # tuples[k]
      BY <1>1, <1>2, <1>3, <2>1 DEF TuplesDistinct
    <2> QED
      BY <1>2, <2>1, <2>2, <2>3
  <1> QED
    BY <1>2, <1>4, <1>5, <1>6

---------------------------------------------------------------------------
\* The part of IceInv about tuples, and the part about credentials.
TuplePart ==
    /\ iceState \in {"new", "connected", "completed", "disconnected"}
    /\ tuples \in Seq(Tuple)
    /\ selectedTuple \in Tuple \cup {NoTuple}
    /\ iceEvent \in {"none", "connected", "completed", "disconnected"}
    /\ announced \in Tuple \cup {NoTuple}
    /\ StateMatchesTuples /\ TuplesDistinct /\ SelectionAnnounced

CredentialPart ==
    /\ cred \in Cred /\ oldCred \in Cred \cup {NoCred}
    /\ response \in Response
    /\ newestUsed \in Cred \cup {NoCred}
    /\ PeerCanVerify /\ CredentialsOrdered

LEMMA Parts == IceInv <=> TuplePart /\ CredentialPart
  BY DEF IceInv, IceTypeOK, TuplePart, CredentialPart

\* A request that keeps the tuples keeps what is known of them.
LEMMA TuplesKept ==
    ASSUME TuplePart, KeepTuples
    PROVE  TuplePart'
  BY DEF TuplePart, KeepTuples, StateMatchesTuples, TuplesDistinct, SelectionAnnounced, Stored

\* HandleTuple stores a tuple at most once and selects a stored one.
LEMMA HandleTupleStep ==
    ASSUME TuplePart, NEW t \in Tuple, NEW useCandidate \in BOOLEAN, HandleTuple(t, useCandidate)
    PROVE  TuplePart'
  <1> USE NoTupleAssumption
  <1>1. CASE iceState \in {"new", "disconnected"}
    <2>1. tuples = <<>> /\ selectedTuple = NoTuple
      BY <1>1 DEF TuplePart, StateMatchesTuples
    <2>2. /\ tuples' = <<t>> \o tuples
          /\ selectedTuple' = t /\ announced' = t
          /\ iceState' \in {"connected", "completed"} /\ iceEvent' = iceState'
      BY <1>1, <2>1 DEF HandleTuple, AddTuple, SetSelectedTuple
    <2>3. t \notin Stored
      BY <2>1 DEF Stored
    <2> QED
      BY <2>2, <2>3, FrontAdded DEF TuplePart, StateMatchesTuples, SelectionAnnounced
  <1>2. CASE iceState \in {"connected", "completed"}
    <2>1. selectedTuple \in Tuple /\ selectedTuple # NoTuple /\ selectedTuple \in Stored /\ tuples # <<>>
      BY <1>2 DEF TuplePart, StateMatchesTuples
    <2>2. AddTupleIfNew(t)
      BY <1>2 DEF HandleTuple
    <2>3. /\ tuples' \in Seq(Tuple) /\ tuples' # <<>> /\ TuplesDistinct'
          /\ t \in Stored' /\ selectedTuple \in Stored'
      <3>1. CASE HasTuple(t)
        <4>1. tuples' = tuples /\ t \in Stored
          BY <2>2, <3>1 DEF AddTupleIfNew, HasTuple
        <4> QED
          BY <2>1, <4>1 DEF TuplePart, TuplesDistinct, Stored
      <3>2. CASE ~ HasTuple(t)
        <4>1. tuples' = <<t>> \o tuples /\ t \notin Stored
          BY <2>1, <2>2, <3>2 DEF AddTupleIfNew, AddTuple, HasTuple
        <4> QED
          BY <2>1, <4>1, FrontAdded DEF TuplePart
      <3> QED
        BY <3>1, <3>2
    <2>4. /\ iceState' \in {"connected", "completed"}
          /\ iceEvent' \in {"none", "completed"}
          /\ \/ selectedTuple' = selectedTuple /\ announced' = announced
             \/ selectedTuple' = t /\ announced' = IF t = selectedTuple THEN announced ELSE t
      BY <1>2 DEF HandleTuple, SetSelectedTuple
    <2>5. selectedTuple' \in Tuple /\ selectedTuple' \in Stored' /\ announced' = selectedTuple'
      BY <2>1, <2>3, <2>4 DEF TuplePart, SelectionAnnounced
    <2> QED
      BY <2>3, <2>4, <2>5 DEF TuplePart, StateMatchesTuples, SelectionAnnounced
  <1> QED
    BY <1>1, <1>2 DEF TuplePart

\* RemoveTuple never leaves the removed tuple selected.
LEMMA RemoveTupleStep ==
    ASSUME TuplePart, NEW t \in Tuple, RemoveTuple(t)
    PROVE  TuplePart'
  <1> USE NoTupleAssumption
  <1>1. PICK k \in DOMAIN tuples : tuples[k] = t /\ tuples' = Without(tuples, k)
    BY DEF RemoveTuple
  <1>2. /\ tuples' \in Seq(Tuple)
        /\ TuplesDistinct'
        /\ \A u \in Stored : u # t => u \in Stored'
        /\ tuples' # <<>> => tuples'[1] \in Tuple /\ tuples'[1] \in Stored' /\ tuples'[1] # t
    BY <1>1, OneRemoved DEF TuplePart
  <1>3. tuples # <<>>
    BY <1>1 DEF TuplePart
  <1>4. iceState \in {"connected", "completed"} /\ selectedTuple \in Tuple /\ selectedTuple \in Stored
    BY <1>3 DEF TuplePart, StateMatchesTuples
  <1>5. CASE t = selectedTuple /\ tuples' # <<>>
    <2>1. /\ selectedTuple' = tuples'[1] /\ announced' = tuples'[1]
          /\ iceState' = iceState /\ iceEvent' = "none"
      BY <1>2, <1>5 DEF RemoveTuple, Reselect, SetSelectedTuple
    <2> QED
      BY <1>2, <1>4, <1>5, <2>1 DEF TuplePart, StateMatchesTuples, SelectionAnnounced
  <1>6. CASE t = selectedTuple /\ tuples' = <<>>
    <2>1. /\ selectedTuple' = NoTuple /\ announced' = NoTuple
          /\ iceState' = "disconnected" /\ iceEvent' = "disconnected"
      BY <1>6 DEF RemoveTuple, Reselect
    <2> QED
      BY <1>2, <1>6, <2>1 DEF TuplePart, StateMatchesTuples, SelectionAnnounced
  <1>7. CASE t # selectedTuple
    <2>1. /\ selectedTuple' = selectedTuple /\ announced' = announced
          /\ iceState' = iceState /\ iceEvent' = "none"
      BY <1>7 DEF RemoveTuple
    <2>2. selectedTuple \in Stored'
      BY <1>2, <1>4, <1>7
    <2>3. tuples' # <<>>
      BY <1>2, <2>2 DEF Stored
    <2> QED
      BY <1>2, <1>4, <2>1, <2>2, <2>3 DEF TuplePart, StateMatchesTuples, SelectionAnnounced
  <1> QED
    BY <1>5, <1>6, <1>7

\* Only a stored tuple is forced.
LEMMA ForceStep ==
    ASSUME TuplePart, NEW t \in Tuple, ForceSelectedTuple(t)
    PROVE  TuplePart'
  <1>1. /\ selectedTuple # NoTuple /\ t \in Stored
        /\ selectedTuple' = t /\ announced' = IF t = selectedTuple THEN announced ELSE t
        /\ UNCHANGED <<iceState, tuples>> /\ iceEvent' = "none"
    BY DEF ForceSelectedTuple, IsValidTuple, HasTuple, SetSelectedTuple
  <1>2. Stored' = Stored /\ (TuplesDistinct <=> TuplesDistinct')
    BY <1>1 DEF Stored, TuplesDistinct
  <1> QED
    BY <1>1, <1>2, NoTupleAssumption DEF TuplePart, StateMatchesTuples, SelectionAnnounced

---------------------------------------------------------------------------
\* A response carries the credentials of its request, and the order of the
\* credentials is kept, in every answer to a STUN packet.
LEMMA AnswerStep ==
    ASSUME CredentialPart, NEW key \in Cred, Accepts(key),
           oldCred' = OldCredAfter(key), NewestUsedAfter(key), cred' = cred,
           \/ response' = Refusal(487, key)
           \/ response' = [code |-> 200, key |-> key, signed |-> SigningCred(OldCredAfter(key))]
    PROVE  CredentialPart'
  <1> USE MaxRestartsAssumption
  <1>1. cred \in Int /\ key \in Int /\ newestUsed \in Int /\ NoCred \notin Cred
    BY DEF CredentialPart, Cred, NoCred
  <1>2. SigningCred(OldCredAfter(key)) = key
    BY <1>1 DEF SigningCred, OldCredAfter, Accepts, CredentialPart, CredentialsOrdered
  <1>3. response' \in Response /\ PeerCanVerify'
    BY <1>2 DEF Response, Refusal, PeerCanVerify
  <1>4. /\ newestUsed' \in Cred \cup {NoCred} /\ oldCred' \in Cred \cup {NoCred}
        /\ CredentialsOrdered'
    BY <1>1 DEF CredentialPart, CredentialsOrdered, NewestUsedAfter, OldCredAfter, Accepts, Cred, NoCred
  <1> QED
    BY <1>3, <1>4 DEF CredentialPart

\* Steps that keep the credentials and send no success response.
LEMMA CredentialsKept ==
    ASSUME CredentialPart, UNCHANGED <<cred, oldCred, newestUsed>>,
           \/ response' = NoResponse
           \/ response' = Refusal(400, NoCred)
           \/ \E key \in Cred : response' = Refusal(401, key)
    PROVE  CredentialPart'
  <1>1. response' \in Response /\ PeerCanVerify'
    BY DEF Response, Refusal, NoResponse, PeerCanVerify
  <1> QED
    BY <1>1 DEF CredentialPart, CredentialsOrdered

LEMMA RestartStep ==
    ASSUME CredentialPart, RestartIce
    PROVE  CredentialPart'
  <1>1. response' \in Response /\ PeerCanVerify'
    BY DEF RestartIce, Response, NoResponse, PeerCanVerify
  <1>2. /\ cred' \in Cred /\ oldCred' \in Cred /\ newestUsed' = newestUsed
        /\ CredentialsOrdered'
    BY MaxRestartsAssumption DEF CredentialPart, CredentialsOrdered, RestartIce, Cred, NoCred
  <1> QED
    BY <1>1, <1>2 DEF CredentialPart

\* Every answer to a STUN packet preserves the invariant.
LEMMA StunStep ==
    ASSUME IceInv, StunReceived
    PROVE  IceInv'
  <1>1. TuplePart /\ CredentialPart
    BY Parts
  <1>2. CASE BadRequest
    BY <1>1, <1>2, Parts, TuplesKept, CredentialsKept DEF BadRequest, TuplePart, CredentialPart, IceInv, IceTypeOK
  <1>3. CASE IgnoredStunPacket
    BY <1>1, <1>3, Parts, TuplesKept, CredentialsKept DEF IgnoredStunPacket, TuplePart, CredentialPart, IceInv, IceTypeOK
  <1>4. ASSUME NEW key \in Cred, Unauthorized(key) PROVE IceInv'
    <2>1. TuplePart' /\ CredentialPart'
      BY <1>1, <1>4, TuplesKept, CredentialsKept DEF Unauthorized
    <2> QED
      BY <2>1 DEF TuplePart, CredentialPart, IceInv, IceTypeOK
  <1>5. ASSUME NEW key \in Cred, RoleConflict(key) PROVE IceInv'
    <2>1. TuplePart' /\ CredentialPart'
      BY <1>1, <1>5, TuplesKept, AnswerStep DEF RoleConflict
    <2> QED
      BY <2>1 DEF TuplePart, CredentialPart, IceInv, IceTypeOK
  <1>6. ASSUME NEW t \in Tuple, NEW key \in Cred, NEW useCandidate \in BOOLEAN,
               BindingRequest(t, key, useCandidate)
        PROVE  IceInv'
    <2>1. TuplePart'
      BY <1>1, <1>6, HandleTupleStep DEF BindingRequest
    <2>2. CredentialPart'
      BY <1>1, <1>6, AnswerStep DEF BindingRequest
    <2> QED
      BY <2>1, <2>2 DEF TuplePart, CredentialPart, IceInv, IceTypeOK
  <1> QED
    BY <1>2, <1>3, <1>4, <1>5, <1>6 DEF StunReceived

LEMMA RestartIceStep ==
    ASSUME IceInv, RestartIce
    PROVE  IceInv'
  <1>1. TuplePart' /\ CredentialPart'
    BY Parts, TuplesKept, RestartStep DEF RestartIce
  <1> QED
    BY <1>1 DEF TuplePart, CredentialPart, IceInv, IceTypeOK

LEMMA RemoveStep ==
    ASSUME IceInv, NEW t \in Tuple, RemoveTuple(t)
    PROVE  IceInv'
  <1>1. TuplePart'
    BY Parts, RemoveTupleStep
  <1>2. CredentialPart'
    BY Parts, CredentialsKept DEF RemoveTuple
  <1> QED
    BY <1>1, <1>2 DEF TuplePart, CredentialPart, IceInv, IceTypeOK

LEMMA ForceSelectedStep ==
    ASSUME IceInv, NEW t \in Tuple, ForceSelectedTuple(t)
    PROVE  IceInv'
  <1>1. TuplePart'
    BY Parts, ForceStep
  <1>2. CredentialPart'
    BY Parts, CredentialsKept DEF ForceSelectedTuple
  <1> QED
    BY <1>1, <1>2 DEF TuplePart, CredentialPart, IceInv, IceTypeOK

\* A step that touches nothing of the ICE server but its history.
LEMMA IdleStep ==
    ASSUME IceInv, KeepTuples, response' = NoResponse, UNCHANGED <<cred, oldCred, newestUsed>>
    PROVE  IceInv'
  <1>1. TuplePart' /\ CredentialPart'
    BY Parts, TuplesKept, CredentialsKept
  <1> QED
    BY <1>1 DEF TuplePart, CredentialPart, IceInv, IceTypeOK

LEMMA StutterStep ==
    ASSUME IceInv, UNCHANGED iceVars
    PROVE  IceInv'
  BY DEF iceVars, IceInv, IceTypeOK, StateMatchesTuples, TuplesDistinct, SelectionAnnounced,
         PeerCanVerify, CredentialsOrdered, Stored

LEMMA IceInitial == IceInit => IceInv
  <1>1. ASSUME IceInit PROVE TuplePart
    BY <1>1, NoTupleAssumption DEF IceInit, TuplePart, StateMatchesTuples, TuplesDistinct, SelectionAnnounced
  <1>2. ASSUME IceInit PROVE CredentialPart
    BY <1>2, MaxRestartsAssumption
    DEF IceInit, CredentialPart, Cred, NoCred, Response, NoResponse, PeerCanVerify, CredentialsOrdered
  <1> QED
    BY <1>1, <1>2, Parts

LEMMA IceInductive ==
    ASSUME IceInv, [IceNext]_iceVars
    PROVE  IceInv'
  BY StunStep, RestartIceStep, RemoveStep, ForceSelectedStep, StutterStep DEF IceNext

---------------------------------------------------------------------------
\* The invariant holds in every reachable state of the ICE server.
THEOREM IceInvariance == IceSpec => []IceInv
  <1>1. IceInit => IceInv
    BY IceInitial
  <1>2. IceInv /\ [IceNext]_iceVars => IceInv'
    BY IceInductive
  <1> QED
    BY <1>1, <1>2, PTL DEF IceSpec

\* The assertions of HandleTuple and ForceSelectedTuple hold: there is a
\* selected, stored tuple exactly in the states 'connected' and 'completed'.
THEOREM TuplesMatchState == IceSpec => []StateMatchesTuples
  <1>1. IceInv => StateMatchesTuples
    BY DEF IceInv
  <1> QED
    BY <1>1, IceInvariance, PTL

\* No tuple is stored twice, so a closed connection leaves no copy behind.
THEOREM TuplesStoredOnce == IceSpec => []TuplesDistinct
  <1>1. IceInv => TuplesDistinct
    BY DEF IceInv
  <1> QED
    BY <1>1, IceInvariance, PTL

\* Success responses carry the credentials of the request they answer.
THEOREM ResponsesVerifiable == IceSpec => []PeerCanVerify
  <1>1. IceInv => PeerCanVerify
    BY DEF IceInv
  <1> QED
    BY <1>1, IceInvariance, PTL

\* Credentials older than the newest the peer has used are refused.
THEOREM CredentialsNeverRollBack == IceSpec => NoCredentialRollback
  <1>1. ASSUME IceInv, [IceNext]_iceVars
        PROVE  [NotOlder]_iceVars
    <2>1. /\ cred \in Int /\ newestUsed \in Int /\ newestUsed <= cred
          /\ oldCred # NoCred => newestUsed <= oldCred
      BY <1>1, MaxRestartsAssumption DEF IceInv, IceTypeOK, CredentialsOrdered, Cred, NoCred
    <2>2. ASSUME NEW key \in Cred, Accepts(key) PROVE key >= newestUsed
      BY <2>1, <2>2, MaxRestartsAssumption DEF Accepts, Cred
    <2>3. CASE BadRequest \/ IgnoredStunPacket
      BY <2>3 DEF BadRequest, IgnoredStunPacket, Refusal, NoResponse, NotOlder
    <2>4. ASSUME NEW key \in Cred, Unauthorized(key) PROVE response'.code = 401
      BY <2>4 DEF Unauthorized, Refusal
    <2>5. ASSUME NEW key \in Cred, RoleConflict(key) PROVE response'.key >= newestUsed
      BY <2>2, <2>5 DEF RoleConflict, Refusal
    <2>6. ASSUME NEW t \in Tuple, NEW key \in Cred, NEW useCandidate \in BOOLEAN,
                 BindingRequest(t, key, useCandidate)
          PROVE  response'.key >= newestUsed
      BY <2>2, <2>6 DEF BindingRequest
    <2>7. ASSUME NEW t \in Tuple, RemoveTuple(t) \/ ForceSelectedTuple(t) PROVE response' = NoResponse
      BY <2>7 DEF RemoveTuple, ForceSelectedTuple
    <2>8. RestartIce => response' = NoResponse
      BY DEF RestartIce
    <2> QED
      BY <1>1, <2>3, <2>4, <2>5, <2>6, <2>7, <2>8 DEF IceNext, StunReceived, NoResponse, NotOlder
  <1> QED
    BY <1>1, IceInvariance, PTL DEF IceSpec, NoCredentialRollback

\* Accepted requests are answered verifiably, and older credentials never return.
THEOREM CredentialsAlwaysInOrder == IceSpec => CredentialsInOrder
  BY ResponsesVerifiable, CredentialsNeverRollBack, PTL DEF CredentialsInOrder, NoCredentialRollback

-----------------------------------------------------------------------------
(* The transport.                                                          *)

\* What every operator of the DTLS transport keeps: the invariants of the
\* record that do not depend on the ICE server.
Consistent(d) ==
    /\ d \in DtlsRecord
    /\ IsRunning(d) <=> d.localRole # "none"
    /\ d.handshakeDone => IsRunning(d)
    /\ d.timer => IsRunning(d)
    /\ d.fingerprint => d.connectCalled
    /\ d.dtlsRole = "auto" => d.localRole = "none"
    /\ d.state = "connected" => d.handshakeDone /\ d.fingerprint /\ d.connectCalled
    /\ d.state = "connected" => d.srtpSend # "stale" /\ d.srtpRecv # "stale"
    /\ d.told = d.state \/ (d.state = "connected" /\ d.srtpRecv = "none")
    /\ d.state = "connecting" /\ d.localRole = "client" /\ ~ d.handshakeDone => d.timer \/ GivenUp(d)

\* Media can flow through the record only if its parent was told.
Told(d) == d.state = "connected" /\ d.srtpRecv # "none" => d.parent

\* Reset leaves a transport without role, handshake and timer.
LEMMA ResetResult ==
    ASSUME NEW d, Consistent(d)
    PROVE  LET r == Reset(d)
           IN  /\ r \in DtlsRecord
               /\ r.localRole = "none" /\ ~ r.handshakeDone /\ ~ r.timer
               /\ r.dtlsRole = d.dtlsRole /\ r.connectCalled = d.connectCalled
               /\ r.fingerprint = d.fingerprint /\ r.aborted = d.aborted
               /\ r.parent = d.parent
  <1>1. \A x \in Session : Older(x) \in Session
    BY DEF Older, Session
  <1>2. CASE IsRunning(d)
    <2>1. 0 \in 0 .. MaxTimeouts + 1
      BY MaxTimeoutsAssumption
    <2>2. Older(d.srtpSend) \in Session /\ Older(d.srtpRecv) \in Session
      BY <1>1 DEF Consistent, DtlsRecord
    <2>3. Reset(d) = [d EXCEPT !.state = "new", !.localRole = "none", !.handshakeDone = FALSE,
                               !.timer = FALSE, !.timeouts = 0,
                               !.srtpSend = Older(d.srtpSend), !.srtpRecv = Older(d.srtpRecv)]
      BY <1>2 DEF Reset, Consistent, DtlsRecord
    <2> QED
      BY <2>1, <2>2, <2>3 DEF Consistent, DtlsRecord
  <1>3. CASE ~ IsRunning(d)
    BY <1>3 DEF Reset, Consistent, DtlsRecord
  <1> QED
    BY <1>2, <1>3

LEMMA FailConsistent ==
    ASSUME NEW d, Consistent(d)
    PROVE  /\ Consistent(Fail(d))
           /\ Fail(d).state = "failed"
           /\ Fail(d).dtlsRole = d.dtlsRole /\ Fail(d).aborted = d.aborted
  <1> DEFINE r == Reset(d)
  <1>1. Fail(d) = [r EXCEPT !.state = "failed", !.told = "failed"]
    BY ResetResult DEF Fail, OnDtlsTransportFailed, DtlsRecord
  <1>2. d.fingerprint => d.connectCalled
    BY DEF Consistent
  <1> HIDE DEF r
  <1>3. r \in DtlsRecord /\ r.localRole = "none" /\ ~ r.handshakeDone /\ ~ r.timer
        /\ r.dtlsRole = d.dtlsRole /\ r.connectCalled = d.connectCalled
        /\ r.fingerprint = d.fingerprint /\ r.aborted = d.aborted
    BY ResetResult DEF r
  <1>4. Fail(d) \in DtlsRecord
    BY <1>1, <1>3 DEF DtlsRecord
  <1>5. /\ Fail(d).state = "failed" /\ Fail(d).told = "failed"
        /\ Fail(d).localRole = "none" /\ ~ Fail(d).handshakeDone /\ ~ Fail(d).timer
        /\ Fail(d).dtlsRole = d.dtlsRole /\ Fail(d).connectCalled = d.connectCalled
        /\ Fail(d).fingerprint = d.fingerprint /\ Fail(d).aborted = d.aborted
    BY <1>1, <1>3 DEF DtlsRecord
  <1> QED
    BY <1>2, <1>4, <1>5 DEF Consistent, IsRunning

LEMMA CloseConsistent ==
    ASSUME NEW d, Consistent(d)
    PROVE  /\ Consistent(Close(d))
           /\ Close(d).state = "closed" /\ ~ Close(d).parent
           /\ Close(d).dtlsRole = d.dtlsRole /\ Close(d).aborted = d.aborted
  <1> DEFINE r == Reset(d)
  <1>1. Close(d) = [r EXCEPT !.state = "closed", !.told = "closed", !.parent = FALSE]
    BY ResetResult DEF Close, OnDtlsTransportClosed, DtlsRecord
  <1>2. d.fingerprint => d.connectCalled
    BY DEF Consistent
  <1> HIDE DEF r
  <1>3. r \in DtlsRecord /\ r.localRole = "none" /\ ~ r.handshakeDone /\ ~ r.timer
        /\ r.dtlsRole = d.dtlsRole /\ r.connectCalled = d.connectCalled
        /\ r.fingerprint = d.fingerprint /\ r.aborted = d.aborted
    BY ResetResult DEF r
  <1>4. Close(d) \in DtlsRecord
    BY <1>1, <1>3 DEF DtlsRecord
  <1>5. /\ Close(d).state = "closed" /\ Close(d).told = "closed" /\ ~ Close(d).parent
        /\ Close(d).localRole = "none" /\ ~ Close(d).handshakeDone /\ ~ Close(d).timer
        /\ Close(d).dtlsRole = d.dtlsRole /\ Close(d).connectCalled = d.connectCalled
        /\ Close(d).fingerprint = d.fingerprint /\ Close(d).aborted = d.aborted
    BY <1>1, <1>3 DEF DtlsRecord
  <1> QED
    BY <1>2, <1>4, <1>5 DEF Consistent, IsRunning

\* SetTimeout either keeps the state and the role or fails.
LEMMA SetTimeoutConsistent ==
    ASSUME NEW d, Consistent(d), IsRunning(d), NEW timeout \in {"keep", "short", "long"}
    PROVE  /\ Consistent(SetTimeout(d, timeout))
           /\ SetTimeout(d, timeout).dtlsRole = d.dtlsRole /\ SetTimeout(d, timeout).aborted = d.aborted
           /\ \/ /\ SetTimeout(d, timeout).state = d.state /\ SetTimeout(d, timeout).localRole = d.localRole
                 /\ SetTimeout(d, timeout).parent = d.parent /\ SetTimeout(d, timeout).srtpRecv = d.srtpRecv
              \/ timeout = "long" /\ SetTimeout(d, timeout).state = "failed"
  <1>1. CASE timeout = "keep"
    BY <1>1 DEF SetTimeout
  <1>2. CASE timeout = "short"
    BY <1>2 DEF SetTimeout, Consistent, DtlsRecord, IsRunning, GivenUp
  <1>3. CASE timeout = "long"
    <2>1. SetTimeout(d, timeout) = Fail(d)
      BY <1>3 DEF SetTimeout
    <2> QED
      BY <1>3, <2>1, FailConsistent
  <1> QED
    BY <1>1, <1>2, <1>3

\* ProcessHandshake of a finished handshake with a known fingerprint.
LEMMA ProcessHandshakeConsistent ==
    ASSUME NEW d, Consistent(d), d.handshakeDone, d.fingerprint, d.state = "connecting", NEW o \in Outcome
    PROVE  LET p == ProcessHandshake(d, o)
           IN  /\ Consistent(p) /\ Told(p)
               /\ p.dtlsRole = d.dtlsRole /\ p.aborted = d.aborted
               /\ \/ o.valid /\ p.state = "connected" /\ p.localRole = d.localRole /\ p.handshakeDone
                  \/ ~ o.valid /\ p.state = "failed"
  <1>1. CASE o.valid /\ o.srtp = "none"
    BY <1>1 DEF ProcessHandshake, ExtractSrtpKeys, OnDtlsTransportConnected, Consistent, DtlsRecord,
                IsRunning, Session, Told
  <1>2. CASE o.valid /\ o.srtp # "none"
    BY <1>2 DEF ProcessHandshake, ExtractSrtpKeys, OnDtlsTransportConnected, Consistent, DtlsRecord,
                IsRunning, Session, Told
  <1>3. CASE ~ o.valid
    BY <1>3, FailConsistent DEF ProcessHandshake, Told
  <1> QED
    BY <1>1, <1>2, <1>3

\* CheckStatus keeps a running transport in its role, or ends it: a connected
\* one is closed, which the parent class is told.
LEMMA CheckStatusConsistent ==
    ASSUME NEW d, Consistent(d), IsRunning(d), NEW o \in Outcome
    PROVE  LET c == CheckStatus(d, o)
           IN  /\ Consistent(c) /\ (Told(d) => Told(c))
               /\ c.dtlsRole = d.dtlsRole /\ c.aborted = d.aborted
               /\ \/ c.state = d.state /\ c.localRole = d.localRole
                     /\ c.parent = d.parent /\ c.srtpRecv = d.srtpRecv
                     /\ (c.handshakeDone <=> d.handshakeDone \/ o.done)
                  \/ d.state = "connecting" /\ c.state = "connected" /\ c.localRole = d.localRole
                  \/ d.state = "connecting" /\ c.state = "failed"
                  \/ d.state = "connected" /\ c.state = "closed" /\ ~ c.parent
  <1> DEFINE f == [d EXCEPT !.handshakeDone = TRUE, !.timer = FALSE]
  <1>1. /\ Consistent(f) /\ f.handshakeDone /\ f.state = d.state /\ f.localRole = d.localRole
        /\ f.fingerprint = d.fingerprint /\ f.dtlsRole = d.dtlsRole /\ f.aborted = d.aborted
        /\ f.parent = d.parent /\ f.srtpRecv = d.srtpRecv
    BY DEF Consistent, DtlsRecord, IsRunning
  <1> HIDE DEF f
  <1>2. CASE o.done /\ ~ d.handshakeDone /\ d.fingerprint
    <2>1. CheckStatus(d, o) = ProcessHandshake(f, o)
      BY <1>2 DEF CheckStatus, f
    <2>2. d.state = "connecting"
      BY <1>2 DEF Consistent, IsRunning
    <2>3. f.state = "connecting" /\ f.handshakeDone /\ f.fingerprint
      BY <1>1, <1>2, <2>2
    <2> DEFINE p == ProcessHandshake(f, o)
    <2>4. /\ Consistent(p) /\ Told(p)
          /\ p.dtlsRole = f.dtlsRole /\ p.aborted = f.aborted
          /\ \/ p.state = "connected" /\ p.localRole = f.localRole
             \/ p.state = "failed"
      BY <1>1, <2>3, ProcessHandshakeConsistent
    <2> HIDE DEF p
    <2> QED
      BY <1>1, <2>1, <2>2, <2>4 DEF p
  <1>3. CASE o.done /\ ~ (~ d.handshakeDone /\ d.fingerprint)
    <2>1. CheckStatus(d, o) = f
      BY <1>3 DEF CheckStatus, f
    <2> QED
      BY <1>1, <1>3, <2>1 DEF Told
  <1>4. CASE ~ o.done /\ o.bad /\ d.state = "connected"
    <2>1. CheckStatus(d, o) = Close(d)
      BY <1>4 DEF CheckStatus
    <2> QED
      BY <1>4, <2>1, CloseConsistent DEF Told
  <1>5. CASE ~ o.done /\ o.bad /\ d.state # "connected"
    <2>1. CheckStatus(d, o) = Fail(d)
      BY <1>5 DEF CheckStatus
    <2> QED
      BY <1>5, <2>1, FailConsistent DEF Told, IsRunning
  <1>6. CASE ~ o.done /\ ~ o.bad
    <2>1. CheckStatus(d, o) = d
      BY <1>6 DEF CheckStatus
    <2> QED
      BY <1>6, <2>1 DEF Consistent, DtlsRecord
  <1> QED
    BY <1>2, <1>3, <1>4, <1>5, <1>6

LEMMA ProcessDtlsDataConsistent ==
    ASSUME NEW d, Consistent(d), IsRunning(d), NEW o \in Received(d)
    PROVE  LET p == ProcessDtlsData(d, o)
           IN  /\ Consistent(p) /\ (Told(d) => Told(p))
               /\ p.dtlsRole = d.dtlsRole /\ p.aborted = d.aborted
               /\ IsRunning(p) => p.localRole = d.localRole
               /\ d.state = "connected" /\ p.state # "connected" => ~ p.parent
  <1> DEFINE r == IF o.progress THEN [d EXCEPT !.timeouts = 0] ELSE d
             c == CheckStatus(r, o)
  <1>1. /\ o \in Outcome /\ o.timeout \in {"keep", "short", "long"} /\ o.timeout # "long"
        /\ GivenUp(d) => ~ o.progress
    BY DEF Received, Outcome
  <1>2. /\ Consistent(r) /\ IsRunning(r) /\ (Told(d) => Told(r))
        /\ r.dtlsRole = d.dtlsRole /\ r.aborted = d.aborted
        /\ r.state = d.state /\ r.localRole = d.localRole /\ r.parent = d.parent
    <2>1. CASE o.progress
      BY <1>1, <2>1, MaxTimeoutsAssumption DEF Consistent, DtlsRecord, IsRunning, Told, GivenUp
    <2>2. CASE ~ o.progress
      BY <2>2
    <2> QED
      BY <2>1, <2>2
  <1>3. ProcessDtlsData(d, o) = IF IsRunning(c) THEN SetTimeout(c, o.timeout) ELSE c
    BY DEF ProcessDtlsData
  <1> HIDE DEF r
  <1>4. /\ Consistent(c) /\ (Told(r) => Told(c))
        /\ c.dtlsRole = r.dtlsRole /\ c.aborted = r.aborted
        /\ \/ c.state = r.state /\ c.localRole = r.localRole
           \/ r.state = "connecting" /\ c.state = "connected" /\ c.localRole = r.localRole
           \/ r.state = "connecting" /\ c.state = "failed"
           \/ r.state = "connected" /\ c.state = "closed" /\ ~ c.parent
    BY <1>1, <1>2, CheckStatusConsistent
  <1> HIDE DEF c
  <1>5. CASE IsRunning(c)
    <2> DEFINE p == SetTimeout(c, o.timeout)
    <2>1. /\ Consistent(p)
          /\ p.dtlsRole = c.dtlsRole /\ p.aborted = c.aborted
          /\ p.state = c.state /\ p.localRole = c.localRole
          /\ p.parent = c.parent /\ p.srtpRecv = c.srtpRecv
      BY <1>1, <1>4, <1>5, SetTimeoutConsistent
    <2>2. ProcessDtlsData(d, o) = p
      BY <1>3, <1>5
    <2> HIDE DEF p
    <2> QED
      BY <1>2, <1>4, <1>5, <2>1, <2>2 DEF Told, IsRunning
  <1>6. CASE ~ IsRunning(c)
    BY <1>2, <1>3, <1>4, <1>6 DEF IsRunning
  <1> QED
    BY <1>5, <1>6

\* A timeout keeps the transport as it is, but for the timer.
LEMMA OnTimerConsistent ==
    ASSUME NEW d, Consistent(d), d.timer
    PROVE  LET p == OnTimer(d)
           IN  /\ Consistent(p) /\ (Told(d) => Told(p))
               /\ p.dtlsRole = d.dtlsRole /\ p.aborted = d.aborted
               /\ p.localRole = d.localRole /\ p.state = d.state
  <1> DEFINE f == [d EXCEPT !.timer = FALSE]
             n == IF GivenUp(d) THEN d.timeouts ELSE d.timeouts + 1
             h == [f EXCEPT !.timeouts = n]
  <1>1. n \in 0 .. MaxTimeouts + 1 /\ IsRunning(d)
    BY MaxTimeoutsAssumption DEF Consistent, DtlsRecord, GivenUp
  <1>2. CASE d.handshakeDone
    <2>1. OnTimer(d) = f
      BY <1>2 DEF OnTimer
    <2> QED
      BY <1>2, <2>1 DEF Consistent, DtlsRecord, IsRunning, Told
  <1>3. CASE ~ d.handshakeDone
    <2>1. d.state = "connecting"
      BY <1>1, <1>3 DEF Consistent, IsRunning
    <2>2. /\ h \in DtlsRecord /\ h.state = d.state /\ h.localRole = d.localRole
          /\ h.handshakeDone = d.handshakeDone /\ ~ h.timer
          /\ h.dtlsRole = d.dtlsRole /\ h.aborted = d.aborted
          /\ h.fingerprint = d.fingerprint /\ h.connectCalled = d.connectCalled
          /\ h.told = d.told
      <3> HIDE DEF n
      <3> QED
        BY <1>1 DEF Consistent, DtlsRecord
    <2>3. OnTimer(d) = IF GivenUp(h) THEN h ELSE [h EXCEPT !.timer = TRUE]
      BY <1>3 DEF OnTimer, SetTimeout, Consistent, DtlsRecord
    <2> HIDE DEF h
    <2>4. CASE GivenUp(h)
      BY <1>3, <2>1, <2>2, <2>3, <2>4 DEF Consistent, IsRunning, Told
    <2>5. CASE ~ GivenUp(h)
      <3> DEFINE p == [h EXCEPT !.timer = TRUE]
      <3>1. /\ p \in DtlsRecord /\ p.state = d.state /\ p.localRole = d.localRole
            /\ p.handshakeDone = d.handshakeDone /\ p.timer
            /\ p.dtlsRole = d.dtlsRole /\ p.aborted = d.aborted
            /\ p.fingerprint = d.fingerprint /\ p.connectCalled = d.connectCalled
            /\ p.told = d.told
        BY <2>2 DEF DtlsRecord
      <3>2. OnTimer(d) = p
        BY <2>3, <2>5
      <3> HIDE DEF p
      <3> QED
        BY <1>3, <2>1, <3>1, <3>2 DEF Consistent, IsRunning, Told
    <2> QED
      BY <2>4, <2>5
  <1> QED
    BY <1>2, <1>3

\* Run ends in the role it was given.
LEMMA RunConsistent ==
    ASSUME NEW d, Consistent(d), NEW role \in {"client", "server"}, d.dtlsRole # "auto"
    PROVE  LET p == Run(d, role)
           IN  /\ Consistent(p) /\ (Told(d) => Told(p))
               /\ p.dtlsRole = d.dtlsRole /\ p.aborted = d.aborted
               /\ p.localRole = role
               /\ (d.localRole = role /\ p = d) \/ p.state = "connecting"
  <1> DEFINE r == Reset(d)
             q == [r EXCEPT !.localRole = role, !.state = "connecting", !.told = "connecting"]
             u == [q EXCEPT !.timer = TRUE]
  <1>1. r \in DtlsRecord /\ r.localRole = "none" /\ ~ r.handshakeDone /\ ~ r.timer
        /\ r.dtlsRole = d.dtlsRole /\ r.connectCalled = d.connectCalled
        /\ r.fingerprint = d.fingerprint /\ r.aborted = d.aborted
    BY ResetResult
  <1>2. d.fingerprint => d.connectCalled
    BY DEF Consistent
  <1>3. CASE d.localRole = role
    <2>1. Run(d, role) = d
      BY <1>3 DEF Run
    <2> QED
      BY <1>3, <2>1
  <1>4. CASE d.localRole # role /\ role = "client"
    <2>1. Run(d, role) = u
      BY <1>1, <1>4 DEF Run, SetTimeout, OnDtlsTransportConnecting, DtlsRecord
    <2> HIDE DEF r
    <2>2. /\ u \in DtlsRecord
          /\ u.state = "connecting" /\ u.told = "connecting" /\ u.localRole = "client"
          /\ ~ u.handshakeDone /\ u.timer
          /\ u.dtlsRole = d.dtlsRole /\ u.aborted = d.aborted
          /\ u.fingerprint => u.connectCalled
      BY <1>1, <1>2, <1>4 DEF DtlsRecord
    <2> HIDE DEF u
    <2> QED
      BY <1>4, <2>1, <2>2 DEF Consistent, IsRunning, Told
  <1>5. CASE d.localRole # role /\ role = "server"
    <2>1. Run(d, role) = q
      BY <1>1, <1>5 DEF Run, OnDtlsTransportConnecting, DtlsRecord
    <2> HIDE DEF r
    <2>2. /\ q \in DtlsRecord
          /\ q.state = "connecting" /\ q.told = "connecting" /\ q.localRole = "server"
          /\ ~ q.handshakeDone
          /\ q.dtlsRole = d.dtlsRole /\ q.aborted = d.aborted
          /\ q.fingerprint => q.connectCalled
      BY <1>1, <1>2, <1>5 DEF DtlsRecord
    <2> HIDE DEF q
    <2> QED
      BY <1>5, <2>1, <2>2 DEF Consistent, IsRunning, Told
  <1> QED
    BY <1>3, <1>4, <1>5

\* After MayRunDtlsTransport with ICE connected, a running transport has the
\* role of the WebRTC transport.
LEMMA MayRunConsistent ==
    ASSUME NEW d, Consistent(d), NEW ice
    PROVE  LET p == MayRunDtlsTransport(d, ice)
           IN  /\ Consistent(p) /\ (Told(d) => Told(p)) /\ p.aborted = d.aborted
               /\ IceConnected(ice) => p.localRole = p.dtlsRole
               /\ ~ IceConnected(ice) => p = d
               /\ p = d \/ p.state = "connecting"
               /\ d.localRole = d.dtlsRole => p = d
  <1> DEFINE role == IF d.dtlsRole = "auto" THEN "server" ELSE d.dtlsRole
             e == [d EXCEPT !.dtlsRole = role]
             p == Run(e, role)
  <1>1. CASE d.localRole # d.dtlsRole /\ IceConnected(ice)
    <2>1. MayRunDtlsTransport(d, ice) = p
      BY <1>1 DEF MayRunDtlsTransport
    <2>2. /\ Consistent(e) /\ (Told(d) => Told(e)) /\ e.aborted = d.aborted /\ e.dtlsRole = role
          /\ role \in {"client", "server"} /\ e.localRole # role
      BY <1>1 DEF Consistent, DtlsRecord, IsRunning, Told
    <2> HIDE DEF e, role
    <2>3. /\ Consistent(p) /\ (Told(e) => Told(p))
          /\ p.dtlsRole = e.dtlsRole /\ p.aborted = e.aborted
          /\ p.localRole = role
          /\ p.state = "connecting"
      BY <2>2, RunConsistent
    <2> HIDE DEF p
    <2> QED
      BY <1>1, <2>1, <2>2, <2>3
  <1>2. CASE ~ (d.localRole # d.dtlsRole /\ IceConnected(ice))
    <2>1. MayRunDtlsTransport(d, ice) = d
      BY <1>2 DEF MayRunDtlsTransport
    <2> QED
      BY <1>2, <2>1
  <1> QED
    BY <1>1, <1>2

\* The listener of the ICE server keeps the record consistent; afterwards the
\* role is agreed and the parent class knows of a connection.
LEMMA OnIceEventConsistent ==
    ASSUME NEW d, Consistent(d), NEW event \in {"none", "connected", "completed", "disconnected"},
           NEW ice,
           event \in {"connected", "completed"} => IceConnected(ice)
    PROVE  LET p == OnIceEvent(d, event, ice)
           IN  /\ Consistent(p) /\ p.aborted = d.aborted
               /\ event = "none" => p = d
               /\ event \in {"connected", "completed"} => Told(p) /\ p.localRole = p.dtlsRole
               /\ event \in {"connected", "completed"} /\ d.localRole = d.dtlsRole => p.state = d.state
               /\ event = "disconnected" /\ d.state = "connected" => ~ p.parent
               /\ event = "disconnected" => p.state = d.state /\ p.localRole = d.localRole
                                           /\ p.dtlsRole = d.dtlsRole
  <1>2. CASE event = "none"
    BY <1>2 DEF OnIceEvent
  <1>3. CASE event \in {"connected", "completed"}
    <2> DEFINE r == MayRunDtlsTransport(d, ice)
               q == [r EXCEPT !.parent = TRUE]
    <2>1. OnIceEvent(d, event, ice) = IF r.state = "connected" THEN q ELSE r
      BY <1>3 DEF OnIceEvent, OnIceServerConnected
    <2>2. /\ Consistent(r) /\ r.aborted = d.aborted /\ r.localRole = r.dtlsRole
          /\ d.localRole = d.dtlsRole => r = d
      BY <1>3, MayRunConsistent
    <2> HIDE DEF r
    <2>3. Consistent(q) /\ Told(q) /\ q.aborted = d.aborted /\ q.localRole = q.dtlsRole /\ q.state = r.state
      BY <2>2 DEF Consistent, DtlsRecord, IsRunning, Told, GivenUp
    <2>4. r.state # "connected" => Told(r)
      BY DEF Told
    <2> QED
      BY <1>3, <2>1, <2>2, <2>3, <2>4
  <1>4. CASE event = "disconnected"
    <2>1. OnIceEvent(d, event, ice) = IF d.state = "connected" THEN [d EXCEPT !.parent = FALSE] ELSE d
      BY <1>4 DEF OnIceEvent, OnIceServerDisconnected
    <2>2. CASE d.state = "connected"
      BY <1>4, <2>1, <2>2 DEF Consistent, DtlsRecord, IsRunning
    <2>3. CASE d.state # "connected"
      BY <1>4, <2>1, <2>3
    <2> QED
      BY <2>2, <2>3
  <1> QED
    BY <1>2, <1>3, <1>4

\* connect() keeps the record consistent whether the handshake is still to be
\* done, in progress or already finished.
LEMMA ConnectConsistent ==
    ASSUME NEW d, Consistent(d), ~ d.connectCalled, ~ d.aborted, NEW o \in Outcome, NEW ice,
           NEW fingerprints \in {"one", "empty"}, NEW remoteRole \in {"auto", "client", "server"}
    PROVE  LET p == ConnectWith(d, fingerprints, remoteRole, ice, o)
           IN  /\ Consistent(p) /\ Told(p)
               /\ ~ p.aborted /\ IsRunning(p) /\ IceConnected(ice) => p.localRole = p.dtlsRole
  <1> DEFINE role == IF remoteRole = "client" THEN "server" ELSE "client"
             c == [d EXCEPT !.dtlsRole = role, !.connectCalled = TRUE]
             s == [c EXCEPT !.fingerprint = TRUE]
  <1>1. d.state # "connected" /\ d \in DtlsRecord /\ role \in {"client", "server"}
    BY DEF Consistent
  <1>2. Consistent(c) /\ Told(c)
    BY <1>1 DEF Consistent, DtlsRecord, IsRunning, Told, GivenUp
  <1>3. Consistent(s) /\ Told(s) /\ s.fingerprint /\ s.state # "connected" /\ s.handshakeDone = d.handshakeDone
    BY <1>1 DEF Consistent, DtlsRecord, IsRunning, Told, GivenUp
  <1>5. CASE fingerprints = "empty"
    <2>1. ConnectWith(d, fingerprints, remoteRole, ice, o) = [c EXCEPT !.aborted = TRUE]
      BY <1>5 DEF ConnectWith
    <2> HIDE DEF c
    <2> QED
      BY <1>2, <2>1 DEF Consistent, DtlsRecord, IsRunning, Told, GivenUp
  <1>6. CASE fingerprints = "one"
    <2> DEFINE f == SetRemoteFingerprint(c, o)
    <2>1. ConnectWith(d, fingerprints, remoteRole, ice, o) =
            IF d.handshakeDone /\ f.state = "failed" THEN f ELSE MayRunDtlsTransport(f, ice)
      BY <1>6 DEF ConnectWith
    <2>2. Consistent(f) /\ Told(f)
      <3>1. CASE d.handshakeDone
        <4>1. f = ProcessHandshake(s, o)
          BY <1>1, <3>1 DEF SetRemoteFingerprint, Consistent, DtlsRecord
        <4>2. s.handshakeDone /\ s.state = "connecting"
          BY <1>3, <3>1 DEF Consistent, IsRunning
        <4> HIDE DEF f, s
        <4> QED
          BY <1>3, <4>1, <4>2, ProcessHandshakeConsistent
      <3>2. CASE ~ d.handshakeDone
        <4>1. f = s
          BY <1>1, <3>2 DEF SetRemoteFingerprint, Consistent, DtlsRecord
        <4> QED
          BY <1>3, <4>1
      <3> QED
        BY <3>1, <3>2
    <2> HIDE DEF f
    <2>3. CASE d.handshakeDone /\ f.state = "failed"
      BY <2>1, <2>2, <2>3 DEF IsRunning
    <2>4. CASE ~ (d.handshakeDone /\ f.state = "failed")
      BY <2>1, <2>2, <2>4, MayRunConsistent
    <2> QED
      BY <2>3, <2>4
  <1> QED
    BY <1>5, <1>6

---------------------------------------------------------------------------
\* The ICE server announces every change between connected and not.
LEMMA StunAnnounced ==
    ASSUME IceInv, StunReceived
    PROVE  /\ iceEvent' \in {"none", "connected", "completed"}
           /\ iceEvent' = "none" => iceState' = iceState
           /\ iceEvent' # "none" => IceConnected(iceState')
  <1>1. iceState \in {"new", "connected", "completed", "disconnected"}
    BY DEF IceInv, IceTypeOK
  <1>2. CASE KeepTuples
    BY <1>2 DEF KeepTuples
  <1>3. ASSUME NEW t \in Tuple, NEW u \in BOOLEAN, HandleTuple(t, u)
        PROVE  /\ iceEvent' \in {"none", "connected", "completed"}
               /\ iceEvent' = "none" => iceState' = iceState
               /\ iceEvent' # "none" => IceConnected(iceState')
    <2>1. CASE iceState \in {"new", "disconnected"}
      BY <1>3, <2>1 DEF HandleTuple, IceConnected
    <2>2. CASE iceState \in {"connected", "completed"}
      BY <1>3, <2>2 DEF HandleTuple, IceConnected
    <2> QED
      BY <1>1, <2>1, <2>2
  <1>4. KeepTuples \/ \E t \in Tuple, u \in BOOLEAN : HandleTuple(t, u)
    BY DEF StunReceived, BadRequest, IgnoredStunPacket, Unauthorized, RoleConflict, BindingRequest
  <1> QED
    BY <1>2, <1>3, <1>4

LEMMA RemovalAnnounced ==
    ASSUME NEW t \in Tuple, RemoveTuple(t)
    PROVE  \/ iceEvent' = "none" /\ iceState' = iceState
           \/ iceEvent' = "disconnected" /\ iceState' = "disconnected"
  BY DEF RemoveTuple, Reselect

\* Inv, by its parts.
LEMMA InvParts ==
    Inv <=> /\ IceInv /\ Consistent(dtls)
            /\ ~ dtls.aborted /\ IsRunning(dtls) /\ IceConnected(iceState) => dtls.localRole = dtls.dtlsRole
            /\ IceConnected(iceState) => Told(dtls)
  <1>1. IceInv /\ IsConnected => selectedTuple # NoTuple
    BY DEF IceInv, StateMatchesTuples, IsConnected, IceConnected
  <1> QED
    BY <1>1 DEF Inv, Consistent, RunningHasRole, ConnectedMeansVerified, KeysAreCurrent,
       ApplicationKnowsState, ClientIsTimed, RoleIsAgreed, ParentKnowsConnected, IsConnected, Told

LEMMA InvPartsPrime ==
    Inv' <=> /\ IceInv' /\ Consistent(dtls')
             /\ ~ dtls'.aborted /\ IsRunning(dtls') /\ IceConnected(iceState') => dtls'.localRole = dtls'.dtlsRole
             /\ IceConnected(iceState') => Told(dtls')
  <1>1. IceInv' /\ IsConnected' => selectedTuple' # NoTuple
    BY DEF IceInv, StateMatchesTuples, IsConnected, IceConnected
  <1> QED
    BY <1>1 DEF Inv, Consistent, RunningHasRole, ConnectedMeansVerified, KeysAreCurrent,
       ApplicationKnowsState, ClientIsTimed, RoleIsAgreed, ParentKnowsConnected, IsConnected, Told

\* A packet or a closed connection that the ICE server has handled.
LEMMA IceEventStep ==
    ASSUME Inv, IceInv', ~ dtls.aborted,
           \/ iceEvent' = "none" /\ iceState' = iceState
           \/ iceEvent' \in {"connected", "completed"} /\ IceConnected(iceState')
           \/ iceEvent' = "disconnected" /\ iceState' = "disconnected",
           dtls' = OnIceEvent(dtls, iceEvent', iceState')
    PROVE  Inv' /\ (IsConnected /\ ~ IsConnected' => ~ dtls'.parent)
  <1>1. /\ Consistent(dtls)
        /\ ~ dtls.aborted /\ IsRunning(dtls) /\ IceConnected(iceState) => dtls.localRole = dtls.dtlsRole
        /\ IceConnected(iceState) => Told(dtls)
    BY InvParts
  <1>2. iceEvent' \in {"none", "connected", "completed", "disconnected"}
    OBVIOUS
  <1>3. iceEvent' \in {"connected", "completed"} => IceConnected(iceState')
    OBVIOUS
  <1>4. /\ Consistent(dtls') /\ dtls'.aborted = dtls.aborted
        /\ iceEvent' = "none" => dtls' = dtls
        /\ iceEvent' \in {"connected", "completed"} => Told(dtls') /\ dtls'.localRole = dtls'.dtlsRole
        /\ iceEvent' \in {"connected", "completed"} /\ dtls.localRole = dtls.dtlsRole => dtls'.state = dtls.state
        /\ iceEvent' = "disconnected" /\ dtls.state = "connected" => ~ dtls'.parent
    BY <1>1, <1>2, <1>3, OnIceEventConsistent
  <1>5. CASE iceEvent' = "none" /\ iceState' = iceState
    <2>1. dtls' = dtls
      BY <1>4, <1>5
    <2>2. Inv'
      BY <1>1, <1>4, <1>5, <2>1, InvPartsPrime
    <2>3. IsConnected => IsConnected'
      BY <1>5, <2>1 DEF IsConnected
    <2> QED
      BY <2>2, <2>3
  <1>6. CASE iceEvent' \in {"connected", "completed"} /\ IceConnected(iceState')
    <2>1. Inv'
      BY <1>4, <1>6, InvPartsPrime
    <2>2. IsConnected => IsConnected'
      BY <1>1, <1>4, <1>6 DEF IsConnected, IsRunning
    <2> QED
      BY <2>1, <2>2
  <1>7. CASE iceEvent' = "disconnected" /\ iceState' = "disconnected"
    <2>1. ~ IceConnected(iceState')
      BY <1>7 DEF IceConnected
    <2> QED
      BY <1>4, <1>7, <2>1, InvPartsPrime DEF IsConnected
  <1> QED
    BY <1>5, <1>6, <1>7

\* The same for steps of the DTLS transport alone.
LEMMA DtlsStep ==
    ASSUME Inv, IceInv', UNCHANGED iceState,
           Consistent(dtls'), Told(dtls) => Told(dtls'),
           dtls'.dtlsRole = dtls.dtlsRole, dtls'.aborted = dtls.aborted,
           IsRunning(dtls') => dtls'.localRole = dtls.localRole,
           dtls.state = "connected" /\ dtls'.state # "connected" => ~ dtls'.parent
    PROVE  Inv' /\ (IsConnected /\ ~ IsConnected' => ~ dtls'.parent)
  <1>1. /\ Consistent(dtls)
        /\ ~ dtls.aborted /\ IsRunning(dtls) /\ IceConnected(iceState) => dtls.localRole = dtls.dtlsRole
        /\ IceConnected(iceState) => Told(dtls)
    BY InvParts
  <1>2. IsRunning(dtls') => IsRunning(dtls)
    BY <1>1 DEF Consistent
  <1>3. Inv'
    BY <1>1, <1>2, InvPartsPrime
  <1> QED
    BY <1>3 DEF IsConnected

\* Every step preserves the invariant, and reports a lost connection.
LEMMA Step ==
    ASSUME Inv, Next
    PROVE  Inv' /\ (IsConnected /\ ~ IsConnected' => ~ dtls'.parent)
  <1>1. ~ dtls.aborted /\ IceInv /\ Consistent(dtls)
    BY InvParts DEF Next
  <1>2. CASE OnStunDataReceived
    <2>1. IceInv'
      BY <1>1, <1>2, StunStep DEF OnStunDataReceived
    <2>2. /\ iceEvent' \in {"none", "connected", "completed"}
          /\ iceEvent' = "none" => iceState' = iceState
          /\ iceEvent' # "none" => IceConnected(iceState')
      BY <1>1, <1>2, StunAnnounced DEF OnStunDataReceived
    <2>3. dtls' = OnIceEvent(dtls, iceEvent', iceState')
      BY <1>2 DEF OnStunDataReceived
    <2> QED
      BY <1>1, <2>1, <2>2, <2>3, IceEventStep
  <1>3. CASE OnRtcTcpConnectionClosed
    <2>1. PICK t \in Tuple : RemoveTuple(t)
      BY <1>3 DEF OnRtcTcpConnectionClosed
    <2>2. IceInv'
      BY <1>1, <2>1, RemoveStep
    <2>3. \/ iceEvent' = "none" /\ iceState' = iceState
          \/ iceEvent' = "disconnected" /\ iceState' = "disconnected"
      BY <2>1, RemovalAnnounced
    <2>4. dtls' = OnIceEvent(dtls, iceEvent', iceState')
      BY <1>3 DEF OnRtcTcpConnectionClosed
    <2> QED
      BY <1>1, <2>2, <2>3, <2>4, IceEventStep
  <1>4. CASE OnDtlsDataReceived
    <2>1. PICK t \in Tuple : ForceSelectedTuple(t)
      BY <1>4 DEF OnDtlsDataReceived
    <2>2. IceInv' /\ UNCHANGED iceState
      BY <1>1, <2>1, ForceSelectedStep DEF ForceSelectedTuple
    <2>3. CASE IsRunning(dtls)
      <3>1. PICK o \in Received(dtls) : dtls' = ProcessDtlsData(dtls, o)
        BY <1>4, <2>3 DEF OnDtlsDataReceived
      <3>2. /\ Consistent(dtls') /\ (Told(dtls) => Told(dtls'))
            /\ dtls'.dtlsRole = dtls.dtlsRole /\ dtls'.aborted = dtls.aborted
            /\ IsRunning(dtls') => dtls'.localRole = dtls.localRole
            /\ dtls.state = "connected" /\ dtls'.state # "connected" => ~ dtls'.parent
        BY <1>1, <2>3, <3>1, ProcessDtlsDataConsistent
      <3> QED
        BY <2>2, <3>2, DtlsStep
    <2>4. CASE ~ IsRunning(dtls)
      <3>1. dtls' = dtls
        BY <1>4, <2>4 DEF OnDtlsDataReceived
      <3> QED
        BY <1>1, <2>2, <3>1, DtlsStep
    <2> QED
      BY <2>3, <2>4
  <1>5. CASE OnRtpDataReceived
    <2>1. PICK t \in Tuple : ForceSelectedTuple(t)
      BY <1>5 DEF OnRtpDataReceived
    <2>2. IceInv' /\ UNCHANGED iceState
      BY <1>1, <2>1, ForceSelectedStep DEF ForceSelectedTuple
    <2>3. dtls' = dtls
      BY <1>5 DEF OnRtpDataReceived
    <2> QED
      BY <1>1, <2>2, <2>3, DtlsStep
  <1>6. ASSUME KeepIce PROVE IceInv' /\ UNCHANGED iceState
    BY <1>1, <1>6, IdleStep DEF KeepIce, KeepTuples
  <1>7. CASE Connect
    <2>1. PICK f \in {"one", "empty"}, r \in {"auto", "client", "server"}, o \in Outcome :
                  dtls' = ConnectWith(dtls, f, r, iceState, o)
      BY <1>7 DEF Connect
    <2>2. ~ dtls.connectCalled /\ IceInv' /\ UNCHANGED iceState
      BY <1>6, <1>7 DEF Connect
    <2>3. /\ Consistent(dtls') /\ Told(dtls')
          /\ ~ dtls'.aborted /\ IsRunning(dtls') /\ IceConnected(iceState) => dtls'.localRole = dtls'.dtlsRole
      BY <1>1, <2>1, <2>2, ConnectConsistent
    <2>4. ~ IsConnected
      BY <1>1, <2>2 DEF IsConnected, Consistent
    <2> QED
      BY <2>2, <2>3, <2>4, InvPartsPrime
  <1>8. CASE RestartIceRequest
    <2>1. IceInv' /\ UNCHANGED <<iceState, dtls>>
      BY <1>1, <1>8, RestartIceStep DEF RestartIceRequest, RestartIce, KeepTuples
    <2> QED
      BY <1>1, <2>1, DtlsStep
  <1>9. CASE OnDtlsTimer
    <2>1. dtls' = OnTimer(dtls)
      BY <1>9 DEF OnDtlsTimer
    <2>2. dtls.timer /\ IceInv' /\ UNCHANGED iceState
      BY <1>6, <1>9 DEF OnDtlsTimer
    <2>3. /\ Consistent(dtls') /\ (Told(dtls) => Told(dtls'))
          /\ dtls'.dtlsRole = dtls.dtlsRole /\ dtls'.aborted = dtls.aborted
          /\ dtls'.localRole = dtls.localRole /\ dtls'.state = dtls.state
      BY <1>1, <2>1, <2>2, OnTimerConsistent
    <2> QED
      BY <2>2, <2>3, DtlsStep
  <1>10. CASE SendDataFails
    <2>1. PICK o \in Received(dtls) : ~ o.done /\ dtls' = SendApplicationDataFailed(dtls, o)
      BY <1>10 DEF SendDataFails
    <2>2. /\ dtls.state = "connected" /\ IceInv' /\ UNCHANGED iceState
          /\ dtls' = CheckStatus(dtls, o) /\ o \in Outcome
      BY <1>6, <1>10, <2>1 DEF SendDataFails, SendApplicationDataFailed, Received
    <2>3. /\ Consistent(dtls') /\ (Told(dtls) => Told(dtls'))
          /\ dtls'.dtlsRole = dtls.dtlsRole /\ dtls'.aborted = dtls.aborted
          /\ \/ dtls'.state = dtls.state /\ dtls'.localRole = dtls.localRole
             \/ dtls'.state = "closed" /\ ~ dtls'.parent
      BY <1>1, <2>2, CheckStatusConsistent DEF IsRunning
    <2> QED
      BY <2>2, <2>3, DtlsStep DEF IsRunning
  <1> QED
    BY <1>2, <1>3, <1>4, <1>5, <1>7, <1>8, <1>9, <1>10 DEF Next

---------------------------------------------------------------------------
\* The invariant holds in every reachable state of the transport.
THEOREM Invariance == Spec => []Inv
  <1>1. Init => Inv
    <2>1. ASSUME Init PROVE IceInv /\ dtls = NewDtls /\ iceState = "new"
      BY <2>1, IceInitial DEF Init, IceInit
    <2>2. Consistent(NewDtls) /\ ~ IceConnected("new")
      BY MaxTimeoutsAssumption DEF Consistent, NewDtls, DtlsRecord, IsRunning, Session, IceConnected, GivenUp
    <2> QED
      BY <2>1, <2>2, InvParts
  <1>2. Inv /\ [Next]_vars => Inv'
    <2>1. ASSUME Inv, UNCHANGED vars PROVE Inv'
      <3>1. IceInv' /\ UNCHANGED <<iceState, dtls>>
        BY <2>1, StutterStep DEF vars, Inv, iceVars
      <3> QED
        BY <2>1, <3>1, InvParts, InvPartsPrime
    <2> QED
      BY <2>1, Step
  <1> QED
    BY <1>1, <1>2, PTL DEF Spec

\* No timeout and no late packet reaches a DTLS transport that was reset.
THEOREM OnlyRunningIsTimed == Spec => []RunningHasRole
  <1>1. Inv => RunningHasRole
    BY DEF Inv
  <1> QED
    BY <1>1, Invariance, PTL

\* A connected DTLS transport has verified the peer's fingerprint.
THEOREM AlwaysVerified == Spec => []ConnectedMeansVerified
  <1>1. Inv => ConnectedMeansVerified
    BY DEF Inv
  <1> QED
    BY <1>1, Invariance, PTL

\* Keys of an earlier handshake are never used.
THEOREM KeysNeverStale == Spec => []KeysAreCurrent
  <1>1. Inv => KeysAreCurrent
    BY DEF Inv
  <1> QED
    BY <1>1, Invariance, PTL

\* When media can flow there is a tuple for it and the parent class knows.
THEOREM ConnectionKnown == Spec => []ParentKnowsConnected
  <1>1. Inv => ParentKnowsConnected
    BY DEF Inv
  <1> QED
    BY <1>1, Invariance, PTL

\* When media can no longer flow the parent class is told at once.
THEOREM LossReported == Spec => DisconnectionReported
  <1>1. Inv /\ [Next]_vars => [IsConnected /\ ~ IsConnected' => ~ dtls'.parent]_vars
    BY Step
  <1> QED
    BY <1>1, Invariance, PTL DEF Spec, DisconnectionReported

\* DTLS never runs in a role that was not agreed, and is timed only while it runs.
THEOREM AlwaysInItsRole == Spec => []RunsInItsRole
  <1>1. Inv => RunsInItsRole
    BY DEF Inv, RunsInItsRole
  <1> QED
    BY <1>1, Invariance, PTL

\* No media over a connection that was not verified or with keys of an earlier one.
THEOREM ConnectionAlwaysVerified == Spec => []ConnectionVerified
  <1>1. Inv => ConnectionVerified
    BY DEF Inv, ConnectionVerified
  <1> QED
    BY <1>1, Invariance, PTL

\* RTC::Transport and the application always know of the connection.
THEOREM EveryoneAlwaysKnows == Spec => []EveryoneKnows
  <1>1. Inv => EveryoneKnows
    BY DEF Inv, EveryoneKnows
  <1> QED
    BY <1>1, Invariance, PTL
=============================================================================
