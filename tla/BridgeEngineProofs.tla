------------------------- MODULE BridgeEngineProofs -------------------------
(***************************************************************************)
(* Proofs about BridgeEngine for every value of its constants.             *)
(***************************************************************************)
EXTENDS BridgeEngine, WellFoundedInduction, TLAPS

(* The open GetAssertion is the last request handled, and the pending hash *)
(* is its challenge; an open registration came after any GetAssertion.     *)
PendingKeyed ==
    /\ tx # None /\ tx.req_type = "GetAssertion" =>
         /\ request # None
         /\ pending_client_data_hash = tx.client_data_hash
         /\ tx.rp_id = request.rp_id
         /\ tx.client_data_hash = request.client_data_hash
         /\ tx.allow_list = request.allow_list
    /\ tx # None /\ tx.req_type # "GetAssertion" => request = None

(* The cache holds the last assertion a phone signed, unless that one has  *)
(* been replayed.                                                          *)
CacheIsGranted ==
    /\ assertion_cache # None =>
         /\ granted # None
         /\ assertion_cache.response = granted.response
         /\ assertion_cache.created_at = granted.at
         /\ replayed[assertion_cache.response.id] = 0
    /\ granted # None /\ assertion_cache = None =>
         replayed[granted.response.id] # 0

(* Answers not yet given have not been replayed.                           *)
IdsFresh ==
    /\ granted # None => granted.response.id <= served
    /\ \A id \in 1..MaxServed : id > served => replayed[id] = 0

CooldownRecorded == ended = last_cancelled

IInv ==
    /\ TypeOK
    /\ CacheKeyed
    /\ PendingKeyed
    /\ CacheIsGranted
    /\ IdsFresh
    /\ ReplayOnce
    /\ CooldownRecorded
    /\ AnswerFitsRequest

LEMMA InitIInv == Init => IInv
  <1> SUFFICES ASSUME Init PROVE IInv
    OBVIOUS
  <1> USE EngineAssumption DEF Init
  <1>1. TypeOK
    BY DEF TypeOK, Replies, MaybeHash
  <1>2. CacheKeyed /\ PendingKeyed /\ CacheIsGranted /\ CooldownRecorded
    BY DEF CacheKeyed, PendingKeyed, CacheIsGranted, CooldownRecorded
  <1>3. IdsFresh /\ ReplayOnce
    BY DEF IdsFresh, ReplayOnce
  <1>4. AnswerFitsRequest
    BY DEF AnswerFitsRequest
  <1> QED
    BY <1>1, <1>2, <1>3, <1>4 DEF IInv

(* A GetAssertion is parsed into a well-typed request.                     *)
LEMMA ParsedRequest ==
    ASSUME NEW rp \in RpIds, NEW hash \in MaybeHash, NEW up \in BOOLEAN,
           NEW list \in AllowLists
    PROVE  /\ parse_assertion_request(rp, hash, up, list) \in AssertionRequest
           /\ extract_first_allow_list_credential(list) \subseteq CredIds
  <1>1. list \in Seq(CredIds \cup {None})
    BY EngineAssumption DEF EngineAssumption
  <1>2. Len(list) \in Nat /\ DOMAIN list = 1..Len(list)
    BY <1>1
  <1>3. \A i \in DOMAIN list : list[i] \in CredIds \cup {None}
    BY <1>1, <1>2
  <1>4. {list[i] : i \in DOMAIN list} \ {None} \subseteq CredIds
    BY <1>3
  <1>5. extract_first_allow_list_credential(list) \subseteq CredIds
    BY <1>3 DEF extract_first_allow_list_credential
  <1> QED
    BY <1>2, <1>4, <1>5 DEF parse_assertion_request, AssertionRequest

(* Every reply the handlers build is one of Replies.                       *)
LEMMA StatusReplies ==
    /\ SendStatus(CTAP2_ERR_KEEPALIVE_CANCEL) \in Replies
    /\ SendStatus(CTAP2_ERR_NO_CREDENTIALS) \in Replies
    /\ SendStatus(CTAP2_ERR_OPERATION_DENIED) \in Replies
    /\ SendStatus(CTAP2_ERR_UNSUPPORTED_OPTION) \in Replies
    /\ {StartCable, Ignore, NoReply} \subseteq Replies
    /\ SendResponse([kind |-> "info"]) \in Replies
  BY DEF Replies, InfoResponse

LEMMA BodyReplies ==
    /\ \A body \in PhoneResponse : SendResponse(body) \in Replies
    /\ \A body \in SyntheticResponse : SendResponse(body) \in Replies
  BY DEF Replies

(* Only SendResponse of a phone's answer is one.                           *)
LEMMA NotPhoneAnswers ==
    /\ \A s : ~IsPhoneAnswer(SendStatus(s))
    /\ ~IsPhoneAnswer(StartCable) /\ ~IsPhoneAnswer(Ignore) /\ ~IsPhoneAnswer(NoReply)
    /\ \A body : body.kind \notin {"assertion", "attestation"}
                   => ~IsPhoneAnswer(SendResponse(body))
  BY DEF IsPhoneAnswer, SendStatus, StartCable, Ignore, NoReply, SendResponse

-----------------------------------------------------------------------------
(* Every action preserves IInv.                                            *)

LEMMA PlainCommandIInv ==
    ASSUME IInv, EmptyCbor \/ GetInfo \/ UnsupportedCommand
    PROVE  IInv'
  <1> USE EngineAssumption, NoneAssumption
  <1>1. /\ tx = None /\ tx' = tx /\ request' = None
        /\ UNCHANGED <<now, last_cancelled, assertion_cache, pending_client_data_hash>>
        /\ UNCHANGED <<served, granted, replayed, ended>>
        /\ reply' \in Replies /\ ~IsPhoneAnswer(reply')
    BY StatusReplies, NotPhoneAnswers
       DEF EmptyCbor, GetInfo, UnsupportedCommand, engineVars, history
  <1>2. TypeOK'
    BY <1>1 DEF IInv, TypeOK
  <1>3. CacheKeyed' /\ PendingKeyed' /\ CacheIsGranted'
    BY <1>1 DEF IInv, CacheKeyed, PendingKeyed, CacheIsGranted
  <1>4. IdsFresh' /\ ReplayOnce' /\ CooldownRecorded' /\ AnswerFitsRequest'
    BY <1>1 DEF IInv, IdsFresh, ReplayOnce, CooldownRecorded, AnswerFitsRequest
  <1> QED
    BY <1>2, <1>3, <1>4 DEF IInv

LEMMA TickIInv == ASSUME IInv, Tick PROVE IInv'
  <1> USE EngineAssumption, NoneAssumption
  <1>1. /\ now' = now + 1
        /\ UNCHANGED <<last_cancelled, assertion_cache, pending_client_data_hash>>
        /\ UNCHANGED <<tx, request, reply, served, granted, replayed, ended>>
    BY DEF Tick, engineVars, history
  <1>2. TypeOK'
    <2>1. now \in Nat /\ now' \in Nat
      BY <1>1 DEF IInv, TypeOK
    <2>2. last_cancelled # None => last_cancelled \in Nat /\ last_cancelled <= now'
      BY <1>1, <2>1 DEF IInv, TypeOK
    <2>3. assertion_cache # None =>
            assertion_cache.created_at \in Nat /\ assertion_cache.created_at <= now'
      BY <1>1, <2>1 DEF IInv, TypeOK, CachedAssertion
    <2> QED
      BY <1>1, <2>1, <2>2, <2>3 DEF IInv, TypeOK
  <1>3. CacheKeyed' /\ PendingKeyed' /\ CacheIsGranted'
    BY <1>1 DEF IInv, CacheKeyed, PendingKeyed, CacheIsGranted
  <1>4. IdsFresh' /\ ReplayOnce' /\ CooldownRecorded' /\ AnswerFitsRequest'
    BY <1>1 DEF IInv, IdsFresh, ReplayOnce, CooldownRecorded, AnswerFitsRequest
  <1> QED
    BY <1>2, <1>3, <1>4 DEF IInv

LEMMA NoSuccessIInv ==
    ASSUME IInv, NEW result, NoSuccess(result)
    PROVE  IInv'
  <1> USE EngineAssumption, NoneAssumption
  <1>1. /\ tx' = None /\ last_cancelled' = now /\ ended' = now
        /\ UNCHANGED <<now, assertion_cache, pending_client_data_hash>>
        /\ UNCHANGED <<request, served, granted, replayed>>
        /\ reply' \in Replies /\ ~IsPhoneAnswer(reply')
    BY StatusReplies, NotPhoneAnswers DEF NoSuccess, record_cancellation
  <1>2. TypeOK'
    BY <1>1 DEF IInv, TypeOK
  <1>3. CacheKeyed' /\ PendingKeyed' /\ CacheIsGranted'
    BY <1>1 DEF IInv, CacheKeyed, PendingKeyed, CacheIsGranted
  <1>4. IdsFresh' /\ ReplayOnce' /\ CooldownRecorded' /\ AnswerFitsRequest'
    BY <1>1 DEF IInv, IdsFresh, ReplayOnce, CooldownRecorded, AnswerFitsRequest
  <1> QED
    BY <1>2, <1>3, <1>4 DEF IInv

LEMMA MakeCredentialIInv ==
    ASSUME IInv, NEW rp \in RpIds, MakeCredential(rp)
    PROVE  IInv'
  <1> USE EngineAssumption, NoneAssumption
  <1>1. /\ tx = None /\ request' = None
        /\ UNCHANGED <<now, last_cancelled, assertion_cache, pending_client_data_hash>>
        /\ UNCHANGED <<served, granted, replayed, ended>>
        /\ reply' \in Replies /\ ~IsPhoneAnswer(reply')
    BY StatusReplies, NotPhoneAnswers
       DEF MakeCredential, RejectInCooldown, RefuseTouchProbe, StartRegistration,
           engineVars
  <1>2. tx' = None \/ (tx' \in Transaction /\ tx'.req_type # "GetAssertion")
    BY <1>1 DEF MakeCredential, RejectInCooldown, RefuseTouchProbe, StartRegistration,
                Transaction, MaybeHash
  <1>3. TypeOK'
    BY <1>1, <1>2 DEF IInv, TypeOK
  <1>4. PendingKeyed'
    BY <1>1, <1>2 DEF PendingKeyed
  <1>5. CacheKeyed' /\ CacheIsGranted'
    BY <1>1 DEF IInv, CacheKeyed, CacheIsGranted
  <1>6. IdsFresh' /\ ReplayOnce' /\ CooldownRecorded' /\ AnswerFitsRequest'
    BY <1>1 DEF IInv, IdsFresh, ReplayOnce, CooldownRecorded, AnswerFitsRequest
  <1> QED
    BY <1>3, <1>4, <1>5, <1>6 DEF IInv

LEMMA SuccessIInv ==
    ASSUME IInv, NEW cred \in MaybeCred, Success(cred)
    PROVE  IInv'
  <1> USE EngineAssumption, NoneAssumption
  <1> DEFINE resp == PhoneAnswer(cred)
  <1>1. /\ tx \in Transaction /\ tx # None
        /\ served \in Nat /\ served + 1 \in 1..MaxServed
        /\ now \in Nat
    BY DEF Success, IInv, TypeOK
  <1>2. /\ resp \in PhoneResponse
        /\ resp.id = served + 1 /\ resp.rp_id = tx.rp_id
        /\ resp.client_data_hash = tx.client_data_hash /\ resp.credential_id = cred
        /\ (resp.kind = "assertion") <=> (tx.req_type = "GetAssertion")
    BY <1>1 DEF PhoneAnswer, PhoneResponse, Transaction, MaybeCred
  <1>3. /\ tx' = None /\ served' = served + 1
        /\ reply' = SendResponse(resp)
        /\ UNCHANGED <<now, last_cancelled, request, replayed, ended>>
    BY DEF Success
  <1> HIDE DEF resp
  <1>4. IdsFresh' /\ ReplayOnce' /\ CooldownRecorded' /\ PendingKeyed'
    <2>1. granted' = granted \/ granted'.response.id = served + 1
      BY <1>2 DEF Success, resp
    <2>2. granted # None => granted.response.id \in Nat /\ granted.response.id <= served
      BY DEF IInv, IdsFresh, TypeOK, Grant, PhoneResponse
    <2>3. IdsFresh'
      BY <1>1, <1>3, <2>1, <2>2 DEF IInv, IdsFresh
    <2> QED
      BY <1>3, <2>3 DEF IInv, ReplayOnce, CooldownRecorded, PendingKeyed
  <1>5. CASE tx.req_type = "GetAssertion"
    <2>1. /\ assertion_cache' =
               [rp_id |-> tx.rp_id, client_data_hash |-> pending_client_data_hash,
                credential_id |-> resp.credential_id, response |-> resp,
                created_at |-> now]
          /\ pending_client_data_hash' = None
          /\ granted' = [response |-> resp, at |-> now]
      BY <1>5 DEF Success, FillCache, resp
    <2>2. /\ pending_client_data_hash = tx.client_data_hash /\ request # None
          /\ tx.rp_id = request.rp_id /\ tx.client_data_hash = request.client_data_hash
          /\ tx.allow_list = request.allow_list
      BY <1>1, <1>5 DEF IInv, PendingKeyed
    <2>3. assertion_cache' \in CachedAssertion /\ granted' \in Grant
      BY <1>1, <1>2, <2>1 DEF IInv, TypeOK, CachedAssertion, Grant, PhoneResponse, Transaction
    <2>4. TypeOK'
      <3>1. assertion_cache'.created_at <= now'
        BY <1>1, <1>3, <2>1
      <3>2. reply' \in Replies
        BY <1>2, <1>3, BodyReplies
      <3>3. pending_client_data_hash' \in MaybeHash /\ served' \in Nat
        BY <1>1, <1>3, <2>1 DEF MaybeHash
      <3> QED
        BY <1>3, <2>3, <3>1, <3>2, <3>3 DEF IInv, TypeOK
    <2>5. CacheKeyed'
      BY <1>2, <1>5, <2>1, <2>2 DEF CacheKeyed
    <2>6. CacheIsGranted'
      <3>1. replayed'[resp.id] = 0
        BY <1>1, <1>2, <1>3 DEF IInv, IdsFresh
      <3> QED
        BY <1>1, <2>1, <2>3, <3>1 DEF CacheIsGranted
    <2>7. AnswerFitsRequest'
      <3>1. tx.allow_list # {} => cred \in tx.allow_list \cup {None}
        BY DEF Success
      <3> QED
        BY <1>2, <1>3, <1>5, <2>2, <3>1 DEF AnswerFitsRequest, SendResponse, IsPhoneAnswer
    <2> QED
      BY <1>4, <2>4, <2>5, <2>6, <2>7 DEF IInv
  <1>6. CASE tx.req_type # "GetAssertion"
    <2>1. UNCHANGED <<assertion_cache, pending_client_data_hash, granted>>
      BY <1>6 DEF Success, FillCache
    <2>2. reply' \in Replies /\ served' \in Nat
      BY <1>1, <1>2, <1>3, BodyReplies
    <2>3. TypeOK'
      BY <1>3, <2>1, <2>2 DEF IInv, TypeOK
    <2>4. CacheKeyed' /\ CacheIsGranted'
      BY <1>3, <2>1 DEF IInv, CacheKeyed, CacheIsGranted
    <2>5. AnswerFitsRequest'
      BY <1>1, <1>3, <1>6 DEF IInv, PendingKeyed, AnswerFitsRequest
    <2> QED
      BY <1>4, <2>3, <2>4, <2>5 DEF IInv
  <1> QED
    BY <1>5, <1>6

(* The four ways a GetAssertion outside the cooldown is answered.          *)
LEMMA AssertionIInv ==
    ASSUME IInv, tx = None,
           NEW req \in AssertionRequest, NEW first \in SUBSET CredIds,
           request' = req, HandleAssertion(req, first),
           UNCHANGED <<now, served, granted, ended>>
    PROVE  IInv'
  <1> USE EngineAssumption, NoneAssumption
  <1>1. /\ pending_client_data_hash' = req.client_data_hash
        /\ pending_client_data_hash' \in MaybeHash
        /\ last_cancelled' = last_cancelled
    BY DEF HandleAssertion, AssertionRequest
  <1>2. CooldownRecorded'
    BY <1>1 DEF IInv, CooldownRecorded
  <1>3. CASE NoResidentCredential(req) \/ SilentAssertion(req, first)
    <2>1. UNCHANGED <<assertion_cache, tx, replayed>> /\ tx' = None
      BY <1>3 DEF NoResidentCredential, SilentAssertion
    <2>2. reply' \in Replies /\ ~IsPhoneAnswer(reply')
      <3>1. CASE NoResidentCredential(req)
        BY <3>1, StatusReplies, NotPhoneAnswers DEF NoResidentCredential
      <3>2. CASE SilentAssertion(req, first)
        <4>1. PICK cred \in first :
                reply' = SendResponse([kind |-> "synthetic", rp_id |-> req.rp_id,
                                       credential_id |-> cred])
          BY <3>2 DEF SilentAssertion
        <4>2. [kind |-> "synthetic", rp_id |-> req.rp_id, credential_id |-> cred]
                \in SyntheticResponse
          BY DEF SyntheticResponse, AssertionRequest
        <4> QED
          BY <4>1, <4>2, BodyReplies, NotPhoneAnswers
      <3> QED
        BY <1>3, <3>1, <3>2
    <2>3. TypeOK'
      BY <1>1, <2>1, <2>2 DEF IInv, TypeOK
    <2>4. CacheKeyed' /\ CacheIsGranted' /\ PendingKeyed'
      BY <2>1 DEF IInv, CacheKeyed, CacheIsGranted, PendingKeyed
    <2>5. IdsFresh' /\ ReplayOnce' /\ AnswerFitsRequest'
      BY <2>1, <2>2 DEF IInv, IdsFresh, ReplayOnce, AnswerFitsRequest
    <2> QED
      BY <1>2, <2>3, <2>4, <2>5 DEF IInv
  <1>4. CASE ReplayFromCache(req)
    <2> DEFINE resp == assertion_cache.response
    <2>1. /\ assertion_cache # None /\ matches(assertion_cache, req)
          /\ reply' = SendResponse(resp)
          /\ assertion_cache' = None /\ tx' = None
          /\ replayed' = [replayed EXCEPT ![resp.id] = @ + 1]
      BY <1>4 DEF ReplayFromCache
    <2>2. /\ assertion_cache \in CachedAssertion /\ resp \in PhoneResponse
          /\ resp.id \in 1..MaxServed
          /\ replayed \in [1..MaxServed -> Nat]
      BY <2>1 DEF IInv, TypeOK, CachedAssertion, PhoneResponse
    <2>3. /\ granted # None /\ resp = granted.response /\ replayed[resp.id] = 0
          /\ resp.id <= served
      BY <2>1 DEF IInv, CacheIsGranted, IdsFresh
    <2>4. /\ replayed' \in [1..MaxServed -> Nat] /\ replayed'[resp.id] = 1
          /\ \A id \in 1..MaxServed : id # resp.id => replayed'[id] = replayed[id]
      BY <2>1, <2>2, <2>3
    <2>5. CacheKeyed
      BY DEF IInv
    <2>6. /\ resp.kind = "assertion" /\ resp.rp_id = req.rp_id
          /\ (req.client_data_hash # None /\ resp.client_data_hash # None)
               => resp.client_data_hash = req.client_data_hash
          /\ (req.allow_list # {} /\ resp.credential_id # None)
               => resp.credential_id \in req.allow_list
      BY <2>1, <2>5 DEF CacheKeyed, matches
    <2> HIDE DEF resp
    <2>7. TypeOK'
      BY <1>1, <2>1, <2>2, <2>4, BodyReplies DEF IInv, TypeOK
    <2>8. CacheKeyed' /\ PendingKeyed'
      BY <2>1 DEF CacheKeyed, PendingKeyed
    <2>9. CacheIsGranted'
      BY <2>1, <2>3, <2>4 DEF CacheIsGranted
    <2>10. IdsFresh'
      <3>1. served \in Nat /\ resp.id \in Nat
        BY <2>2 DEF IInv, TypeOK
      <3>2. \A id \in 1..MaxServed : id > served => id # resp.id
        BY <2>3, <3>1
      <3> QED
        BY <2>4, <3>2 DEF IInv, IdsFresh
    <2>11. ReplayOnce'
      BY <2>4 DEF IInv, ReplayOnce
    <2>12. AnswerFitsRequest'
      BY <2>1, <2>6 DEF AnswerFitsRequest, SendResponse, IsPhoneAnswer
    <2> QED
      BY <1>2, <2>7, <2>8, <2>9, <2>10, <2>11, <2>12 DEF IInv
  <1>5. CASE StartAssertion(req)
    <2>1. /\ tx' = [req_type |-> "GetAssertion", rp_id |-> req.rp_id,
                    client_data_hash |-> req.client_data_hash,
                    allow_list |-> req.allow_list]
          /\ reply' = StartCable /\ UNCHANGED <<assertion_cache, replayed>>
      BY <1>5 DEF StartAssertion
    <2>2. tx' \in Transaction /\ reply' \in Replies /\ ~IsPhoneAnswer(reply')
      BY <2>1, StatusReplies, NotPhoneAnswers DEF Transaction, AssertionRequest
    <2>3. TypeOK'
      BY <1>1, <2>1, <2>2 DEF IInv, TypeOK
    <2>4. PendingKeyed'
      BY <1>1, <2>1 DEF PendingKeyed
    <2>5. CacheKeyed' /\ CacheIsGranted'
      BY <2>1 DEF IInv, CacheKeyed, CacheIsGranted
    <2>6. IdsFresh' /\ ReplayOnce' /\ AnswerFitsRequest'
      BY <2>1, <2>2 DEF IInv, IdsFresh, ReplayOnce, AnswerFitsRequest
    <2> QED
      BY <1>2, <2>3, <2>4, <2>5, <2>6 DEF IInv
  <1> QED
    BY <1>3, <1>4, <1>5 DEF HandleAssertion

LEMMA GetAssertionIInv ==
    ASSUME IInv, NEW rp \in RpIds, NEW hash \in MaybeHash, NEW up \in BOOLEAN,
           NEW list \in AllowLists, GetAssertion(rp, hash, up, list)
    PROVE  IInv'
  <1> USE EngineAssumption, NoneAssumption
  <1> DEFINE req == parse_assertion_request(rp, hash, up, list)
             first == extract_first_allow_list_credential(list)
  <1>1. req \in AssertionRequest /\ first \in SUBSET CredIds
    BY ParsedRequest
  <1>2. tx = None /\ request' = req /\ UNCHANGED <<now, served, granted, ended>>
    BY DEF GetAssertion
  <1>3. RejectInCooldown \/ HandleAssertion(req, first)
    BY DEF GetAssertion
  <1> HIDE DEF req, first
  <1>4. CASE RejectInCooldown
    <2>1. /\ reply' \in Replies /\ ~IsPhoneAnswer(reply')
          /\ UNCHANGED <<last_cancelled, assertion_cache, pending_client_data_hash,
                         tx, replayed>>
      BY <1>4, StatusReplies, NotPhoneAnswers DEF RejectInCooldown, engineVars
    <2>2. TypeOK'
      BY <1>1, <1>2, <2>1 DEF IInv, TypeOK
    <2>3. CacheKeyed' /\ PendingKeyed' /\ CacheIsGranted'
      BY <1>2, <2>1 DEF IInv, CacheKeyed, PendingKeyed, CacheIsGranted
    <2>4. IdsFresh' /\ ReplayOnce' /\ CooldownRecorded' /\ AnswerFitsRequest'
      BY <1>2, <2>1 DEF IInv, IdsFresh, ReplayOnce, CooldownRecorded, AnswerFitsRequest
    <2> QED
      BY <2>2, <2>3, <2>4 DEF IInv
  <1>5. CASE HandleAssertion(req, first)
    BY <1>1, <1>2, <1>5, AssertionIInv
  <1> QED
    BY <1>3, <1>4, <1>5

LEMMA NextIInv == IInv /\ [Next]_vars => IInv'
  <1> SUFFICES ASSUME IInv, [Next]_vars PROVE IInv'
    OBVIOUS
  <1>1. CASE EmptyCbor \/ GetInfo \/ UnsupportedCommand
    BY <1>1, PlainCommandIInv
  <1>2. ASSUME NEW rp \in RpIds, NEW hash \in MaybeHash, NEW up \in BOOLEAN,
               NEW list \in AllowLists, GetAssertion(rp, hash, up, list)
        PROVE  IInv'
    BY <1>2, GetAssertionIInv
  <1>3. ASSUME NEW rp \in RpIds, MakeCredential(rp) PROVE IInv'
    BY <1>3, MakeCredentialIInv
  <1>4. ASSUME NEW cred \in MaybeCred, Success(cred) PROVE IInv'
    BY <1>4, SuccessIInv
  <1>5. ASSUME NEW result, NoSuccess(result) PROVE IInv'
    BY <1>5, NoSuccessIInv
  <1>6. CASE Tick
    BY <1>6, TickIInv
  <1>7. CASE UNCHANGED vars
    <2>1. /\ UNCHANGED <<now, last_cancelled, assertion_cache, pending_client_data_hash>>
          /\ UNCHANGED <<tx, request, reply, served, granted, replayed, ended>>
      BY <1>7 DEF vars, engineVars, history
    <2>2. TypeOK'
      BY <2>1 DEF IInv, TypeOK
    <2>3. CacheKeyed' /\ PendingKeyed' /\ CacheIsGranted' /\ IdsFresh'
      BY <2>1 DEF IInv, CacheKeyed, PendingKeyed, CacheIsGranted, IdsFresh
    <2>4. ReplayOnce' /\ CooldownRecorded' /\ AnswerFitsRequest'
      BY <2>1 DEF IInv, ReplayOnce, CooldownRecorded, AnswerFitsRequest
    <2> QED
      BY <2>2, <2>3, <2>4 DEF IInv
  <1> QED
    BY <1>1, <1>2, <1>3, <1>4, <1>5, <1>6, <1>7 DEF Next

LEMMA SpecIInv == Spec => []IInv
  BY InitIInv, NextIInv, PTL DEF Spec

-----------------------------------------------------------------------------
(* The results.                                                            *)

(* The engine's variables always have their types, and no stored Instant   *)
(* lies in the future.                                                     *)
THEOREM EngineTypeCorrect == Spec => []TypeOK
  BY SpecIInv, PTL DEF IInv

(* The cache is keyed by the challenge the phone signed for the response it*)
(* holds, although the key comes from a field every GetAssertion rewrites. *)
THEOREM EngineCacheKeyed == Spec => []CacheKeyed
  BY SpecIInv, PTL DEF IInv

(* The browser's GetAssertion is answered for its own rp, challenge and    *)
(* allowList, whether by the phone or by the cache.                        *)
THEOREM EngineAnswerFitsRequest == Spec => []AnswerFitsRequest
  BY SpecIInv, PTL DEF IInv

(* No signature is given out from the cache twice.                         *)
THEOREM EngineReplayOnce == Spec => []ReplayOnce
  BY SpecIInv, PTL DEF IInv

(* Steps that begin a transaction are StartAssertion and StartRegistration,*)
(* both of them outside the cooldown.                                      *)
LEMMA BeginsTransaction ==
    ASSUME IInv, [Next]_vars, tx = None, tx' # None
    PROVE  /\ ~is_in_cooldown
           /\ tx'.req_type = "GetAssertion" =>
                \E req \in AssertionRequest :
                   StartAssertion(req)
  <1>1. CASE UNCHANGED vars
    BY <1>1 DEF vars
  <1>2. CASE EmptyCbor \/ GetInfo \/ UnsupportedCommand \/ Tick
    BY <1>2 DEF EmptyCbor, GetInfo, UnsupportedCommand, Tick
  <1>3. ASSUME NEW rp \in RpIds, NEW hash \in MaybeHash, NEW up \in BOOLEAN,
               NEW list \in AllowLists, GetAssertion(rp, hash, up, list)
        PROVE  /\ ~is_in_cooldown
               /\ \E req \in AssertionRequest : StartAssertion(req)
    <2> DEFINE req == parse_assertion_request(rp, hash, up, list)
    <2>1. req \in AssertionRequest
      BY ParsedRequest
    <2>2. ~RejectInCooldown
      BY DEF RejectInCooldown
    <2>3. ~is_in_cooldown /\ HandleAssertion(req, extract_first_allow_list_credential(list))
      BY <1>3, <2>2 DEF GetAssertion
    <2> HIDE DEF req
    <2>4. StartAssertion(req)
      BY <2>3 DEF HandleAssertion, NoResidentCredential, SilentAssertion, ReplayFromCache
    <2> QED
      BY <2>1, <2>3, <2>4
  <1>4. ASSUME NEW rp \in RpIds, MakeCredential(rp)
        PROVE  ~is_in_cooldown /\ tx'.req_type # "GetAssertion"
    BY <1>4 DEF MakeCredential, RejectInCooldown, RefuseTouchProbe, StartRegistration
  <1>5. ASSUME NEW cred \in MaybeCred, Success(cred) PROVE FALSE
    BY <1>5 DEF Success
  <1>6. ASSUME NEW result, NoSuccess(result) PROVE FALSE
    BY <1>6 DEF NoSuccess
  <1> QED
    BY <1>1, <1>2, <1>3, <1>4, <1>5, <1>6 DEF Next

(* No prompt within cooldown_duration of a ceremony that failed, was       *)
(* cancelled by either side, or was reset.                                 *)
THEOREM EngineCooldownHolds == Spec => CooldownHolds
  <1>1. IInv /\ [Next]_vars =>
          [tx = None /\ tx' # None =>
             ended = None \/ now - ended >= cooldown_duration]_vars
    <2> SUFFICES ASSUME IInv, [Next]_vars, tx = None, tx' # None, ended # None
                 PROVE  now - ended >= cooldown_duration
      OBVIOUS
    <2>1. ~is_in_cooldown
      BY BeginsTransaction
    <2>2. ended = last_cancelled /\ now \in Nat /\ last_cancelled \in Nat
      BY DEF IInv, CooldownRecorded, TypeOK
    <2> QED
      BY <2>1, <2>2, EngineAssumption DEF is_in_cooldown, EngineAssumption
  <1> QED
    BY <1>1, SpecIInv, PTL DEF Spec, CooldownHolds

(* A browser's second-stage request is not sent to the phone again.        *)
THEOREM EngineSecondStageSeamless == Spec => SecondStageSeamless
  <1>1. IInv /\ [Next]_vars =>
          [/\ tx = None /\ tx' # None /\ tx'.req_type = "GetAssertion"
           /\ granted # None /\ replayed[granted.response.id] = 0
           => ~SecondStage(tx')]_vars
    <2> SUFFICES ASSUME IInv, [Next]_vars, tx = None, tx' # None,
                        tx'.req_type = "GetAssertion",
                        granted # None, replayed[granted.response.id] = 0,
                        SecondStage(tx')
                 PROVE  FALSE
      OBVIOUS
    <2>1. PICK req \in AssertionRequest : StartAssertion(req)
      BY BeginsTransaction
    <2>2. /\ assertion_cache # None
          /\ assertion_cache.response = granted.response
          /\ assertion_cache.created_at = granted.at
      BY DEF IInv, CacheIsGranted
    <2>3. CacheKeyed
      BY DEF IInv
    <2>4. /\ req.rp_id = tx'.rp_id /\ req.allow_list = tx'.allow_list
          /\ req.client_data_hash = tx'.client_data_hash
      BY <2>1 DEF StartAssertion
    <2>5. matches(assertion_cache, req)
      BY <2>2, <2>3, <2>4 DEF SecondStage, CacheKeyed, matches
    <2> QED
      BY <2>1, <2>2, <2>5 DEF StartAssertion
  <1> QED
    BY <1>1, SpecIInv, PTL DEF Spec, SecondStageSeamless

(* What the cache gives out is the last assertion signed, within its ttl.  *)
THEOREM EngineReplayIsFresh == Spec => ReplayIsFresh
  <1>1. IInv /\ [Next]_vars =>
          [replayed' # replayed =>
             /\ granted # None
             /\ \A id \in 1..MaxServed :
                   replayed'[id] # replayed[id] => id = granted.response.id
             /\ now - granted.at <= cache_ttl]_vars
    <2> SUFFICES ASSUME IInv, [Next]_vars, replayed' # replayed
                 PROVE  /\ granted # None
                        /\ \A id \in 1..MaxServed :
                              replayed'[id] # replayed[id] => id = granted.response.id
                        /\ now - granted.at <= cache_ttl
      OBVIOUS
    <2>1. \E req \in AssertionRequest : ReplayFromCache(req)
      <3>1. CASE UNCHANGED vars
        BY <3>1 DEF vars, history
      <3>2. CASE EmptyCbor \/ GetInfo \/ UnsupportedCommand \/ Tick
        BY <3>2 DEF EmptyCbor, GetInfo, UnsupportedCommand, Tick, history
      <3>3. ASSUME NEW rp \in RpIds, NEW hash \in MaybeHash, NEW up \in BOOLEAN,
                   NEW list \in AllowLists, GetAssertion(rp, hash, up, list)
            PROVE  \E req \in AssertionRequest : ReplayFromCache(req)
        <4> DEFINE req == parse_assertion_request(rp, hash, up, list)
        <4>1. req \in AssertionRequest
          BY ParsedRequest
        <4>2. ~RejectInCooldown
          BY DEF RejectInCooldown
        <4>3. HandleAssertion(req, extract_first_allow_list_credential(list))
          BY <3>3, <4>2 DEF GetAssertion
        <4> HIDE DEF req
        <4>4. ReplayFromCache(req)
          BY <4>3 DEF HandleAssertion, NoResidentCredential, SilentAssertion, StartAssertion
        <4> QED
          BY <4>1, <4>4
      <3>4. ASSUME NEW rp \in RpIds, MakeCredential(rp) PROVE FALSE
        BY <3>4 DEF MakeCredential, RejectInCooldown, RefuseTouchProbe, StartRegistration
      <3>5. ASSUME NEW cred \in MaybeCred, Success(cred) PROVE FALSE
        BY <3>5 DEF Success
      <3>6. ASSUME NEW result, NoSuccess(result) PROVE FALSE
        BY <3>6 DEF NoSuccess
      <3> QED
        BY <3>1, <3>2, <3>3, <3>4, <3>5, <3>6 DEF Next
    <2>2. PICK req \in AssertionRequest : ReplayFromCache(req)
      BY <2>1
    <2>3. assertion_cache # None /\ matches(assertion_cache, req)
      BY <2>2 DEF ReplayFromCache
    <2>4. /\ granted # None
          /\ assertion_cache.response = granted.response
          /\ assertion_cache.created_at = granted.at
      BY <2>3 DEF IInv, CacheIsGranted
    <2>5. \A id \in 1..MaxServed :
             replayed'[id] # replayed[id] => id = granted.response.id
      BY <2>2, <2>4 DEF ReplayFromCache, IInv, TypeOK
    <2> QED
      BY <2>3, <2>4, <2>5 DEF matches
  <1> QED
    BY <1>1, SpecIInv, PTL DEF Spec, ReplayIsFresh
-----------------------------------------------------------------------------
(* Silent probes.                                                          *)

(* A set of naturals that is not empty has a least element.                *)
LEMMA LeastElement ==
    ASSUME NEW T \in SUBSET Nat, T # {}
    PROVE  \E n \in T : \A k \in T : n <= k
  <1>1. \E n \in T : \A k \in T : ~(<<k, n>> \in OpToRel(<, Nat))
    BY NatLessThanWellFounded, WFMin
  <1>2. PICK n \in T : \A k \in T : ~(<<k, n>> \in OpToRel(<, Nat))
    BY <1>1
  <1>3. \A k \in T : ~(k < n)
    BY <1>2 DEF OpToRel
  <1> QED
    BY <1>3

(* A list with a usable id has a first one.                                *)
LEMMA FirstOfList ==
    ASSUME NEW list \in AllowLists, {list[i] : i \in DOMAIN list} \ {None} # {}
    PROVE  extract_first_allow_list_credential(list) # {}
  <1> DEFINE T == {k \in DOMAIN list : list[k] # None}
  <1>1. DOMAIN list = 1..Len(list) /\ Len(list) \in Nat
    BY EngineAssumption DEF EngineAssumption
  <1>2. T \in SUBSET Nat /\ T # {}
    BY <1>1
  <1>3. PICK n \in T : \A k \in T : n <= k
    BY <1>2, LeastElement
  <1>4. \A j \in 1..(n - 1) : j \in DOMAIN list /\ j \notin T
    BY <1>1, <1>2, <1>3
  <1> QED
    BY <1>3, <1>4 DEF extract_first_allow_list_credential
(* The probes the bridge answers by itself.                                *)
Answerable(req) ==
    ~req.user_presence /\ (req.allow_list_len = 0 \/ req.allow_list # {})

(* While a transaction is open, the last request is none of these.         *)
NoProbePending == tx # None /\ request # None => ~Answerable(request)

LEMMA ProbeStopped ==
    ASSUME NEW rp, NEW hash, NEW up, NEW list \in AllowLists,
           Answerable(parse_assertion_request(rp, hash, up, list))
    PROVE  ~PastProbes(parse_assertion_request(rp, hash, up, list),
                       extract_first_allow_list_credential(list))
  <1> DEFINE req == parse_assertion_request(rp, hash, up, list)
             first == extract_first_allow_list_credential(list)
  <1>1. req.allow_list = {list[i] : i \in DOMAIN list} \ {None}
    BY DEF parse_assertion_request
  <1>2. req.allow_list # {} => first # {}
    BY <1>1, FirstOfList
  <1> HIDE DEF req, first
  <1>3. ~PastProbes(req, first)
    BY <1>2 DEF req, Answerable, PastProbes
  <1> QED
    BY <1>3 DEF req, first

(* A GetAssertion the bridge answers by itself.                            *)
LEMMA ProbeHandled ==
    ASSUME NEW rp, NEW hash, NEW up, NEW list \in AllowLists,
           GetAssertion(rp, hash, up, list), Answerable(request')
    PROVE  tx' = None /\ assertion_cache' = assertion_cache
  <1> DEFINE req == parse_assertion_request(rp, hash, up, list)
             first == extract_first_allow_list_credential(list)
  <1>1. /\ tx = None /\ request' = req
        /\ RejectInCooldown \/ HandleAssertion(req, first)
    BY DEF GetAssertion
  <1>2. ~PastProbes(req, first)
    BY <1>1, ProbeStopped
  <1> HIDE DEF req, first
  <1>3. CASE RejectInCooldown
    BY <1>1, <1>3 DEF RejectInCooldown, engineVars
  <1>4. CASE HandleAssertion(req, first)
    BY <1>1, <1>2, <1>4 DEF HandleAssertion, NoResidentCredential, SilentAssertion
  <1> QED
    BY <1>1, <1>3, <1>4

LEMMA NoProbePendingStep == NoProbePending /\ [Next]_vars => NoProbePending'
  <1> SUFFICES ASSUME NoProbePending, [Next]_vars, tx' # None, request' # None,
                      Answerable(request')
               PROVE  FALSE
    BY DEF NoProbePending
  <1>1. CASE EmptyCbor \/ GetInfo \/ UnsupportedCommand
    BY <1>1 DEF EmptyCbor, GetInfo, UnsupportedCommand
  <1>2. ASSUME NEW rp \in RpIds, NEW hash \in MaybeHash, NEW up \in BOOLEAN,
               NEW list \in AllowLists, GetAssertion(rp, hash, up, list)
        PROVE  FALSE
    BY <1>2, ProbeHandled
  <1>3. ASSUME NEW rp \in RpIds, MakeCredential(rp) PROVE FALSE
    BY <1>3 DEF MakeCredential
  <1>4. ASSUME NEW cred \in MaybeCred, Success(cred) PROVE FALSE
    BY <1>4 DEF Success
  <1>5. ASSUME NEW result, NoSuccess(result) PROVE FALSE
    BY <1>5 DEF NoSuccess
  <1>6. CASE Tick \/ UNCHANGED vars
    BY <1>6 DEF Tick, vars, NoProbePending
  <1> QED
    BY <1>1, <1>2, <1>3, <1>4, <1>5, <1>6 DEF Next

(* A silent probe the bridge can answer never prompts the user and leaves  *)
(* the cached assertion for the request that follows it, whatever the      *)
(* allowList holds beside a usable id (engine.rs:158-175).                 *)
THEOREM EngineProbesAreSilent == Spec => ProbesAreSilent
  <1>1. Init => NoProbePending
    BY DEF Init, NoProbePending
  <1>2. NoProbePending /\ [Next]_vars =>
          [/\ request' # None /\ ~request'.user_presence
           /\ request'.allow_list_len = 0 \/ request'.allow_list # {}
           => tx' = None /\ assertion_cache' = assertion_cache]_vars
    <2> SUFFICES ASSUME NoProbePending, [Next]_vars, request' # None, Answerable(request')
                 PROVE  tx' = None /\ assertion_cache' = assertion_cache
      BY DEF Answerable
    <2>1. NoProbePending'
      BY NoProbePendingStep
    <2>2. tx' = None
      BY <2>1 DEF NoProbePending
    <2>3. CASE EmptyCbor \/ GetInfo \/ UnsupportedCommand
      BY <2>3 DEF EmptyCbor, GetInfo, UnsupportedCommand
    <2>4. ASSUME NEW rp \in RpIds, NEW hash \in MaybeHash, NEW up \in BOOLEAN,
                 NEW list \in AllowLists, GetAssertion(rp, hash, up, list)
          PROVE  assertion_cache' = assertion_cache
      BY <2>4, ProbeHandled
    <2>5. ASSUME NEW rp \in RpIds, MakeCredential(rp) PROVE FALSE
      BY <2>5 DEF MakeCredential
    <2>6. ASSUME NEW cred \in MaybeCred, Success(cred) PROVE FALSE
      BY <2>6 DEF Success, NoProbePending
    <2>7. ASSUME NEW result, NoSuccess(result) PROVE assertion_cache' = assertion_cache
      BY <2>7 DEF NoSuccess
    <2>8. CASE Tick \/ UNCHANGED vars
      BY <2>2, <2>8 DEF Tick, vars, engineVars
    <2> QED
      BY <2>2, <2>3, <2>4, <2>5, <2>6, <2>7, <2>8 DEF Next
  <1> QED
    BY <1>1, <1>2, NoProbePendingStep, PTL DEF Spec, ProbesAreSilent
=============================================================================
