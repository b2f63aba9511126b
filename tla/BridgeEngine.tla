---------------------------- MODULE BridgeEngine ----------------------------
(***************************************************************************)
(* The protocol engine of src/src/engine.rs: the cancellation cooldown,    *)
(* the two-stage assertion cache and the dispatch of CTAP2 commands, as    *)
(* the single-threaded daemon loop of src/src/main.rs drives them.  While  *)
(* a caBLE transaction is open the loop hands the engine no CBOR command,  *)
(* so every handler below is guarded by tx = None.                         *)
(*                                                                         *)
(* Time is the variable now; an Instant is a value of now and elapsed() a  *)
(* difference.  Byte strings (hashes, credential ids) are atoms.           *)
(***************************************************************************)
EXTENDS Integers, Sequences

CONSTANTS
    RpIds,              \* relying party ids
    DummyRpIds,         \* those of the browsers' "touch me" probes
    Hashes,             \* non-empty clientDataHash values
    CredIds,            \* credential ids
    AllowLists,         \* allowLists the browser sends: sequences over CredIds \cup {None}
    None,               \* Rust's None; a descriptor without a byte-string id; Vec::new()
    cooldown_duration,
    cache_ttl,
    MaxNow,             \* bound: the clock stops here
    MaxServed           \* bound: successful answers of the phone

ASSUME EngineAssumption ==
    /\ cooldown_duration \in Nat /\ cache_ttl \in Nat
    /\ MaxNow \in Nat /\ MaxServed \in Nat
    /\ DummyRpIds \subseteq RpIds
    /\ None \notin RpIds \cup Hashes \cup CredIds
    /\ None \notin Nat
    /\ AllowLists \subseteq Seq(CredIds \cup {None})

CTAP2_ERR_OPERATION_DENIED   == 39      \* 0x27
CTAP2_ERR_UNSUPPORTED_OPTION == 43      \* 0x2B
CTAP2_ERR_KEEPALIVE_CANCEL   == 45      \* 0x2D
CTAP2_ERR_NO_CREDENTIALS     == 46      \* 0x2E

MaybeHash == Hashes \cup {None}
MaybeCred == CredIds \cup {None}

(* What parse_assertion_request keeps of a GetAssertion.  allow_list has   *)
(* only the descriptors whose id is a byte string, allow_list_len counts   *)
(* them all; an absent clientDataHash is the empty vector.                 *)
AssertionRequest ==
    [rp_id: RpIds, client_data_hash: MaybeHash, user_presence: BOOLEAN,
     allow_list_len: Nat, allow_list: SUBSET CredIds]

parse_assertion_request(rp, hash, up, list) ==
    [rp_id |-> rp, client_data_hash |-> hash, user_presence |-> up,
     allow_list_len |-> Len(list),
     allow_list |-> {list[i] : i \in DOMAIN list} \ {None}]

(* The first byte-string id of the allowList: no or one element.           *)
extract_first_allow_list_credential(list) ==
    {list[i] : i \in {k \in DOMAIN list :
                         list[k] # None /\ \A j \in 1..(k - 1) : list[j] = None}}

(* Response bodies.  A phone's answer is numbered, and carries the rp and  *)
(* the clientDataHash it was signed over.                                  *)
PhoneResponse ==
    [kind: {"assertion", "attestation"}, id: 1..MaxServed, rp_id: RpIds,
     client_data_hash: MaybeHash, credential_id: MaybeCred]
SyntheticResponse == [kind: {"synthetic"}, rp_id: RpIds, credential_id: CredIds]
InfoResponse == [kind: {"info"}]

CachedAssertion ==
    [rp_id: RpIds, client_data_hash: MaybeHash, credential_id: MaybeCred,
     response: PhoneResponse, created_at: Nat]

Transaction ==
    [req_type: {"GetAssertion", "DiscoverableMakeCredential"}, rp_id: RpIds,
     client_data_hash: MaybeHash, allow_list: SUBSET CredIds]

Grant == [response: PhoneResponse, at: Nat]

(* Some(x) is x itself, so None may not be mistaken for a record.          *)
ASSUME NoneAssumption ==
    None \notin CachedAssertion \cup Transaction \cup AssertionRequest \cup Grant

(* EngineCborAction, as the transport sees it.                             *)
SendStatus(status)   == [action |-> "SendStatus", status |-> status]
SendResponse(body)   == [action |-> "SendResponse", body |-> body]
StartCable           == [action |-> "StartCableTransaction"]
Ignore               == [action |-> "Ignore"]
NoReply              == [action |-> "None"]

Replies ==
    {SendStatus(s) : s \in {CTAP2_ERR_OPERATION_DENIED, CTAP2_ERR_UNSUPPORTED_OPTION,
                            CTAP2_ERR_KEEPALIVE_CANCEL, CTAP2_ERR_NO_CREDENTIALS}}
    \cup {SendResponse(b) : b \in PhoneResponse \cup SyntheticResponse \cup InfoResponse}
    \cup {StartCable, Ignore, NoReply}

VARIABLES
    now,
    last_cancelled, assertion_cache, pending_client_data_hash,  \* BridgeEngine
    tx,         \* the transaction handle_cable_transaction runs, or None
    request,    \* the last GetAssertion handled, None after any other command
    reply,      \* what the last handler returned
    served,     \* history: number of answers the phones gave
    granted,    \* history: the last assertion a phone signed, and when
    replayed,   \* history: how often each answer was given from the cache
    ended       \* history: when a transaction last ended without success

engineVars == <<last_cancelled, assertion_cache, pending_client_data_hash>>
history == <<served, granted, replayed, ended>>
vars == <<now, engineVars, tx, request, reply, history>>

TypeOK ==
    /\ now \in Nat
    /\ last_cancelled \in Nat \cup {None}
    /\ last_cancelled # None => last_cancelled <= now
    /\ assertion_cache \in CachedAssertion \cup {None}
    /\ assertion_cache # None => assertion_cache.created_at <= now
    /\ pending_client_data_hash \in MaybeHash
    /\ tx \in Transaction \cup {None}
    /\ request \in AssertionRequest \cup {None}
    /\ reply \in Replies
    /\ served \in Nat
    /\ granted \in Grant \cup {None}
    /\ replayed \in [1..MaxServed -> Nat]
    /\ ended \in Nat \cup {None}

Init ==
    /\ now = 0
    /\ last_cancelled = None /\ assertion_cache = None
    /\ pending_client_data_hash = None
    /\ tx = None /\ request = None /\ reply = NoReply
    /\ served = 0 /\ granted = None /\ ended = None
    /\ replayed = [id \in 1..MaxServed |-> 0]

-----------------------------------------------------------------------------
(* Helpers of the engine.                                                  *)

is_in_cooldown ==
    last_cancelled # None /\ now - last_cancelled < cooldown_duration

(* Definitions named Bad... are wrong variants a change to the code could  *)
(* introduce; nothing uses them but the mutation runs.                     *)
BadRecordDeadline == last_cancelled' = now + cooldown_duration

record_cancellation == last_cancelled' = now

BadMatchesAnyAge(cached, req) ==
    /\ cached.rp_id = req.rp_id
    /\ cached.client_data_hash = None \/ req.client_data_hash = None
          \/ cached.client_data_hash = req.client_data_hash
    /\ req.allow_list = {} \/ cached.credential_id = None
          \/ cached.credential_id \in req.allow_list

BadMatchesAnyCredential(cached, req) ==
    /\ now - cached.created_at <= cache_ttl
    /\ cached.rp_id = req.rp_id
    /\ cached.client_data_hash = None \/ req.client_data_hash = None
          \/ cached.client_data_hash = req.client_data_hash

matches(cached, req) ==
    /\ now - cached.created_at <= cache_ttl
    /\ cached.rp_id = req.rp_id
    /\ \/ cached.client_data_hash = None
       \/ req.client_data_hash = None
       \/ cached.client_data_hash = req.client_data_hash
    /\ \/ req.allow_list = {}
       \/ cached.credential_id = None
       \/ cached.credential_id \in req.allow_list

-----------------------------------------------------------------------------
(* handle_cbor_request, one action per command.                            *)

EmptyCbor ==
    /\ tx = None
    /\ reply' = Ignore /\ request' = None
    /\ UNCHANGED <<now, engineVars, tx, history>>

GetInfo ==
    /\ tx = None
    /\ reply' = SendResponse([kind |-> "info"]) /\ request' = None
    /\ UNCHANGED <<now, engineVars, tx, history>>

UnsupportedCommand ==
    /\ tx = None
    /\ reply' = SendStatus(CTAP2_ERR_UNSUPPORTED_OPTION) /\ request' = None
    /\ UNCHANGED <<now, engineVars, tx, history>>

(* A silent probe without allowList: the registration pre-flight.          *)
NoResidentCredential(req) ==
    /\ ~req.user_presence /\ req.allow_list_len = 0
    /\ reply' = SendStatus(CTAP2_ERR_NO_CREDENTIALS)
    /\ UNCHANGED <<assertion_cache, tx, replayed>>

(* A silent probe with an allowList is answered for its first credential.  *)
SilentAssertion(req, first) ==
    /\ ~req.user_presence /\ req.allow_list_len # 0
    /\ \E cred \in first :
          reply' = SendResponse([kind |-> "synthetic", rp_id |-> req.rp_id,
                                 credential_id |-> cred])
    /\ UNCHANGED <<assertion_cache, tx, replayed>>

BadCacheBeforeProbes(req, first) ==
    req.user_presence \/ (req.allow_list_len # 0 /\ first = {})
        \/ assertion_cache # None

(* Neither shortcut applied: the request is for the cache or the phone.    *)
PastProbes(req, first) ==
    req.user_presence \/ (req.allow_list_len # 0 /\ first = {})

BadReplayKeepsEntry(req) ==
    /\ assertion_cache # None /\ matches(assertion_cache, req)
    /\ reply' = SendResponse(assertion_cache.response)
    /\ replayed' = [replayed EXCEPT ![assertion_cache.response.id] = @ + 1]
    /\ UNCHANGED <<assertion_cache, tx>>

(* take() leaves the cache empty, so the answer is given at most once more.*)
ReplayFromCache(req) ==
    /\ assertion_cache # None /\ matches(assertion_cache, req)
    /\ reply' = SendResponse(assertion_cache.response)
    /\ assertion_cache' = None
    /\ replayed' = [replayed EXCEPT ![assertion_cache.response.id] = @ + 1]
    /\ UNCHANGED tx

BadMissDropsEntry(req) ==
    /\ assertion_cache # None => ~matches(assertion_cache, req)
    /\ tx' = [req_type |-> "GetAssertion", rp_id |-> req.rp_id,
              client_data_hash |-> req.client_data_hash, allow_list |-> req.allow_list]
    /\ reply' = StartCable
    /\ assertion_cache' = None
    /\ UNCHANGED replayed

(* An entry that does not match is put back.                               *)
StartAssertion(req) ==
    /\ assertion_cache # None => ~matches(assertion_cache, req)
    /\ tx' = [req_type |-> "GetAssertion", rp_id |-> req.rp_id,
              client_data_hash |-> req.client_data_hash, allow_list |-> req.allow_list]
    /\ reply' = StartCable
    /\ UNCHANGED <<assertion_cache, replayed>>

BadPendingKeptFromEarlier(req, first) ==
    /\ pending_client_data_hash' = IF pending_client_data_hash = None
                                   THEN req.client_data_hash
                                   ELSE pending_client_data_hash
    /\ \/ NoResidentCredential(req)
       \/ SilentAssertion(req, first)
       \/ PastProbes(req, first) /\ ReplayFromCache(req)
       \/ PastProbes(req, first) /\ StartAssertion(req)
    /\ UNCHANGED last_cancelled

HandleAssertion(req, first) ==
    /\ pending_client_data_hash' = req.client_data_hash
    /\ \/ NoResidentCredential(req)
       \/ SilentAssertion(req, first)
       \/ PastProbes(req, first) /\ ReplayFromCache(req)
       \/ PastProbes(req, first) /\ StartAssertion(req)
    /\ UNCHANGED last_cancelled

RejectInCooldown ==
    /\ is_in_cooldown
    /\ reply' = SendStatus(CTAP2_ERR_KEEPALIVE_CANCEL)
    /\ UNCHANGED <<engineVars, tx, replayed>>

GetAssertion(rp, hash, up, list) ==
    LET req == parse_assertion_request(rp, hash, up, list) IN
    /\ tx = None
    /\ request' = req
    /\ \/ RejectInCooldown
       \/ /\ ~is_in_cooldown
          /\ HandleAssertion(req, extract_first_allow_list_credential(list))
    /\ UNCHANGED <<now, served, granted, ended>>

StartRegistration(rp) ==
    /\ ~is_in_cooldown /\ rp \notin DummyRpIds
    /\ tx' = [req_type |-> "DiscoverableMakeCredential", rp_id |-> rp,
              client_data_hash |-> None, allow_list |-> {}]
    /\ reply' = StartCable
    /\ UNCHANGED <<engineVars, replayed>>

RefuseTouchProbe(rp) ==
    /\ ~is_in_cooldown /\ rp \in DummyRpIds
    /\ reply' = SendStatus(CTAP2_ERR_OPERATION_DENIED)
    /\ UNCHANGED <<engineVars, tx, replayed>>

MakeCredential(rp) ==
    /\ tx = None
    /\ request' = None
    /\ RejectInCooldown \/ RefuseTouchProbe(rp) \/ StartRegistration(rp)
    /\ UNCHANGED <<now, served, granted, ended>>

-----------------------------------------------------------------------------
(* handle_transaction_outcome.                                             *)

(* What a phone can answer: signed over what it was sent, for a credential *)
(* of the allowList it was given, whose descriptor it may leave out.       *)
PhoneAnswer(cred) ==
    [kind |-> IF tx.req_type = "GetAssertion" THEN "assertion" ELSE "attestation",
     id |-> served + 1, rp_id |-> tx.rp_id,
     client_data_hash |-> tx.client_data_hash, credential_id |-> cred]

FillCache(resp) ==
    IF tx.req_type = "GetAssertion"
    THEN /\ assertion_cache' =
              [rp_id |-> tx.rp_id, client_data_hash |-> pending_client_data_hash,
               credential_id |-> resp.credential_id, response |-> resp,
               created_at |-> now]
         /\ pending_client_data_hash' = None
    ELSE UNCHANGED <<assertion_cache, pending_client_data_hash>>

Success(cred) ==
    /\ tx # None /\ served < MaxServed
    /\ tx.allow_list # {} => cred \in tx.allow_list \cup {None}
    /\ FillCache(PhoneAnswer(cred))
    /\ reply' = SendResponse(PhoneAnswer(cred))
    /\ tx' = None /\ served' = served + 1
    /\ granted' = IF tx.req_type = "GetAssertion"
                  THEN [response |-> PhoneAnswer(cred), at |-> now] ELSE granted
    /\ UNCHANGED <<now, last_cancelled, request, replayed, ended>>

BadResetStartsNoCooldown(result) ==
    /\ tx # None
    /\ IF result = "HostReset" THEN UNCHANGED last_cancelled ELSE record_cancellation
    /\ reply' = IF result = "HostReset" THEN NoReply
                ELSE SendStatus(CTAP2_ERR_KEEPALIVE_CANCEL)
    /\ tx' = None /\ ended' = now
    /\ UNCHANGED <<now, assertion_cache, pending_client_data_hash, request,
                   served, granted, replayed>>

(* UserCancelled, HostCancelled and Failed answer alike, HostReset not.    *)
NoSuccess(result) ==
    /\ tx # None
    /\ record_cancellation
    /\ reply' = IF result = "HostReset" THEN NoReply
                ELSE SendStatus(CTAP2_ERR_KEEPALIVE_CANCEL)
    /\ tx' = None /\ ended' = now
    /\ UNCHANGED <<now, assertion_cache, pending_client_data_hash, request,
                   served, granted, replayed>>

Tick ==
    /\ now < MaxNow
    /\ now' = now + 1
    /\ UNCHANGED <<engineVars, tx, request, reply, history>>

Next ==
    \/ EmptyCbor
    \/ GetInfo
    \/ UnsupportedCommand
    \/ \E rp \in RpIds, hash \in MaybeHash, up \in BOOLEAN, list \in AllowLists :
          GetAssertion(rp, hash, up, list)
    \/ \E rp \in RpIds : MakeCredential(rp)
    \/ \E cred \in MaybeCred : Success(cred)
    \/ \E result \in {"UserCancelled", "HostCancelled", "HostReset", "Failed"} :
          NoSuccess(result)
    \/ Tick

Spec == Init /\ [][Next]_vars

-----------------------------------------------------------------------------
(* Properties.                                                             *)

IsPhoneAnswer(r) ==
    r.action = "SendResponse" /\ r.body.kind \in {"assertion", "attestation"}

(* The cache is filled with the hash left pending by whichever GetAssertion*)
(* was handled last (engine.rs:156, 237): that must be the challenge the   *)
(* phone signed for this very response, and the rp and credential must be  *)
(* the response's own.                                                     *)
CacheKeyed ==
    assertion_cache # None =>
        /\ assertion_cache.response.kind = "assertion"
        /\ assertion_cache.rp_id = assertion_cache.response.rp_id
        /\ assertion_cache.client_data_hash = assertion_cache.response.client_data_hash
        /\ assertion_cache.credential_id = assertion_cache.response.credential_id

(* What the browser gets for a GetAssertion, from the phone or from the    *)
(* cache, is an assertion for its rp, over its challenge where both have   *)
(* one, and for a credential it allowed.                                   *)
AnswerFitsRequest ==
    (request # None /\ IsPhoneAnswer(reply)) =>
        /\ reply.body.kind = "assertion"
        /\ reply.body.rp_id = request.rp_id
        /\ (request.client_data_hash # None /\ reply.body.client_data_hash # None)
              => reply.body.client_data_hash = request.client_data_hash
        /\ (request.allow_list # {} /\ reply.body.credential_id # None)
              => reply.body.credential_id \in request.allow_list

(* A phone's signature leaves the cache at most once, whatever mixture of  *)
(* probes, non-matching requests and failed transactions comes between     *)
(* (engine.rs:178-186).                                                    *)
ReplayOnce == \A id \in 1..MaxServed : replayed[id] <= 1

(* Only the latest assertion is ever replayed, and not after cache_ttl     *)
(* (engine.rs:37).                                                         *)
ReplayIsFresh ==
    [][replayed' # replayed =>
         /\ granted # None
         /\ \A id \in 1..MaxServed :
               replayed'[id] # replayed[id] => id = granted.response.id
         /\ now - granted.at <= cache_ttl]_vars

(* After a ceremony ended without success, however it ended, the user sees *)
(* no new prompt for cooldown_duration (engine.rs:148-153, 198-201).       *)
CooldownHolds ==
    [][tx = None /\ tx' # None =>
         ended = None \/ now - ended >= cooldown_duration]_vars

(* The second stage of a two-stage selection - same rp, same challenge, the*)
(* credential allowed or unknown, in time - is never sent to the phone     *)
(* while the first answer has not been replayed (engine.rs:6-9).           *)
SecondStage(req) ==
    /\ req.rp_id = granted.response.rp_id
    /\ req.client_data_hash = granted.response.client_data_hash
    /\ \/ req.allow_list = {}
       \/ granted.response.credential_id = None
       \/ granted.response.credential_id \in req.allow_list
    /\ now - granted.at <= cache_ttl

SecondStageSeamless ==
    [][/\ tx = None /\ tx' # None /\ tx'.req_type = "GetAssertion"
       /\ granted # None /\ replayed[granted.response.id] = 0
       => ~SecondStage(tx')]_vars

(* A silent probe the bridge can answer neither prompts the user nor spends*)
(* the cached assertion the browser's next request is meant for            *)
(* (engine.rs:158-175).                                                    *)
ProbesAreSilent ==
    [][/\ request' # None /\ ~request'.user_presence
       /\ request'.allow_list_len = 0 \/ request'.allow_list # {}
       => tx' = None /\ assertion_cache' = assertion_cache]_vars

(* ctap2.rs:185: a silent probe is satisfied "instantly without user       *)
(* interaction or caBLE prompts".                                          *)
SilentNeverPrompts == tx # None /\ request # None => request.user_presence

(* engine.rs:43: "If client_data_hash is present in either, ensure they    *)
(* match cryptographically".                                               *)
HashesMatchIfEither ==
    request # None /\ IsPhoneAnswer(reply) =>
        reply.body.client_data_hash = request.client_data_hash
=============================================================================
