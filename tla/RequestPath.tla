----------------------------- MODULE RequestPath -----------------------------
(***************************************************************************)
(* One request on its way from the host through the translations of Ctap2  *)
(* to the phone and back: what handle_cbor_request of src/src/engine.rs    *)
(* makes of it outside the cooldown and with an empty cache (see           *)
(* BridgeEngine for these), and what the phone makes of the result.        *)
(***************************************************************************)
EXTENDS Ctap2

CONSTANTS
    Menu,           \* command -> key -> values a host may give that key
    DummyRpIds,     \* relying parties of the browsers' "touch me" probes
    Held            \* credential ids the phone holds

Commands == {"MakeCredential", "GetAssertion"}

(* A value that is there; arrays and maps are sequences, and the keys of a  *)
(* map are distinct.                                                       *)
WellFormed(v) ==
    /\ v # Absent
    /\ Items(v) \in Seq({Items(v)[i] : i \in DOMAIN Items(v)})
    /\ Entries(v) \in Seq({Entries(v)[i] : i \in DOMAIN Entries(v)})
    /\ \A i \in DOMAIN Entries(v) : Entries(v)[i][1] \in Keys
    /\ \A i, j \in DOMAIN Entries(v) : i # j => Entries(v)[i][1] # Entries(v)[j][1]

ASSUME RequestPathAssumption ==
    /\ DOMAIN Menu = Commands
    /\ \A command \in Commands : DOMAIN Menu[command] \subseteq 1..7
    /\ \A command \in Commands : \A key \in DOMAIN Menu[command] :
          \A value \in Menu[command][key] : WellFormed(value)
    /\ "" \notin DummyRpIds

VARIABLES
    stage,      \* "composing", "sent", "answered" or "cable"
    request,    \* the host's message
    payload,    \* cable_payload
    rp_id,      \* the relying party shown to the user and used by the engine
    reply,      \* the status or the body the engine answered with, or Absent
    signed,     \* the credential the phone used or created, or Absent
    cached      \* credential_id of the cache entry

vars == <<stage, request, payload, rp_id, reply, signed, cached>>

Nothing == [command |-> "none", body |-> Absent]

TypeOK ==
    /\ stage \in {"composing", "sent", "cable", "answered"}
    /\ request.command \in Commands
    /\ payload.command \in Commands \cup {"none"}
    /\ stage = "cable" => payload.command = request.command
    /\ Is("absent", signed) \/ Is("bytes", signed)
    /\ Is("absent", cached) \/ Is("bytes", cached)

Init ==
    /\ stage = "composing"
    /\ request \in {[command |-> c, body |-> Map(<<>>)] : c \in Commands}
    /\ payload = Nothing /\ rp_id = ""
    /\ reply = Absent /\ signed = Absent /\ cached = Absent

-----------------------------------------------------------------------------
(* The host.                                                               *)

AddEntry(key, value) ==
    /\ stage = "composing"
    /\ \A i \in DOMAIN Entries(request.body) : Entries(request.body)[i][1][2] < key
    /\ request' = [request EXCEPT !.body = Map(Append(Entries(@), <<Num(key), value>>))]
    /\ UNCHANGED <<stage, payload, rp_id, reply, signed, cached>>

(* The message goes out as composed, or is no CBOR at all.                 *)
Send ==
    /\ stage = "composing"
    /\ stage' = "sent"
    /\ \/ UNCHANGED request
       \/ request.body = Map(<<>>) /\ request' = [request EXCEPT !.body = Absent]
    /\ UNCHANGED <<payload, rp_id, reply, signed, cached>>

-----------------------------------------------------------------------------
(* handle_cbor_request.                                                    *)

Answer(r) ==
    /\ stage' = "answered" /\ reply' = r
    /\ UNCHANGED <<request, payload, rp_id, signed, cached>>

StartCable(prepared, rp) ==
    /\ stage' = "cable" /\ payload' = prepared /\ rp_id' = rp
    /\ UNCHANGED <<request, reply, signed, cached>>

NoResidentCredential ==
    LET req == parse_assertion_request(request) IN
    /\ stage = "sent" /\ request.command = "GetAssertion"
    /\ ~req.user_presence /\ req.allow_list_len = 0
    /\ Answer(<<"status", "CTAP2_ERR_NO_CREDENTIALS">>)

SilentAssertion ==
    LET req   == parse_assertion_request(request)
        first == extract_first_allow_list_credential(request)
    IN
    /\ stage = "sent" /\ request.command = "GetAssertion"
    /\ ~req.user_presence /\ req.allow_list_len # 0 /\ first # Absent
    /\ Answer(build_silent_assertion_response(req.rp_id, first))

StartAssertion ==
    LET req == parse_assertion_request(request) IN
    /\ stage = "sent" /\ request.command = "GetAssertion"
    /\ \/ req.user_presence
       \/ req.allow_list_len # 0 /\ extract_first_allow_list_credential(request) = Absent
    /\ StartCable(prepare_get_assertion_for_cable(request), req.rp_id)

HandleMakeCredential ==
    LET prepared == prepare_make_credential_for_cable(request)
        rp == extract_make_credential_rp_id(prepared)
    IN
    /\ stage = "sent" /\ request.command = "MakeCredential"
    /\ \/ rp \in DummyRpIds /\ Answer(<<"status", "CTAP2_ERR_OPERATION_DENIED">>)
       \/ rp \notin DummyRpIds /\ StartCable(prepared, rp)

-----------------------------------------------------------------------------
(* The phone, and handle_transaction_outcome.                              *)

Ids(list) == LET s == CredentialIds(list) IN {s[i] : i \in DOMAIN s}

BadCachesFirstListed(resp) ==
    cached' = extract_first_allow_list_credential(request)

CacheAssertion(resp) == cached' = extract_assertion_credential_id(resp)

(* A credential of the allowList, or any without one.  For a list of one   *)
(* the answer may leave its descriptor out.                                *)
PhoneAsserts(id) ==
    LET list == Field(payload.body, Num(3))
        full == <<<<Num(1), Descriptor(Bytes(id), PublicKey)>>>>
    IN
    /\ stage = "cable" /\ payload.command = "GetAssertion" /\ Is("map", payload.body)
    /\ id \in Held
    /\ list # Absent => id \in Ids(list)
    /\ \E resp \in {Map(full)} \cup (IF Len(Items(list)) = 1 THEN {Map(<<>>)} ELSE {}) :
          reply' = resp /\ CacheAssertion(resp)
    /\ signed' = Bytes(id)
    /\ stage' = "answered"
    /\ UNCHANGED <<request, payload, rp_id>>

(* It creates a credential of an algorithm it knows, and none for an       *)
(* account it holds a listed one of.                                       *)
PhoneRegisters ==
    /\ stage = "cable" /\ payload.command = "MakeCredential" /\ Is("map", payload.body)
    /\ ES256 \in Algorithms(Field(payload.body, Num(4)))
    /\ Ids(Field(payload.body, Num(5))) \cap Held = {}
    /\ stage' = "answered" /\ reply' = Map(<<<<Num(2), Bytes("new")>>>>)
    /\ signed' = Bytes("new")
    /\ UNCHANGED <<request, payload, rp_id, cached>>

PhoneRefuses ==
    /\ stage = "cable"
    /\ Answer(<<"status", "CTAP2_ERR_KEEPALIVE_CANCEL">>)

NextRequest ==
    /\ stage = "answered"
    /\ stage' = "composing"
    /\ request' \in {[command |-> c, body |-> Map(<<>>)] : c \in Commands}
    /\ payload' = Nothing /\ rp_id' = ""
    /\ reply' = Absent /\ signed' = Absent /\ cached' = Absent

Next ==
    \/ \E key \in DOMAIN Menu[request.command] :
          \E value \in Menu[request.command][key] : AddEntry(key, value)
    \/ Send
    \/ NoResidentCredential \/ SilentAssertion \/ StartAssertion
    \/ HandleMakeCredential
    \/ \E id \in Held : PhoneAsserts(id)
    \/ PhoneRegisters
    \/ PhoneRefuses
    \/ NextRequest

Spec == Init /\ [][Next]_vars

-----------------------------------------------------------------------------
(* Properties.                                                             *)

OnCable(command) == stage = "cable" /\ request.command = command /\ Is("map", payload.body)

ListKey(command) == IF command = "GetAssertion" THEN 3 ELSE 5

(* The phone is given exactly the host's usable credentials, in their      *)
(* order, and no list only if the host listed no credential with an id:    *)
(* the sanitising never widens, narrows or reorders an allowList or an     *)
(* excludeList (ctap2.rs:397-426, 625-643, 744-762).                       *)
CredentialsKept ==
    \A command \in Commands : OnCable(command) =>
        LET host  == Field(request.body, Num(ListKey(command)))
            phone == Field(payload.body, Num(ListKey(command)))
        IN /\ CredentialIds(phone) = CredentialIds(host)
           /\ phone = Absent => CredentialIds(host) = <<>>

(* What the host gets back was signed with a credential it listed, unless  *)
(* its list had none with an id (ctap2.rs:754 then drops the list), and    *)
(* what the engine caches is that credential or none.                      *)
AnswerIsListed ==
    request.command = "GetAssertion" /\ signed # Absent =>
        LET ids == Ids(Field(request.body, Num(3))) IN
        /\ ids = {} \/ signed[2] \in ids
        /\ cached \in {signed, Absent}

(* The relying party the user is shown and the engine files the answer     *)
(* under is the one the phone is asked for, and no touch probe of a        *)
(* browser, however it spells its party, gets to the phone                 *)
(* (ctap2.rs:230-271, 481-527, engine.rs:206-210).                         *)
SameParty ==
    /\ OnCable("GetAssertion") /\ Is("text", Field(payload.body, Num(1)))
          => rp_id = Field(payload.body, Num(1))[2]
    /\ OnCable("MakeCredential") /\ Field(payload.body, Num(2)) # Absent
          => rp_id = Field(Field(payload.body, Num(2)), Text("id"))[2]
    /\ OnCable("MakeCredential") =>
          Field(Field(request.body, Num(2)), Text("id")) \notin {Text(rp) : rp \in DummyRpIds}

(* The phone is asked to verify the user whenever the host asks for it or  *)
(* leaves it open, always to be present for an assertion and to verify the *)
(* user and keep the credential for a registration, whatever options the   *)
(* host gave or left out, and to create a credential only for an algorithm *)
(* the host offered (ctap2.rs:587-624, 649-676, 767-790).                  *)
PolicyKept ==
    /\ OnCable("GetAssertion") =>
          /\ Option(payload.body, "up", FALSE)
          /\ Option(request.body, "uv", TRUE) => Option(payload.body, "uv", FALSE)
    /\ OnCable("MakeCredential") =>
          LET options == Field(payload.body, Num(7)) IN
          /\ Field(options, Text("rk")) = Bool(TRUE)
          /\ Field(options, Text("uv")) = Bool(TRUE)
          /\ Field(options, Text("up")) = Absent
          /\ Algorithms(Field(payload.body, Num(4))) \subseteq
                 Algorithms(Field(request.body, Num(4)))

CanonicalMap(v) ==
    \A i, j \in DOMAIN Entries(v) :
        i < j => KeyRank(Entries(v)[i][1]) < KeyRank(Entries(v)[j][1])

(* The request for the phone and the maps rebuilt in it are in canonical   *)
(* order, whatever the host left out, and none of it was meant for USB or  *)
(* is an extension (ctap2.rs:219-227, 428-439).                            *)
Canonical ==
    \A command \in Commands : OnCable(command) =>
        /\ CanonicalMap(payload.body)
        /\ \A i \in DOMAIN Entries(payload.body) : CanonicalMap(Entries(payload.body)[i][2])
        /\ \A desc \in {Items(Field(payload.body, Num(ListKey(command))))[i] :
                           i \in DOMAIN Items(Field(payload.body, Num(ListKey(command))))} :
              CanonicalMap(desc) /\ Field(desc, Text("transports")) = Absent
        /\ Field(payload.body, Num(IF command = "GetAssertion" THEN 4 ELSE 6)) = Absent

=============================================================================
