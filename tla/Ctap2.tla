-------------------------------- MODULE Ctap2 --------------------------------
(***************************************************************************)
(* The request and response translations of src/src/ctap2.rs as operators  *)
(* on CBOR values.                                                         *)
(*                                                                         *)
(* A value is a pair <<kind, payload>>; a map is the sequence of its       *)
(* <<key, value>> entries in the order of the encoding, which is what the  *)
(* code sorts.  Texts and byte strings are atoms written as strings, and a *)
(* message is a record of its command byte and the value after it.  Keys   *)
(* of one map are distinct, as CBOR wants them.                            *)
(***************************************************************************)
EXTENDS Integers, Sequences, FiniteSets

Num(n)   == <<"int", n>>
Text(s)  == <<"text", s>>
Bytes(b) == <<"bytes", b>>
Bool(b)  == <<"bool", b>>
Array(s) == <<"array", s>>
Map(m)   == <<"map", m>>
Absent   == <<"absent", "">>       \* no value, or bytes that are no CBOR

Is(kind, v) == v[1] = kind

Items(v)   == IF Is("array", v) THEN v[2] ELSE <<>>
Entries(v) == IF Is("map", v) THEN v[2] ELSE <<>>

(* The value under a key.                                                  *)
Field(v, key) ==
    LET at == {i \in DOMAIN Entries(v) : Entries(v)[i][1] = key} IN
    IF at = {} THEN Absent ELSE Entries(v)[CHOOSE i \in at : TRUE][2]

(* The payload of a value of that kind, or a default.                      *)
Payload(v, kind, default) == IF Is(kind, v) THEN v[2] ELSE default

(* A text counts only if it is not empty.                                  *)
NonEmpty(v, default) == IF Is("text", v) /\ v[2] # "" THEN v[2] ELSE default

MapSeq(Op(_), s) == [i \in DOMAIN s |-> Op(s[i])]

(* The n-th of S in the strict order R.                                    *)
Nth(S, R, n) == CHOOSE i \in S : Cardinality({j \in S : <<j, i>> \in R}) = n - 1

(* The elements at the places in I, in their order.                        *)
Picked(s, I) ==
    [n \in 1..Cardinality(I) |-> s[Nth(I, {e \in I \X I : e[1] < e[2]}, n)]]

Selected(s, Keep(_)) == Picked(s, {i \in DOMAIN s : Keep(s[i])})

-----------------------------------------------------------------------------
(* sort_cbor_map: canonical order is by the length of a key's encoding,    *)
(* then by its bytes.  An integer key below 24 takes one byte, a text one  *)
(* byte more than it has letters.                                          *)

KeyRank(key) ==
    IF Is("int", key) THEN key[2]
    ELSE [id |-> 30, rk |-> 31, up |-> 32, uv |-> 33, alg |-> 40, icon |-> 50,
          name |-> 51, type |-> 52, transports |-> 60, displayName |-> 61][key[2]]

(* The keys with a rank.                                                   *)
Keys ==
    {Num(k) : k \in 0..23} \cup
    {Text(name) : name \in {"id", "rk", "up", "uv", "alg", "icon", "name", "type",
                            "transports", "displayName"}}

(* Definitions named Bad... are wrong variants a change to the code could  *)
(* introduce; nothing uses them but the mutation runs.                     *)
BadSorted(m) == m

(* A stable sort: places are ordered by the rank of their key, then as     *)
(* they are.                                                               *)
Order(m) ==
    {e \in (DOMAIN m) \X (DOMAIN m) :
        \/ KeyRank(m[e[1]][1]) < KeyRank(m[e[2]][1])
        \/ KeyRank(m[e[1]][1]) = KeyRank(m[e[2]][1]) /\ e[1] < e[2]}

Sorted(m) == [n \in DOMAIN m |-> m[Nth(DOMAIN m, Order(m), n)]]

SortedMap(m) == Map(Sorted(m))

-----------------------------------------------------------------------------
(* Credential descriptors.                                                 *)

PublicKey == Text("public-key")

Descriptor(id, type) == SortedMap(<<<<Text("id"), id>>, <<Text("type"), type>>>>)

HasBytesId(desc) == Is("bytes", Field(desc, Text("id")))

(* The byte-string ids of a list, in its order.                            *)
CredentialIds(list) ==
    MapSeq(LAMBDA desc : Field(desc, Text("id"))[2], Selected(Items(list), HasBytesId))

(* Only "id", of any kind, and "type" are kept; transports are dropped.    *)
sanitize_credential_descriptor(desc) ==
    LET id   == Field(desc, Text("id"))
        type == Field(desc, Text("type"))
    IN IF id = Absent THEN Absent
       ELSE Descriptor(id, IF type = Absent THEN PublicKey ELSE type)

BadSanitizedNeedsType(list) ==
    MapSeq(sanitize_credential_descriptor,
           Selected(Items(list), LAMBDA desc : Field(desc, Text("type")) # Absent))

SanitizedList(list) ==
    MapSeq(sanitize_credential_descriptor,
           Selected(Items(list), LAMBDA desc : sanitize_credential_descriptor(desc) # Absent))

-----------------------------------------------------------------------------
(* What the engine reads in a GetAssertion, in a prepared MakeCredential   *)
(* and in an assertion.                                                    *)

Option(body, name, default) ==
    Payload(Field(Field(body, Num(5)), Text(name)), "bool", default)

parse_assertion_request(raw) ==
    [rp_id             |-> Payload(Field(raw.body, Num(1)), "text", "Passkey Authentication"),
     client_data_hash  |-> Payload(Field(raw.body, Num(2)), "bytes", ""),
     user_presence     |-> Option(raw.body, "up", TRUE),
     user_verification |-> Option(raw.body, "uv", FALSE),
     allow_list_len    |-> Len(Items(Field(raw.body, Num(3)))),
     allow_list        |-> CredentialIds(Field(raw.body, Num(3)))]

(* The first descriptor with a byte-string id, rebuilt, or Absent.         *)
extract_first_allow_list_credential(raw) ==
    LET ids == CredentialIds(Field(raw.body, Num(3))) IN
    IF ids = <<>> THEN Absent ELSE Descriptor(Bytes(ids[1]), PublicKey)

BadNameFirst(raw) ==
    LET rp == Field(raw.body, Num(2)) IN
    NonEmpty(Field(rp, Text("name")),
             NonEmpty(Field(rp, Text("id")), "Passkey Registration"))

extract_make_credential_rp_id(raw) ==
    LET rp == Field(raw.body, Num(2)) IN
    NonEmpty(Field(rp, Text("id")),
             NonEmpty(Field(rp, Text("name")), "Passkey Registration"))

BadExtractsDescriptor(resp) == Field(resp, Num(1))

(* The credential descriptor of an answer may be missing.                  *)
extract_assertion_credential_id(resp) ==
    LET id == Field(Field(resp, Num(1)), Text("id")) IN
    IF Is("bytes", id) THEN id ELSE Absent

(* authData is the relying party (for its hash), no flags and a zero       *)
(* counter; the signature is a dummy.                                      *)
build_silent_assertion_response(rp_id, desc) ==
    SortedMap(<<<<Num(1), desc>>, <<Num(2), Bytes(rp_id)>>, <<Num(3), Bytes("dummy")>>>>)

-----------------------------------------------------------------------------
(* prepare_make_credential_for_cable.                                      *)

Others(v, names) ==
    Selected(Entries(v), LAMBDA e : e[1] \notin {Text(n) : n \in names})

PreparedRp(rp) ==
    LET id == NonEmpty(Field(rp, Text("id")),
                       NonEmpty(Field(rp, Text("name")), "webauthn")) IN
    SortedMap(<<<<Text("id"), Text(id)>>,
                <<Text("name"), Text(NonEmpty(Field(rp, Text("name")), id))>>>>
              \o Others(rp, {"id", "name"}))

(* Without an id the bytes of the name serve as one.                       *)
PreparedUser(user) ==
    LET display == Field(user, Text("displayName"))
        name    == NonEmpty(Field(user, Text("name")), NonEmpty(display, "user"))
        id      == Field(user, Text("id"))
    IN SortedMap(<<<<Text("id"), IF id = Absent THEN Bytes(name) ELSE id>>,
                   <<Text("name"), Text(name)>>,
                   <<Text("displayName"), Text(NonEmpty(display, name))>>>>
                 \o Others(user, {"id", "name", "displayName"}))

ES256 == Num(-7)
Es256Param == SortedMap(<<<<Text("alg"), ES256>>, <<Text("type"), PublicKey>>>>)

Algorithms(params) ==
    {Field(Items(params)[i], Text("alg")) : i \in DOMAIN Items(params)}

PreparedParams(params) ==
    IF ES256 \in Algorithms(params) THEN Array(<<Es256Param>>) ELSE params

MakeOptions == SortedMap(<<<<Text("rk"), Bool(TRUE)>>, <<Text("uv"), Bool(TRUE)>>>>)

(* Extensions (6) and every other key are dropped, and so is a list of     *)
(* which nothing is left.                                                  *)
KeptInMake(e) ==
    \/ e[1] \in {Num(k) : k \in {1, 2, 3, 4, 7}}
    \/ e[1] = Num(5) /\ SanitizedList(e[2]) # <<>>

PreparedMakeEntry(e) ==
    <<e[1], CASE e[1] = Num(1) -> e[2]
              [] e[1] = Num(2) -> PreparedRp(e[2])
              [] e[1] = Num(3) -> PreparedUser(e[2])
              [] e[1] = Num(4) -> PreparedParams(e[2])
              [] e[1] = Num(5) -> Array(SanitizedList(e[2]))
              [] e[1] = Num(7) -> MakeOptions>>

InjectedOptions(body) ==
    IF Field(body, Num(7)) = Absent THEN <<<<Num(7), MakeOptions>>>> ELSE <<>>

prepare_make_credential_for_cable(raw) ==
    IF ~Is("map", raw.body) THEN raw
    ELSE LET new == MapSeq(PreparedMakeEntry, Selected(Entries(raw.body), KeptInMake))
         IN [raw EXCEPT !.body = SortedMap(new \o InjectedOptions(raw.body))]

-----------------------------------------------------------------------------
(* prepare_get_assertion_for_cable.                                        *)

KeptInGet(e) ==
    \/ e[1] \in {Num(1), Num(2)}
    \/ e[1] = Num(3) /\ SanitizedList(e[2]) # <<>>

PreparedGetEntry(e) ==
    <<e[1], IF e[1] = Num(3) THEN Array(SanitizedList(e[2])) ELSE e[2]>>

BadVerificationFromUp(body) ==
    SortedMap(<<<<Text("up"), Bool(TRUE)>>, <<Text("uv"), Bool(Option(body, "up", TRUE))>>>>)

(* User verification is asked for unless the host says otherwise.          *)
GetOptions(body) ==
    SortedMap(<<<<Text("up"), Bool(TRUE)>>, <<Text("uv"), Bool(Option(body, "uv", TRUE))>>>>)

prepare_get_assertion_for_cable(raw) ==
    IF ~Is("map", raw.body) THEN raw
    ELSE LET new == MapSeq(PreparedGetEntry, Selected(Entries(raw.body), KeptInGet))
         IN [raw EXCEPT !.body = SortedMap(new \o <<<<Num(5), GetOptions(raw.body)>>>>)]

-----------------------------------------------------------------------------
(* build_get_info_response.                                                *)

GetInfo(msgSize) ==
    SortedMap(<<<<Num(1), Array(<<Text("FIDO_2_0")>>)>>,
                <<Num(3), Bytes("aaguid")>>,
                <<Num(4), SortedMap(<<<<Text("rk"), Bool(TRUE)>>, <<Text("up"), Bool(TRUE)>>,
                                      <<Text("uv"), Bool(TRUE)>>>>)>>,
                <<Num(5), Num(msgSize)>>,
                <<Num(7), Num(32)>>,
                <<Num(8), Num(256)>>,
                <<Num(9), Array(<<Text("usb"), Text("hybrid")>>)>>,
                <<Num(10), Array(<<Es256Param>>)>>>>)

BadAdvertisesMore == GetInfo(4096)

build_get_info_response == GetInfo(1200)

maxMsgSize == Field(build_get_info_response, Num(5))[2]
=============================================================================
