---------------------------- MODULE MCRequestPath ----------------------------
(* RequestPath with a host that fills in, leaves out or spoils each key.   *)
EXTENDS RequestPath

Named(name, value) == <<Text(name), value>>

Id(id) == Named("id", Bytes(id))
Usb == Named("transports", Array(<<Text("usb")>>))

(* From a browser, without a type, without an id, with a text for one.     *)
MCDescriptors ==
    {Map(<<Id("a"), Named("type", PublicKey), Usb>>), Map(<<Id("b")>>),
     Map(<<Named("type", PublicKey)>>), Map(<<Named("id", Text("a")), Usb>>)}

MCLists ==
    {Text("no list")} \cup
    {Array(s) : s \in {<<>>} \cup {<<d>> : d \in MCDescriptors}
                             \cup {<<d, e>> : d, e \in MCDescriptors}}

MCOptions(names) ==
    {Map(<<Named(n, Bool(b))>>) : n \in names, b \in BOOLEAN} \cup
    {Map(<<Named("up", Bool(FALSE)), Named("uv", Bool(b))>>) : b \in BOOLEAN}

Alg(n) == Map(<<Named("type", PublicKey), Named("alg", Num(n))>>)

MCRps ==
    {Map(s) : s \in {<<Named("id", Text("site"))>>,
                     <<Named("name", Text("Site")), Named("id", Text("site"))>>,
                     <<Named("name", Text("Site")), Named("icon", Text("x"))>>,
                     <<Named("name", Text("dummy"))>>,
                     <<Named("id", Text("")), Named("name", Text(""))>>,
                     <<Named("id", Text(".dummy")), Named("name", Text("Site"))>>}}

MCUsers ==
    {Text("no user")} \cup
    {Map(s) : s \in {<<Id("u")>>, <<Named("name", Text("n"))>>,
                     <<Named("displayName", Text("d")), Id("u"), Named("icon", Text("x"))>>}}

MCMenu ==
    [command \in Commands |->
        IF command = "GetAssertion"
        THEN <<{Text("site")}, {Bytes("hash")}, MCLists, {Map(<<>>)},
               MCOptions({"up", "uv"}), {Bytes("pin")}>>
        ELSE <<{Bytes("hash")}, MCRps, MCUsers,
               {Array(<<Alg(-257)>>), Array(<<Alg(-257), Alg(-7)>>)},
               {Array(<<d>>) : d \in MCDescriptors} \cup {Array(<<>>)},
               {Map(<<>>)}, MCOptions({"rk"})>>]
=============================================================================
