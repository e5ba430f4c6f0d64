-------------------------- MODULE MCMessageDecoder --------------------------
(***************************************************************************)
(* Message types that take the walk through each of its branches, and the  *)
(* ways their unions may be declared.                                      *)
(***************************************************************************)
EXTENDS MessageDecoder

CONSTANT Nested     \* whether an alternative holds a tagged union of its own

B(size, encoding) == [kind |-> "base", size |-> size, encoding |-> encoding]
S(size, members) == [kind |-> "struct", size |-> size, members |-> members]
U(size, members) == [kind |-> "union", size |-> size, members |-> members]
A(elem, dims, size) == [kind |-> "array", elem |-> elem, dims |-> dims, size |-> size]
T(target) == [kind |-> "typedef", target |-> target]
M(name, at, type) == [name |-> name, offset |-> at, type |-> type, bits |-> NoSize, bit |-> NoSize]
Bits(name, bit, bits, type) ==
    [name |-> name, offset |-> bit \div 8, type |-> type, bits |-> bits, bit |-> bit]

K(s) == <<s>>

u8 == K("uint8")  u16 == K("uint16")  u32 == K("uint32")

Scalars ==
    (VOID_KEY :> VoidType) @@ (u8 :> B(1, "uint")) @@ (u16 :> B(2, "uint")) @@ (u32 :> B(4, "uint"))
    @@ (K("float") :> B(4, "float")) @@ (K("char") :> B(1, "char")) @@ (K("char16") :> B(2, "char")) @@ (K("bool") :> B(1, "bool"))
    @@ (K("uint24") :> B(3, "uint"))
    @@ (K("Mode") :> [kind |-> "enum", size |-> 1, encoding |-> "uint", values |-> (0 :> "SAFE") @@ (1 :> "RUN")])
    @@ (PointerKey(8, <<>>) :> [kind |-> "pointer", size |-> 8])
    @@ (K("Alias") :> T(K("Gone"))) @@ (K("Word") :> T(u16))

Arrays ==
    [k \in {ArrayKey(u16, <<2>>), ArrayKey(u8, <<4>>), ArrayKey(u8, <<3>>), ArrayKey(u8, <<2>>), ArrayKey(u8, <<0>>),
            ArrayKey(K("char"), <<4>>), ArrayKey(K("char"), <<2, 3>>), ArrayKey(K("char16"), <<2>>), ArrayKey(K("Mode"), <<2>>),
            ArrayKey(K("Point"), <<2>>), ArrayKey(u8, <<3, 2>>), ArrayKey(K("Alias"), <<2>>), ArrayKey(K("uint24"), <<2>>),
            ArrayKey(K("Cmd"), <<2>>)} |->
        A(k[2], k[3], Product(k[3]) * (CASE k[2] \in {u16, K("char16")} -> 2 [] k[2] = K("Point") -> 3
                                          [] k[2] = K("uint24") -> 3 [] k[2] = K("Cmd") -> 4 [] OTHER -> 1))]

Headers ==
    (K("CFE_MSG_TelemetryHeader_t") :> S(4, <<M(K("Stream"), 0, u32)>>))
    @@ (K("Hk_Hdr") :> T(K("CFE_MSG_TelemetryHeader_t")))
    @@ (K("App_Hdr") :> S(4, <<M(K("Id"), 0, u32)>>))

Messages ==
    (K("Point") :> S(3, <<Bits(K("X"), 0, 3, u8), Bits(K("Y"), 3, 7, u16), M(K("Z"), 2, u8)>>))
    @@ (K("Hk") :> S(45, <<M(K("Header"), 0, K("Hk_Hdr")), M(K("Count"), 4, K("Word")),
                           M(K("Temps"), 6, ArrayKey(u16, <<2>>)), M(K("Name"), 10, ArrayKey(K("char"), <<4>>)),
                           M(K("Tags"), 14, ArrayKey(K("char"), <<2, 3>>)), M(K("Volt"), 20, K("float")),
                           M(K("Odd"), 24, K("uint24")), M(K("Odds"), 27, ArrayKey(K("uint24"), <<2>>)),
                           M(K("Next"), 33, PointerKey(8, <<>>)), M(K("Modes"), 41, ArrayKey(K("Mode"), <<2>>)),
                           M(K("On"), 43, K("bool")), M(K("Flag"), 44, K("char"))>>))
    @@ (K("Bare") :> S(20, <<M(K("Lead"), 0, u16), M(K("Grid"), 2, ArrayKey(K("Point"), <<2>>)),
                             M(K("Table"), 8, ArrayKey(u8, <<3, 2>>)), M(<<>>, 14, K("AnonA")), M(K("Lead"), 16, u16), M(K("Lost"), 18, VOID_KEY),
                             M(K("Gone"), 18, K("Alias")), M(K("Gones"), 18, ArrayKey(K("Alias"), <<2>>)),
                             M(K("Tail"), 20, ArrayKey(u8, <<0>>))>>))
    @@ (K("AnonA") :> S(2, <<M(K("Mode"), 0, K("Mode")), M(K("Lead"), 1, u8)>>))
    @@ (K("Deep") :> S(1, <<M(K("D1"), 0, K("Deep1"))>>)) @@ (K("Deep1") :> S(1, <<M(K("D2"), 0, K("Deep2"))>>))
    @@ (K("Deep2") :> S(1, <<M(K("D3"), 0, K("Deep3"))>>)) @@ (K("Deep3") :> S(1, <<M(K("D4"), 0, K("Deep4"))>>))
    @@ (K("Deep4") :> S(1, <<M(K("D5"), 0, K("Deep5"))>>)) @@ (K("Deep5") :> S(1, <<M(K("D6"), 0, u8)>>))
    @@ (K("Late") :> S(8, <<M(K("Seq"), 0, u32), M(K("Copy"), 4, K("App_Hdr"))>>))
    @@ (K("Own") :> S(10, <<M(K("H"), 0, K("App_Hdr")), M(K("V"), 4, u16), M(K("Wide"), 6, ArrayKey(K("char16"), <<2>>))>>))
    @@ (K("Views") :> S(8, <<M(K("Header"), 0, K("Hk_Hdr")), M(K("Word"), 4, K("Both"))>>))
    @@ (K("Both") :> U(4, <<M(K("Raw"), 0, ArrayKey(u8, <<4>>)), M(K("Pair"), 0, ArrayKey(u16, <<2>>)), M(K("One"), 0, u32)>>))
    @@ (K("AllRaw") :> S(4, <<M(K("Lead"), 0, u16), M(<<>>, 2, K("RawOnly"))>>))
    @@ (K("RawOnly") :> U(2, <<M(K("Raw"), 0, ArrayKey(u8, <<2>>))>>))
    @@ (K("Ident") :> S(2, <<M(K("Id"), 0, u8), M(K("Sub"), 1, K("Mode"))>>))
    @@ (K("Ping") :> S(4, <<M(K("Ident"), 0, K("Ident")), M(K("Value"), 2, u16)>>))
    @@ (K("Set") :> S(4, <<M(K("Ident"), 0, K("Ident")), M(K("Level"), 2, u16)>>))
    @@ (K("Cmd") :> U(4, <<M(K("Ident"), 0, K("Ident")), M(K("Ping"), 0, K("Ping")), M(K("Set"), 0, K("Set")),
                           M(K("Raw"), 0, ArrayKey(u8, <<4>>))>>
                         \o IF Nested THEN <<M(K("Group"), 0, K("Group"))>> ELSE <<>>))
    @@ (K("Group") :> U(4, <<M(K("Ident"), 0, K("Ident")), M(K("Ping"), 0, K("Ping")), M(K("Set"), 0, K("Set"))>>))
    @@ (K("Report") :> S(12, <<M(K("Header"), 0, K("Hk_Hdr")), M(K("Cmd"), 4, ArrayKey(K("Cmd"), <<2>>))>>))
    @@ (K("Order") :> S(8, <<M(K("Header"), 0, K("Hk_Hdr")), M(K("Cmd"), 4, K("Cmd"))>>))
    @@ (K("Flags") :> S(1, <<Bits(K("Kind"), 1, 2, u8), Bits(K("Rest"), 3, 5, u8)>>))
    @@ (K("Packed") :> U(2, <<M(K("Flags"), 0, K("Flags")), M(K("Byte"), 0, u8), M(K("Half"), 0, u16)>>))
    @@ (K("Loose") :> S(3, <<M(K("Lead"), 0, u8), [Bits(K("At"), 16, 4, u8) EXCEPT !.bit = NoSize]>>))
    @@ (K("Status") :> S(4, <<M(K("Lead"), 0, u8), M(K("Loose"), 1, K("Loose"))>>))
    @@ (K("Long") :> U(3, <<M(K("Key"), 0, K("uint24")), M(K("Bytes"), 0, ArrayKey(u8, <<3>>)), M(K("Shape"), 0, K("Point"))>>))
    @@ (K("Keyed") :> S(5, <<M(K("Lead"), 0, u16), M(K("Long"), 2, K("Long"))>>))
    @@ (K("Sensor") :> S(4, <<M(K("At"), 0, u16), M(<<>>, 2, K("Packed"))>>))

MCTypes == Scalars @@ Arrays @@ Headers @@ Messages

Use1(how, names, tag, cases) == [how |-> how, names |-> names, tag |-> tag, cases |-> cases]

Case(num, member) == [num |-> num, label |-> "", member |-> K(member)]
Label(label, member) == [num |-> 0, label |-> label, member |-> K(member)]

ById == Use1("tag", {}, <<K("Ident"), K("Id")>>, <<Case(1, "Ping"), Case(2, "Set"), Case(3, "Ping")>>)
ByKey == Use1("tag", {}, <<K("Key")>>, <<Case(1, "Bytes"), Case(2, "Shape")>>)
BySub == Use1("tag", {K("Raw")}, <<K("Ident"), K("Sub")>>, <<Label("SAFE", "Ping"), Label("RUN", "Set")>>)
ByKind == Use1("tag", {}, <<K("Flags"), K("Kind")>>, <<Case(1, "Byte"), Case(2, "Half")>>)
Wrong(cases) == Use1("tag", {}, <<K("Ident"), K("Id")>>, cases)

Job(key, unions, unionBytes, chars) ==
    [key |-> key, unions |-> unions, unionBytes |-> unionBytes, chars |-> chars, declared |-> {}]

Alone(name) == Job(K(name), <<>>, "keep", "text")

Declared(type, use) == K(type) :> use

FlatJobs ==
    {Job(K("Hk"), <<>>, "keep", c) : c \in {"text", "bytes"}}
    \cup {Alone(n) : n \in {"Bare", "Deep", "Own", "Late", "Hk_Hdr", "Cmd", "Mode", "Alias", "Sensor", "Status", "Loose"}}
    \cup {[Alone(n) EXCEPT !.declared = {K("App_Hdr")}] : n \in {"Own", "Late"}}
    \cup {Job(K(n), <<>>, b, "text") : n \in {"Views", "AllRaw", "Report"}, b \in {"keep", "drop"}}
    \cup {Job(K("Views"), Declared("Both", Use1(how, names, <<>>, <<>>)), "drop", "text") :
             how \in {"keep", "drop"}, names \in {{K("Raw")}, {K("Raw"), K("One")}, {K("Nope")}}}
    \cup {Job(K("Report"), Declared("Cmd", use), "keep", "text") : use \in {ById, BySub}}
    \cup {Job(K("Sensor"), Declared("Packed", ByKind), "keep", "text"), Job(K("Keyed"), Declared("Long", ByKey), "keep", "text")}
    \cup {Job(K("Report"), Declared("Cmd", Wrong(c)), "keep", "text") :
             c \in {<<Case(1, "Nope")>>, <<Case(1, "Ident")>>, <<Case(1, "Ping"), Case(1, "Set")>>,
                    <<Label("SAFE", "Ping")>>}}
    \cup {Job(K("Report"), Declared("Ping", ById), "keep", "text"),
          Job(K("Report"), Declared("Cmd", [ById EXCEPT !.tag = <<K("Ping"), K("Value"), K("Id")>>]), "keep", "text")}

NestedJobs ==
    {Job(K("Order"), Declared("Cmd", [ById EXCEPT !.cases = Append(@, Case(4, "Group"))])
                      @@ Declared("Group", [BySub EXCEPT !.names = {}]), "keep", "text")}

MCJobs == IF Nested THEN NestedJobs \cup {Alone("Hk")} ELSE FlatJobs
=============================================================================
