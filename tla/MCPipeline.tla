----------------------------- MODULE MCPipeline -----------------------------
(***************************************************************************)
(* Sessions over small builds: entries of every kind, spread over units    *)
(* and files that can be given in any order, and mappings of both shapes.  *)
(***************************************************************************)
EXTENDS Pipeline, Layouts

CONSTANT Builds     \* which sessions: "sound", "forward" or "nameless"

Blank == [tag |-> "base", name |-> <<>>, origin |-> NoRef, parent |-> NoRef, ref |-> NoRef,
          decl |-> FALSE, size |-> NoSize, children |-> <<>>, encoding |-> "", offset |-> NoSize,
          bits |-> NoSize, dataBit |-> NoSize, legacyBit |-> NoSize, count |-> NoSize,
          upper |-> NoSize, lower |-> NoSize, value |-> 0]

\* What a description leaves unsaid is as in Blank; the first of a name counts.
Described(pairs) ==
    [d \in {pairs[i][1] : i \in DOMAIN pairs} |->
        LET given == pairs[CHOOSE i \in DOMAIN pairs : pairs[i][1] = d][2]
        IN  [f \in DOMAIN Blank |-> IF f \in DOMAIN given THEN given[f] ELSE Blank[f]]]

With(die, more) == more @@ die

Base(name, size, enc) == [tag |-> "base", name |-> <<name>>, size |-> size, encoding |-> enc]
Comp(tag, name, size, kids) == [tag |-> tag, name |-> name, size |-> size, children |-> kids]
Alias(name, ref) == [tag |-> "typedef", name |-> <<name>>, ref |-> ref]
Wrap(tag, ref) == [tag |-> tag, ref |-> ref]
Mem(name, ref, at) == [tag |-> "member", name |-> <<name>>, ref |-> ref, offset |-> at]
BitMem(name, ref, bit, bits) == [tag |-> "member", name |-> <<name>>, ref |-> ref, bits |-> bits, dataBit |-> bit]
Range0(count) == [tag |-> "subrange", count |-> count]
Upto(upper) == [tag |-> "subrange", upper |-> upper]
Arr(ref, kids) == [tag |-> "array", ref |-> ref, children |-> kids]
Label(name, value) == [tag |-> "enumerator", name |-> <<name>>, value |-> value]
Decl(tag, name) == [tag |-> tag, name |-> <<name>>, decl |-> TRUE]
In(die, scope) == With(die, [parent |-> scope])

-----------------------------------------------------------------------------

Basics ==
    << <<"u8", Base("u8", 1, "unsigned")>>, <<"u16", Base("u16", 2, "unsigned")>>,
      <<"i32", Base("int", 4, "signed")>>, <<"chr", Base("char", 1, "signed_char")>> >>

\* The housekeeping message: a header by typedef, a nameless struct its typedef
\* names, bit fields of both ages, arrays, an enum, a nameless union, a pointer
\* to itself, qualifiers, a static member.
Hk ==
    << <<"msg", Comp("struct", <<"CFE_MSG_Message_t">>, 2, <<"msg.id">>)>>, <<"msg.id", Mem("Id", "u16", 0)>>,
      <<"hdr", Alias("Hdr", "msg")>>,
      <<"hk", Comp("struct", <<"HkTlm">>, 30, <<"hk.tail", "hk.hdr", "hk.cnt", "hk.arr", "hk.mode", "hk.any", "hk.next",
                                                 "hk.vol", "hk.all", "hk.a", "hk.b", "hk.pt">>)>>,
      <<"hk.hdr", Mem("Hdr", "hdr", 0)>>, <<"hk.cnt", Mem("Cnt", "u16", 2)>>,
      <<"hk.arr", Mem("Arr", "arr", 4)>>, <<"arr", Arr("row", <<"arr.n">>)>>, <<"arr.n", Range0(2)>>,
      <<"row", Arr("u8", <<"row.n">>)>>, <<"row.n", Upto(1)>>,
      <<"hk.mode", Mem("Mode", "mode", 8)>>, <<"mode", [tag |-> "enum", name |-> <<"Mode">>, ref |-> "u8", children |-> <<"mode.a", "mode.b">>]>>,
      <<"mode.a", Label("SAFE", 0)>>, <<"mode.b", Label("RUN", 1)>>,
      <<"hk.any", With(Mem("x", "any", 10), [name |-> <<>>])>>, <<"any", Comp("union", <<>>, 2, <<"any.w", "any.b">>)>>,
      <<"any.w", With(Mem("W", "u16", 0), [offset |-> NoSize])>>, <<"any.b", Mem("B", "u8", 0)>>,
      <<"hk.next", Mem("Next", "hkptr", 12)>>, <<"hkptr", Wrap("pointer", "hk")>>,
      <<"hk.vol", Mem("Vol", "cvu8", 20)>>, <<"cvu8", Wrap("const", "vu8")>>, <<"vu8", Wrap("volatile", "u8")>>,
      <<"hk.all", With(Mem("All", "i32", 0), [decl |-> TRUE])>>,
      <<"hk.a", BitMem("A", "u8", 168, 3)>>, <<"hk.b", With(Mem("B", "u8", 21), [bits |-> 4, legacyBit |-> 1])>>,
      <<"hk.pt", Mem("Pt", "ptt3", 22)>>, <<"hk.tail", Mem("Tail", "flex", 30)>>, <<"flex", Arr("chr", <<>>)>>,
      <<"pt", Comp("struct", <<>>, 8, <<"pt.x", "pt.y">>)>>, <<"pt.x", Mem("X", "i32", 0)>>, <<"pt.y", Mem("Y", "i32", 4)>>,
      <<"ptt", Alias("Point", "pt")>>, <<"ptt2", Alias("Point2", "ptt")>>, <<"ptt3", Alias("Point3", "pt")>> >>

\* A class of a namespace with a base, and a virtual one; another Point.
Cpp ==
    << <<"ns", [tag |-> "namespace", name |-> <<"nav">>]>>,
      <<"nav", In(Comp("class", <<"Track">>, 13, <<"nav.in", "nav.vin", "nav.v">>), "ns")>>,
      <<"nav.in", With(Wrap("inheritance", "sol"), [offset |-> 4])>>, <<"nav.vin", Wrap("inheritance", "sol")>>,
      <<"nav.v", Mem("V", "i32", 0)>>,
      <<"sol", In(Comp("struct", <<"Solution">>, 9, <<"sol.f", "sol.b">>), "ns")>>,
      <<"sol.f", BitMem("F", "u8", 64, 5)>>, <<"sol.b", Mem("P", "npt", 0)>>,
      <<"npt", In(Comp("struct", <<"Point">>, 8, <<"npt.x">>), "ns")>>, <<"npt.x", Mem("X", "u16", 6)>>,
      <<"sol2", In(With(Comp("struct", <<>>, 9, <<"sol.f", "sol.b">>), [origin |-> "sol"]), "ns")>> >>

\* A second definition of HkTlm in another size; a declaration.
Other ==
    << <<"hk2", Comp("struct", <<"HkTlm">>, 2, <<"hk2.c">>)>>, <<"hk2.c", Mem("Cnt", "u16", 0)>>,
      <<"view", Comp("union", <<"View">>, 2, <<"any.w", "any.b">>)>>, <<"hkd", Decl("struct", "HkTlm")>>, <<"cmd", Comp("struct", <<"CMD_t">>, 4, <<"cmd.h", "cmd.p", "cmd.v">>)>>,
      <<"cmd.h", Mem("H", "hdr2", 0)>>, <<"cmd.p", Mem("P", "hkp", 2)>>, <<"hkp", Wrap("pointer", "hkd")>>,
      <<"cmd.v", Mem("V", "u16", 2)>>, <<"hdr2", Alias("Hdr", "msg")>> >>

\* Entries whose type cannot be read, after a member that can, and a proper one.
Broken ==
    << <<"brk", Comp("struct", <<"Brk">>, 4, <<"brk.ok", "brk.no">>)>>, <<"brk.ok", Mem("Ok", "u16", 0)>>,
      <<"brk.no", Mem("No", BadRef, 2)>>,
      <<"brk2", Comp("struct", <<"Brk">>, 4, <<"brk.ok">>)>>,
      <<"own", Comp("struct", <<"Own">>, 6, <<"own.b">>)>>, <<"own.b", Mem("B", "brkt", 2)>>,
      <<"brkt", Alias("BrkAlias", "brk")>>, <<"wild", Alias("Wild", BadRef)>> >>

\* The typedef of a declaration, met before the definition or after it.
Forward ==
    << <<"fwd", Decl("struct", "Fwd")>>, <<"fwdt", Alias("Fwd_t", "fwd")>>,
      <<"def", Comp("struct", <<"Fwd">>, 2, <<"def.v">>)>>, <<"def.v", Mem("V", "u16", 0)>> >>

\* Two nameless structs that differ in the width of a bit field only.
Nameless ==
    << <<"low", Comp("struct", <<>>, 1, <<"low.f">>)>>, <<"low.f", BitMem("F", "u8", 0, 3)>>,
      <<"high", Comp("struct", <<>>, 1, <<"high.f">>)>>, <<"high.f", BitMem("F", "u8", 0, 5)>>,
      <<"two", Comp("struct", <<"Two">>, 2, <<"two.l", "two.h">>)>>,
      <<"two.l", Mem("L", "low", 0)>>, <<"two.h", Mem("H", "high", 1)>> >>

MCDies == Described(Basics \o Hk \o Cpp \o Other \o Broken \o Forward \o Nameless)

Unit(dies) == [parses |-> TRUE, dies |-> dies]
File(units) == [readable |-> TRUE, endian |-> "little", pointer |-> 8, units |-> units]

HkUnit == Unit(<<"u8", "u16", "msg", "hdr", "hk", "mode", "any", "pt", "ptt", "ptt2", "ptt3">>)
CppUnit == Unit(<<"ns", "sol2", "nav", "sol", "npt">>)

MCFiles ==
    ("core" :> File(<<HkUnit, [parses |-> FALSE, dies |-> <<>>]>>))
    @@ ("nav" :> File(<<CppUnit, Unit(<<"cmd", "hdr2", "hkd", "view">>)>>))
    @@ ("old" :> [File(<<Unit(<<"hk2", "msg">>)>>) EXCEPT !.endian = "big", !.pointer = 4])
    @@ ("big" :> [File(<<HkUnit>>) EXCEPT !.endian = "big"])
    @@ ("brk" :> File(<<Unit(<<"own", "brk", "brkt">>), Unit(<<"brk2">>)>>))
    @@ ("wild" :> File(<<Unit(<<"msg">>), Unit(<<"cmd", "wild">>)>>))
    @@ ("gone" :> [File(<<>>) EXCEPT !.readable = FALSE])
    @@ ("fwd" :> File(<<Unit(<<"fwd", "fwdt">>), Unit(<<"def">>)>>))
    @@ ("low" :> File(<<Unit(<<"two">>)>>))

-----------------------------------------------------------------------------

\* Structs are also named without their namespace, and in another case.
Track == <<"Track">>
MCLowerCase ==
    LET parts == (UNION {Range(d.name) : d \in Range(MCDies)}) \cup {p[1] : p \in HEADER_TYPES \cup GEOMETRY_TYPES}
                 \cup {"hktlm", "cmd_t", "point", "Gone", "Nope", "void"}
    IN  [p \in parts |-> CASE p = "HkTlm" -> "hktlm" [] p = "CMD_t" -> "cmd_t" [] p = "Point" -> "point" [] OTHER -> p]

Item == [shape |-> "map", generated |-> FALSE, type |-> "", name |-> "m", key |-> NoNumber, value |-> NoNumber,
         default |-> NoStruct, fcodes |-> FALSE, fcn |-> <<>>]

Hand(mid, struct) == [Item EXCEPT !.shape = "name", !.key = mid, !.default = struct]
Code(n, struct) == [code |-> n, struct |-> struct, object |-> TRUE, null |-> FALSE]
Cmd(mid, default, codes) == [Item EXCEPT !.value = mid, !.default = default, !.fcn = codes]
Scanned(type, mid, struct, codes) ==
    [Item EXCEPT !.generated = TRUE, !.type = type, !.value = mid, !.default = struct,
                 !.fcodes = (type = "command"), !.fcn = codes]

ByHand(items) == [items |-> items, skippedApps |-> FALSE, unions |-> <<>>, unionBytes |-> "", headers |-> {}]

N(a) == <<a>>

MCMappings ==
    ("tlm" :> ByHand(<<Hand(1, N("HkTlm")), Cmd(2, N("CMD_t"), <<Code(1, Track), Code(2, N("Gone")), Code(1, N("Point2"))>>),
                       Hand(1, N("Point2"))>>))
    @@ ("loose" :> ByHand(<<Hand(3, N("Gone")), Hand(3, Track), Hand(1, N("hktlm")), Hand(3, N("CMD_t"))>>))
    @@ ("point" :> ByHand(<<Hand(1, N("Point")), Hand(2, <<"nav", "Point">>)>>))
    @@ ("case" :> ByHand(<<Hand(1, N("point"))>>)) @@ ("enum" :> ByHand(<<Hand(2, N("CMD_t")), Hand(1, N("Mode"))>>))
    @@ ("absent" :> ByHand(<<Hand(1, N("Gone"))>>))
    @@ ("torn" :> ByHand(<<Hand(1, N("HkTlm")), [Item EXCEPT !.default = N("HkTlm")]>>))
    @@ ("brk" :> ByHand(<<Hand(1, N("Brk")), Hand(2, N("Own")), Hand(4, N("Fwd_t"))>>))
    @@ ("scan" :> ByHand(<<Scanned("command", 2, NoStruct, <<Code(1, N("CMD_t")), [Code(0, Track) EXCEPT !.null = TRUE],
                                                             Code(NotANumber, Track), [Code(3, Track) EXCEPT !.object = FALSE],
                                                             Code(4, UNRESOLVED_STRUCT)>>),
                           Scanned("", NoNumber, N("HkTlm"), <<>>), Scanned("", 1, UNRESOLVED_STRUCT, <<>>),
                           [Scanned("command", 5, NoStruct, <<>>) EXCEPT !.fcodes = FALSE],
                           Scanned("", 1, N("HkTlm"), <<>>)>>))
    @@ ("hdr" :> [ByHand(<<Hand(1, N("CFE_MSG_Message_t")), Hand(2, N("Point"))>>) EXCEPT !.headers = {N("Point")},
                      !.unions = <<[name |-> N("Nope"), given |-> {"keep"},
                                    use |-> [Undeclared EXCEPT !.names = {N("X")}]]>>])
    @@ ("uni" :> [ByHand(<<Hand(1, N("HkTlm"))>>) EXCEPT
                      !.unions = <<[name |-> N("View"), given |-> {"keep"}, use |-> [Undeclared EXCEPT !.names = {N("W")}]],
                                  [name |-> N("HkTlm"), given |-> {"keep"}, use |-> [Undeclared EXCEPT !.names = {N("Cnt")}]]>>])
    @@ ("both" :> [ByHand(<<Hand(1, N("HkTlm"))>>) EXCEPT
                      !.unions = <<[name |-> N("HkTlm"), given |-> {"keep", "drop"}, use |-> Undeclared]>>])

X(paths, m, strict) == [kind |-> "extract", paths |-> paths, mapping |-> m, strict |-> strict, headers |-> {}]
D(m) == [kind |-> "decode", mapping |-> m, headers |-> {}, unionBytes |-> "keep"]

Paths1 == {<<"core", "nav">>, <<"nav", "gone", "core">>, <<"old", "core">>, <<"big">>}

Sound ==
    {<<X(p, m, FALSE), D(m)>> : p \in Paths1, m \in {"tlm", "loose", "point", "scan", "hdr", "uni"}}
    \cup {<<X(p, NoMapping, FALSE), D(m)>> : p \in Paths1, m \in {"tlm", "point", "scan"}}
    \cup {<<X(<<"core", "core">>, NoMapping, FALSE), X(<<"gone">>, "tlm", FALSE), D("hdr")>>,
          <<X(<<"core">>, "tlm", TRUE), D("tlm")>>, <<X(<<"core">>, "loose", FALSE), D("absent")>>,
          <<X(<<"core", "nav">>, "case", FALSE), D("case")>>, <<X(<<"nav", "core">>, "enum", FALSE), D("enum")>>,
          <<X(<<"core", "nav">>, "hdr", FALSE), X(<<"nav">>, "absent", FALSE), D("tlm")>>,
          <<X(<<"core">>, "torn", FALSE), X(<<"core">>, "both", FALSE), D("torn"), D("tlm")>>}
    \cup {<<X(p, m, FALSE), D("brk")>> : p \in {<<"brk">>, <<"wild", "brk">>}, m \in {"brk", NoMapping}}

MCSessions ==
    CASE Builds = "sound" -> Sound
      [] Builds = "forward" -> {<<X(<<"fwd">>, NoMapping, FALSE)>>}
      [] Builds = "nameless" -> {<<X(<<"low">>, NoMapping, FALSE)>>}
=============================================================================
