------------------------------ MODULE Layouts ------------------------------
(***************************************************************************)
(* What the extracted types say of a build against what its entries say    *)
(* (dwarf.py).  Both are read recursively.                                 *)
(***************************************************************************)
EXTENDS Extractor

-----------------------------------------------------------------------------
(* What an entry stores, read off the entries alone: each scalar's path,    *)
(* extents, first bit and bits.                                             *)

RECURSIVE DieLayout(_), DieSize(_), NodeLayout(_)

Scalar(what, bits) == {[path |-> <<>>, dims |-> <<>>, bit |-> 0, bits |-> bits, what |-> what]}

Moved(layout, name, bit) == {[l EXCEPT !.path = name \o @, !.bit = @ + bit] : l \in layout}

DieSize(d) ==
    CASE d = NoRef -> 0
      [] d # NoRef /\ Dies[d].size # NoSize -> Dies[d].size
      [] OTHER -> IF Dies[d].tag \in QUALIFIER_TAGS \cup {"typedef", "enum"} THEN DieSize(Dies[d].ref)
                  ELSE IF Dies[d].tag \in POINTER_TAGS THEN pointer ELSE 0

MemberLayout(m) ==
    LET at == 8 * (IF Dies[m].offset = NoSize THEN 0 ELSE Dies[m].offset)
        storage == 8 * (IF Dies[m].size = NoSize THEN DieSize(Dies[m].ref) ELSE Dies[m].size)
        bit == IF Dies[m].dataBit # NoSize THEN Dies[m].dataBit
               ELSE IF endian = "little" THEN at + storage - Dies[m].legacyBit - Dies[m].bits
               ELSE at + Dies[m].legacyBit
    IN  IF Dies[m].bits = NoSize THEN Moved(DieLayout(Dies[m].ref), DieName(m), at)
        ELSE Moved(Scalar("bits", Dies[m].bits), DieName(m), bit)

DieLayout(d) ==
    IF d = NoRef THEN Scalar("void", 0)
    ELSE LET die == Dies[d]
             kids(tag) == {c \in Range(die.children) : Dies[c].tag = tag}
         IN  CASE die.tag \in QUALIFIER_TAGS \cup {"typedef"} -> DieLayout(die.ref)
               [] die.tag = "base" -> Scalar(BaseEncoding(d), 8 * OwnSize(d))
               [] die.tag = "enum" -> Scalar("enum", 8 * DieSize(d))
               [] die.tag \in POINTER_TAGS -> Scalar("pointer", 8 * DieSize(d))
               [] die.tag = "array" ->
                     LET ranges == SelectSeq(die.children, LAMBDA c : Dies[c].tag = "subrange")
                         extents == IF ranges = <<>> THEN <<0>> ELSE [i \in DOMAIN ranges |-> Extent(ranges[i])]
                     IN  {[l EXCEPT !.dims = extents \o @] : l \in DieLayout(die.ref)}
               [] IsComplete(d) ->
                     UNION {MemberLayout(m) : m \in {m \in kids("member") : ~Dies[m].decl}}
                     \cup UNION {Moved(DieLayout(Dies[b].ref), <<>>, 8 * Dies[b].offset) :
                                    b \in {b \in kids("inheritance") : Dies[b].offset # NoSize}}
               [] OTHER -> Scalar("void", 0)

\* The same of a node of the registry.
NodeLayout(key) ==
    LET node == Resolve(types, key)
    IN  CASE IsComposite(node) ->
               UNION {IF m.bits = NoSize THEN Moved(NodeLayout(m.type), m.name, 8 * m.offset)
                      ELSE Moved(Scalar("bits", m.bits), m.name, m.bit) : m \in Range(node.members)}
          [] node.kind = "array" -> {[l EXCEPT !.dims = node.dims \o @] : l \in NodeLayout(node.elem)}
          [] node.kind \in {"enum", "pointer"} -> Scalar(node.kind, 8 * node.size)
          [] node.kind = "base" -> Scalar(node.encoding, 8 * node.size)
          [] OTHER -> Scalar("absent", 0)

-----------------------------------------------------------------------------

\* Unless it said otherwise, the registry has for each entry it read the layout
\* the entry describes, through typedefs, bases, arrays, bit fields and nameless
\* members, from whichever unit it came (the module's own claim).
LayoutsAreTheBuilds ==
    calls = <<>> /\ warned \cap DOMAIN Dies = {} /\ conflicts = {} =>
        \A d \in DOMAIN keys : NodeLayout(keys[d]) = DieLayout(d)
=============================================================================
