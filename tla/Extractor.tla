----------------------------- MODULE Extractor -----------------------------
(***************************************************************************)
(* Reading the types of a build, a compile unit and an entry at a time     *)
(* (dwarf.py, Extractor and extract), with or without a filter made from   *)
(* a mapping.                                                              *)
(***************************************************************************)
EXTENDS DieReader

CONSTANT
    Files       \* by path: [readable, endian, pointer, units]; a unit is [parses, dies]

\* What a file's header and its units hold.
ASSUME FilesAssumption ==
    \A p \in DOMAIN Files :
        /\ Files[p].pointer \in Int
        /\ Files[p].units \in Seq([parses : BOOLEAN, dies : Seq(DOMAIN Dies)])

VARIABLES
    request,        \* [paths, filtered, wanted, strict]
    file, unit,     \* which path, and which of its units
    todo,           \* entries of the unit to read, with the names each matches
    matched,        \* NameFilter.resolved
    warned,         \* entries and units passed over
    geometry, sources,
    extraction      \* "idle", "reading", "done", "failed" or "crashed"

walkVars == <<request, file, unit, todo, matched, warned, geometry, sources, extraction>>

extractorVars == <<readerVars, walkVars>>

\* The header types are wanted too, but may be missing unless the mapping names them.
Wanted == request.wanted \cup GEOMETRY_TYPES

Path == request.paths[file]

Units == Files[Path].units

Reading == extraction = "reading" /\ file <= Len(request.paths)

-----------------------------------------------------------------------------

ExtractorInit ==
    /\ request = [paths |-> <<>>, filtered |-> FALSE, wanted |-> {}, strict |-> FALSE]
    /\ types = [k \in {VOID_KEY} |-> VoidType] /\ conflicts = {} /\ keys = <<>> /\ anon = <<>>
    /\ endian = "little" /\ pointer = 8 /\ calls = <<>>
    /\ file = 1 /\ unit = 0 /\ todo = <<>>
    /\ matched = {} /\ warned = {} /\ geometry = <<>> /\ sources = {}
    /\ extraction = "idle"

StartExtraction(r) ==
    /\ request' = r
    /\ types' = [k \in {VOID_KEY} |-> VoidType] /\ conflicts' = {} /\ keys' = <<>> /\ anon' = <<>>
    /\ endian' = "little" /\ pointer' = 8 /\ calls' = <<>>
    /\ file' = 1 /\ unit' = 0 /\ todo' = <<>>
    /\ matched' = {} /\ warned' = {} /\ geometry' = <<>> /\ sources' = {}
    /\ extraction' = "reading"

\* The keys are those of the file; the types stay.  A file that is not there,
\* is no ELF file or has no debug info is reported at the end.
OpenFile ==
    /\ Reading /\ unit = 0
    /\ IF Files[Path].readable
       THEN /\ unit' = 1 /\ file' = file
            /\ keys' = <<>> /\ endian' = Files[Path].endian /\ pointer' = Files[Path].pointer
       ELSE /\ file' = file + 1
            /\ UNCHANGED <<unit, keys, endian, pointer>>
    /\ UNCHANGED <<types, conflicts, anon, calls, request, todo, matched, warned, geometry, sources, extraction>>

\* typedef struct {...} Foo_t: the first typedef gives the struct its name.
Notes(d) == /\ Dies[d].tag = "typedef" /\ DieName(d) # <<>>
            /\ Dies[d].ref \in DOMAIN Dies /\ IsAnonymous(Dies[d].ref)

NotedNames(dies) ==
    LET noting(ref) == {i \in DOMAIN dies : Notes(dies[i]) /\ Dies[dies[i]].ref = ref}
        first(ref)  == CHOOSE i \in noting(ref) : \A j \in noting(ref) : i <= j
    IN  [ref \in {r \in DOMAIN Dies : noting(r) # {}} |-> Qualify(dies[first(ref)])]

\* The entries to read: the named ones, with a filter those it wants by their
\* own name and then matches by their qualified name.
Interesting(dies) ==
    LET matches(d) == IF request.filtered THEN Matches(Wanted, Qualify(d)) ELSE {}
        kept(d) == /\ Dies[d].tag \in WALK_TAGS
                   /\ Dies[d].tag = "typedef" \/ DieName(d) # <<>>
                   /\ request.filtered => DieName(d) # <<>> /\ Wants(Wanted, DieName(d)) /\ matches(d) # {}
        chosen == Keeping(dies, {d \in DOMAIN Dies : kept(d)})
    IN  [i \in DOMAIN chosen |-> [die |-> chosen[i], matches |-> matches(chosen[i])]]

\* A typedef that points nowhere, met while names are noted, ends the program.
ReadUnit ==
    /\ Reading /\ unit \in DOMAIN Units /\ todo = <<>>
    /\ LET u == Units[unit]
       IN  /\ unit' = unit + 1
           /\ anon' = IF u.parses THEN NotedNames(u.dies) ELSE <<>>
           /\ todo' = IF u.parses THEN Interesting(u.dies) ELSE <<>>
           /\ warned' = IF u.parses THEN warned ELSE warned \cup {Path}
           /\ extraction' = IF u.parses /\ \E d \in Range(u.dies) :
                                   Dies[d].tag = "typedef" /\ DieName(d) # <<>> /\ Dies[d].ref = BadRef
                            THEN "crashed" ELSE extraction
    /\ UNCHANGED <<types, conflicts, keys, endian, pointer, calls, request, file, matched, geometry, sources>>

Record(matches, key) ==
    IF key = VOID_KEY THEN matched
    ELSE matched \cup {[wanted |-> m[1], tier |-> m[2], key |-> key] : m \in matches}

\* What is to be read next: for the entry being read, or for the walk.
Sought == IF calls = <<>> THEN Head(todo).die ELSE Asked

Seeking == Reading /\ todo # <<>> /\ (calls = <<>> \/ Asks)

CallType ==
    /\ Seeking /\ ~Answered(Sought) /\ ~Raises(Sought)
    /\ Call(Sought)
    /\ UNCHANGED <<conflicts, keys, anon, endian, pointer, walkVars>>

ReadOn ==
    /\ Reading
    /\ TakeChild \/ Build
    /\ UNCHANGED <<anon, endian, pointer, walkVars>>

\* What was entered before an exception stays entered.
PassOver ==
    /\ Seeking /\ Raises(Sought)
    /\ Unwind
    /\ warned' = warned \cup {Head(todo).die}
    /\ todo' = Tail(todo)
    /\ UNCHANGED <<types, conflicts, keys, anon, endian, pointer,
                   request, file, unit, matched, geometry, sources, extraction>>

EndType ==
    /\ Reading /\ todo # <<>> /\ calls = <<>> /\ Head(todo).die \in DOMAIN keys
    /\ matched' = Record(Head(todo).matches, keys[Head(todo).die])
    /\ todo' = Tail(todo)
    /\ UNCHANGED <<readerVars, request, file, unit, warned, geometry, sources, extraction>>

CloseFile ==
    /\ Reading /\ unit > 0 /\ unit > Len(Units) /\ todo = <<>>
    /\ sources' = sources \cup {Path}
    /\ LET sized == {g \in GEOMETRY_TYPES : SizeOr0(types, g) > 0}
       IN  geometry' = [g \in DOMAIN geometry \cup sized |-> IF g \in sized THEN SizeOf(types, g) ELSE geometry[g]]
    /\ file' = file + 1 /\ unit' = 0
    /\ UNCHANGED <<readerVars, request, todo, matched, warned, extraction>>

-----------------------------------------------------------------------------

\* Names of the mapping that came to no type.
Unresolved == {w \in request.wanted : Resolution(matched, w) = {}}

Roots == {w \in request.wanted : Resolution(matched, w) # {}}

\* Without a file that could be read, or when a filter left nothing or, strict,
\* not everything, there is no registry.
Finish ==
    /\ extraction = "reading" /\ file > Len(request.paths)
    /\ extraction' = IF \/ sources = {}
                        \/ request.filtered /\ Unresolved # {} /\ (Roots = {} \/ request.strict)
                     THEN "failed" ELSE "done"
    /\ UNCHANGED <<readerVars, request, file, unit, todo, matched, warned, geometry, sources>>

Extract ==
    \/ OpenFile \/ ReadUnit
    \/ CallType \/ ReadOn \/ PassOver \/ EndType
    \/ CloseFile \/ Finish

-----------------------------------------------------------------------------

Definitions == {d \in DOMAIN keys : Dies[d].tag = "base" \/ IsComplete(d)}

\* Every type a registered one is built from is registered too, whatever was
\* filtered out, cut short by an exception or read before (_key_for_die).
Closed ==
    \A k \in DOMAIN types :
        LET node == types[k]
        IN  CASE IsComposite(node) -> \A i \in DOMAIN node.members : node.members[i].type \in DOMAIN types
              [] node.kind = "array" -> node.elem \in DOMAIN types
              [] node.kind = "typedef" -> node.target \in DOMAIN types
              [] OTHER -> TRUE

\* A definition whose size is not that of the type its name has is reported,
\* unless a typedef has the name: that has no size of its own (_note_conflict).
ConflictsReported ==
    \A d \in Definitions :
        LET node == types[keys[d]]
        IN  node.kind # "typedef" /\ node.size # OwnSize(d) => keys[d] \in conflicts

\* A typedef of a struct that is defined somewhere in the build is not left
\* without one because the declaration was met first (_build_composite).
TypedefsFindTheirStruct ==
    extraction = "done" /\ ~request.filtered =>
        \A d \in DOMAIN Dies :
            /\ Dies[d].tag = "typedef" /\ Dies[d].ref \in DOMAIN Dies /\ Dies[Dies[d].ref].decl
            /\ IsComposite(Node(types, Qualify(Dies[d].ref))) /\ Qualify(d) \in DOMAIN types
            => Resolve(types, Qualify(d)) # VoidType

\* If nothing was passed over, what the filter finds in the build for a name is
\* what the index finds in the type file, by the same rule; enums are in the
\* first only (NameFilter).
FilterMirrorsIndex ==
    extraction = "done" /\ warned \cap DOMAIN Dies = {} =>
        \A w \in Roots :
            LET found == Resolution(matched, w)
            IN  found \cap {k \in DOMAIN types : types[k].kind = "enum"} = {} => Found(types, w) = found

\* A type stays as it is, or is that of the entry being read: a composite gets
\* its members, a typedef had none of that name before it was read.
Stays(k) ==
    \/ types'[k] = types[k]
    \/ /\ calls # <<>> /\ Named(Top.die) /\ OwnKey(Top.die) = k /\ ~Top.known
       /\ \/ /\ IsComplete(Top.die) /\ types[k] = Composite(Top.die, <<>>)
             /\ types'[k].kind = types[k].kind /\ types'[k].size = types[k].size
          \/ Dies[Top.die].tag = "typedef" /\ types'[k].kind = "typedef"

\* A type once in the registry is never replaced, as others may have been laid
\* out with it, but by the entry of that name that is being read
\* (_build_composite, _build_typedef).
TypesStay == [][\A k \in DOMAIN types \cap DOMAIN types' : Stays(k)]_types
=============================================================================
