------------------------------ MODULE Pipeline ------------------------------
(***************************************************************************)
(* A session: commands run one after another that write the type file and  *)
(* read it back (cli.py, cmd_extract and the start of cmd_decode).         *)
(***************************************************************************)
EXTENDS Extractor, Dictionary

CONSTANTS
    Sessions,       \* sequences of commands
    Mappings        \* mapping files, by name

\* Extract is given files that may be there or not; decode needs a mapping.
ASSUME SessionsAssumption ==
    \A session \in Sessions :
        /\ session \in Seq(Range(session))
        /\ \A command \in Range(session) :
              /\ command.kind = "extract" => command.paths \in Seq(DOMAIN Files)
              /\ command.kind = "decode" => command.mapping \in DOMAIN Mappings

\* A mapping file is finite, and no function code is what stands for the default.
ASSUME MappingsAssumption ==
    \A m \in DOMAIN Mappings :
        /\ Mappings[m].unions \in Seq(Range(Mappings[m].unions))
        /\ Mappings[m].items \in Seq(Range(Mappings[m].items))
        /\ \A item \in Range(Mappings[m].items) :
              /\ item.fcn \in Seq(Range(item.fcn))
              /\ \A f \in Range(item.fcn) : f.code # NoDefault

VARIABLES
    commands,       \* to run, the running one first
    running,        \* "no", "extracting", "writing" or "loading"
    disk,           \* the type file: NoFile, Torn or its content
    exits           \* the exit status of each command so far

vars == <<commands, running, disk, exits, extractorVars, dictionaryVars>>

NoFile == [there |-> FALSE, whole |-> FALSE]
Torn == [there |-> TRUE, whole |-> FALSE]

NoMapping == "none"

Interrupted == 130

Command == Head(commands)

GivenMapping == Mappings[Command.mapping]

Read == ReadMapping(GivenMapping)

Exit(status) ==
    /\ exits' = Append(exits, status)
    /\ commands' = Tail(commands)
    /\ running' = "no"

Init ==
    /\ commands \in Sessions
    /\ running = "no" /\ disk = NoFile /\ exits = <<>>
    /\ ExtractorInit
    /\ DictionaryInit
    /\ typeFile = NoFile
    /\ mapping = [entries |-> <<>>, unions |-> <<>>]
    /\ options = [headers |-> {}]

Idle(kind) == running = "no" /\ commands # <<>> /\ Command.kind = kind

-----------------------------------------------------------------------------

MappingReads == Command.mapping # NoMapping => ReadsMapping(GivenMapping)

RefuseExtract ==
    /\ Idle("extract") /\ ~MappingReads
    /\ Exit(1)
    /\ UNCHANGED <<disk, extractorVars, dictionaryVars>>

BeginExtract ==
    /\ Idle("extract") /\ MappingReads
    /\ StartExtraction([paths |-> Command.paths,
                        filtered |-> Command.mapping # NoMapping,
                        wanted |-> IF Command.mapping = NoMapping THEN {} ELSE StructNames(Read.entries),
                        strict |-> Command.strict])
    /\ running' = "extracting"
    /\ UNCHANGED <<commands, disk, exits, dictionaryVars>>

ExtractStep ==
    /\ running = "extracting"
    /\ Extract
    /\ UNCHANGED <<commands, running, disk, exits, dictionaryVars>>

\* The type file is as it was when there is nothing to put in its place.
ExtractFails ==
    /\ running = "extracting" /\ extraction \in {"failed", "crashed"}
    /\ Exit(1)
    /\ UNCHANGED <<disk, extractorVars, dictionaryVars>>

\* Opening the file for writing empties it.
OpenOutput ==
    /\ running = "extracting" /\ extraction = "done"
    /\ running' = "writing"
    /\ disk' = Torn
    /\ UNCHANGED <<commands, exits, extractorVars, dictionaryVars>>

Dumped ==
    [there |-> TRUE, whole |-> TRUE, types |-> types, filtered |-> request.filtered,
     roots |-> [w \in Roots |-> Resolution(matched, w)], unresolved |-> Unresolved,
     headers |-> Command.headers \cup (IF request.filtered THEN Read.headers ELSE {})]

Dump ==
    /\ running = "writing"
    /\ disk' = Dumped
    /\ Exit(0)
    /\ UNCHANGED <<extractorVars, dictionaryVars>>

Interrupt ==
    /\ running = "writing"
    /\ Exit(Interrupted)
    /\ UNCHANGED <<disk, extractorVars, dictionaryVars>>

-----------------------------------------------------------------------------

\* The types are read before the mapping.
RefuseDecode ==
    /\ Idle("decode") /\ (~disk.whole \/ ~MappingReads)
    /\ Exit(1)
    /\ UNCHANGED <<disk, extractorVars, dictionaryVars>>

BeginDecode ==
    /\ Idle("decode") /\ disk.whole /\ MappingReads
    /\ StartLoad(disk, Read, [headers |-> Command.headers, unionBytes |-> Command.unionBytes])
    /\ running' = "loading"
    /\ UNCHANGED <<commands, disk, exits, extractorVars>>

LoadStep ==
    /\ running = "loading"
    /\ Load
    /\ UNCHANGED <<commands, running, disk, exits, extractorVars>>

\* The exit status of a decode that gets its dictionary depends on the packets.
DecodeEnds ==
    /\ running = "loading"
    /\ Release
    /\ \E status \in {1} \cup (IF loading = "loaded" THEN {0} ELSE {}) : Exit(status)
    /\ UNCHANGED <<disk, extractorVars>>

Done == commands = <<>> /\ UNCHANGED vars

Next ==
    \/ RefuseExtract \/ BeginExtract \/ ExtractStep \/ ExtractFails
    \/ OpenOutput \/ Dump \/ Interrupt
    \/ RefuseDecode \/ BeginDecode \/ LoadStep \/ DecodeEnds
    \/ Done

Spec == Init /\ [][Next]_vars

-----------------------------------------------------------------------------

\* Every variable holds what the code keeps there.
TypeOK ==
    /\ running \in {"no", "extracting", "writing", "loading"}
    /\ extraction \in {"idle", "reading", "done", "failed", "crashed"}
    /\ loading \in {"idle", "unions", "entries", "loaded", "failed"}
    /\ failure \in {"", "unknown", "ambiguous", "not a struct", "misfit", "empty"}
    /\ \A d \in DOMAIN keys : d \in DOMAIN Dies /\ keys[d] \in DOMAIN types
    /\ warned \subseteq DOMAIN Dies \cup DOMAIN Files
    /\ sources \subseteq DOMAIN Files
    /\ DOMAIN geometry \subseteq GEOMETRY_TYPES /\ \A g \in DOMAIN geometry : geometry[g] \in Nat \ {0}
    /\ \A i \in DOMAIN exits : exits[i] \in {0, 1, Interrupted}

\* The entries being read are what their callers ask for, from the one the walk
\* is at inwards, none of them twice and none with a key already; and there are
\* none between two entries of the walk, whatever was raised (_key_for_die).
CallsNest ==
    /\ calls # <<>> => running = "extracting" /\ extraction = "reading" /\ todo # <<>> /\ calls[1].die = todo[1].die
    /\ \A i \in DOMAIN calls : i < Len(calls) =>
          calls[i].left # <<>> /\ Dies[Head(calls[i].left)].ref = calls[i + 1].die
    /\ \A i, j \in DOMAIN calls : calls[i].die = calls[j].die => i = j
    /\ Busy \cap DOMAIN keys = {}

\* A mapping that extract filtered by never makes decode stop at a struct that
\* is not in the type file: each name is there, or known to be absent, or came
\* to nothing but enums.
ExtractedLoads ==
    running = "loading" /\ failure = "unknown" =>
        ~ /\ typeFile.filtered
          /\ \A w \in StructNames(mapping.entries) :
                \/ w \in typeFile.unresolved
                \/ w \in DOMAIN typeFile.roots /\ typeFile.roots[w] \cap Indexed(typeFile.types) # {}
=============================================================================
