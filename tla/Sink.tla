-------------------------------- MODULE Sink --------------------------------
(***************************************************************************)
(* The output files of a decode run (writers.py): one per name, opened     *)
(* when the first row for that name arrives, with that row's columns as    *)
(* its header.  A row is a sequence of cells; a cell knows the column it   *)
(* was computed for, so that a reader of the file can be told a wrong one. *)
(***************************************************************************)
EXTENDS Naturals, Sequences

VARIABLES
    files,      \* name -> [columns, rows] of every file written so far
    closed      \* close() has run

sinkVars == <<files, closed>>

\* dict(zip(columns, row)): of two columns of one name the last one stays.
Record(columns, row) ==
    LET Paired == DOMAIN columns \cap DOMAIN row
    IN  [c \in {columns[i] : i \in Paired} |->
            row[CHOOSE i \in Paired : /\ columns[i] = c
                                      /\ \A j \in Paired : columns[j] = c => j <= i]]

\* What make_sink's CsvSink ("csv") or JsonlSink ("jsonl") puts in the file.
Render(format, columns, row) == IF format = "csv" THEN row ELSE Record(columns, row)

SinkInit == /\ files = [n \in {} |-> {}]
            /\ closed = FALSE

\* The file of this name, created if this is its first row.
Opened(name, columns) ==
    IF name \in DOMAIN files THEN files[name] ELSE [columns |-> columns, rows |-> <<>>]

\* A bug: the cells are put under the columns of the file's first row.
WriteUnderHeader(format, name, columns, row) ==
    /\ ~closed
    /\ LET file == Opened(name, columns)
       IN  files' = [n \in DOMAIN files \cup {name} |->
                       IF n = name
                         THEN [file EXCEPT !.rows =
                                 Append(@, Render(format, file.columns, row))]
                         ELSE files[n]]
    /\ UNCHANGED closed

Write(format, name, columns, row) ==
    /\ ~closed
    /\ files' = [n \in DOMAIN files \cup {name} |->
                   IF n = name
                     THEN [Opened(name, columns) EXCEPT !.rows =
                             Append(@, Render(format, columns, row))]
                     ELSE files[n]]
    /\ UNCHANGED closed

Close == /\ closed' = TRUE
         /\ UNCHANGED files
=============================================================================
