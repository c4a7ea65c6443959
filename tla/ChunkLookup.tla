----------------------------- MODULE ChunkLookup -----------------------------
(***************************************************************************)
(* Finding chunks: gff_load_id_list tells a caller which ids a type has,   *)
(* gff_find_chunk_header where one of them is, gff_read_chunk fetches it.  *)
(* An ordinary type holds its chunk headers in the cached directory.  A    *)
(* segmented type holds runs of consecutive ids; the headers are the rows  *)
(* of a table in the file, run behind run, so the id list and the lookup   *)
(* each compute by themselves which row an id has.  The directory grows    *)
(* under a list the caller already holds, unless it has a segmented type.  *)
(***************************************************************************)
EXTENDS Integers, Sequences, FiniteSetsExt, SequencesExt

CONSTANTS
    Ordinary, Segmented,    \* types
    Asked,                  \* the types an application asks for
    NewId,                  \* ids a caller may add
    MaxChunks,              \* bound: chunks of an ordinary type
    Files,                  \* the directories a handle may have read
    None,
    NotFound,               \* no such type or id
    Garbage                 \* bytes behind the table, read as a header

(* A directory: chunk headers of the ordinary types, and of the segmented  *)
(* ones their runs, the table they name in the GFFI type, and all tables.  *)
Headers == [id : Nat, location : Nat, length : Nat]
IdRuns == [first : Nat, num : Nat]
TableRows == [location : Nat, length : Nat]
Directory ==
    [types : SUBSET (Ordinary \cup Segmented),
     chunks : [Ordinary -> Seq(Headers)],
     runs : [Segmented -> Seq(IdRuns)],
     table : [Segmented -> Nat],
     gffi : Seq(Seq(TableRows))]

ASSUME MarksAssumption == NotFound \notin Headers
ASSUME NewIdAssumption == NewId \subseteq Nat

(* How many ids the runs have, summed run by run.                          *)
Total(runs) ==
    LET total[n \in 0 .. Len(runs)] ==
          IF n = 0 THEN 0 ELSE total[n - 1] + runs[n].num
    IN  total

Ascending(runs) ==
    \A j, k \in DOMAIN runs : j < k => runs[j].first + runs[j].num <= runs[k].first

(* Runs ascend, as the games' files have them, and the table has a row for *)
(* each of their ids; ids of an ordinary type differ.                      *)
WellFormed(f) ==
    /\ f \in Directory
    /\ \A t \in Ordinary : IsInjective([k \in DOMAIN f.chunks[t] |-> f.chunks[t][k].id])
    /\ \A t \in Segmented :
          /\ Ascending(f.runs[t])
          /\ f.table[t] \in DOMAIN f.gffi
          /\ Total(f.runs[t])[Len(f.runs[t])] = Len(f.gffi[f.table[t]])

ASSUME FilesAssumption == \A f \in Files : WellFormed(f)

VARIABLES
    f,          \* the cached directory
    list,       \* the id list the caller holds, or None
    found,      \* what gff_find_chunk_header answered last, or None
    running     \* write_toc has not ended the process

vars == <<f, list, found, running>>

------------------------------------------------------------------------------
(* Mutant: runs are counted, not their ids.                                *)
CountsRuns(t) ==
    IF t \notin f.types THEN 0
    ELSE IF t \in Segmented THEN Len(f.runs[t]) ELSE Len(f.chunks[t])

(* gff_get_resource_length: the size of the buffer for the ids.            *)
Length(t) ==
    IF t \notin f.types THEN 0
    ELSE IF t \in Segmented
         THEN Total(f.runs[t])[Len(f.runs[t])]
         ELSE Len(f.chunks[t])

(* gff_get_resource_ids, which copies run behind run.                      *)
IdsOfRun(run) == [k \in 1 .. run.num |-> run.first + k - 1]
Copied(runs) ==
    LET ids[n \in 0 .. Len(runs)] ==
          IF n = 0 THEN <<>> ELSE ids[n - 1] \o IdsOfRun(runs[n])
    IN  ids
Ids(t) ==
    IF t \notin f.types THEN <<>>
    ELSE IF t \in Segmented
         THEN Copied(f.runs[t])[Len(f.runs[t])]
         ELSE [k \in DOMAIN f.chunks[t] |-> f.chunks[t][k].id]

(* chunk_offset: rows of the runs before run j.  Mutant: never advanced.   *)
RowsOfNone(runs, j) == 0
RowsBefore(runs, j) == Total(runs)[j - 1]

(* The first run that may hold the id, 0 for none.                         *)
RunOf(runs, i) ==
    LET holding == {j \in DOMAIN runs : /\ runs[j].first <= i
                                        /\ i <= runs[j].first + runs[j].num}
    IN  IF holding = {} THEN 0 ELSE Min(holding)

(* The row of the table that is read for the id.                           *)
FindInRuns(t, i) ==
    LET runs == f.runs[t]
        j == RunOf(runs, i)
        row == RowsBefore(runs, j) + (i - runs[j].first) + 1
        rows == f.gffi[f.table[t]]
    IN  IF j = 0 THEN NotFound
        ELSE IF row \in DOMAIN rows
             THEN [id |-> i, location |-> rows[row].location,
                   length |-> rows[row].length]
             ELSE Garbage

FindInChunks(t, i) ==
    LET at == {k \in DOMAIN f.chunks[t] : f.chunks[t][k].id = i}
    IN  IF at = {} THEN NotFound ELSE f.chunks[t][Min(at)]

Find(t, i) ==
    IF t \notin f.types THEN NotFound
    ELSE IF t \in Segmented THEN FindInRuns(t, i) ELSE FindInChunks(t, i)

------------------------------------------------------------------------------
Init ==
    /\ f \in Files
    /\ list = None /\ found = None /\ running = TRUE

gff_load_id_list(t) ==
    /\ list' = [type |-> t, len |-> Length(t), ids |-> Ids(t),
                headers |-> [k \in DOMAIN Ids(t) |-> Find(t, Ids(t)[k])]]
    /\ UNCHANGED <<f, found, running>>

gff_find_chunk_header(t, i) ==
    /\ found' = [type |-> t, id |-> i, is |-> Find(t, i)]
    /\ UNCHANGED <<f, list, running>>

(* gff_add_chunk as far as a list sees it: GffWriter chooses the location. *)
NewHeader(t, i) == [id |-> i, location |-> 100 + Len(f.chunks[t]), length |-> 1]

(* write_toc comes to the end of the directory, or to a segmented type,    *)
(* which it cannot write, and there to exit(1): of a directory with such a *)
(* type a caller never sees what was added.                                *)
Writable == f.types \cap Segmented = {}
publishes(chunks) ==
    IF Writable THEN f' = [f EXCEPT !.chunks = chunks] /\ UNCHANGED running
                ELSE running' = FALSE /\ UNCHANGED f

(* Mutant: no scan for the id, and the new header goes in front.           *)
add_chunk_in_front(t, i) ==
    /\ t \in f.types \cap Ordinary
    /\ Len(f.chunks[t]) < MaxChunks
    /\ publishes([f.chunks EXCEPT ![t] = <<NewHeader(t, i)>> \o @])
    /\ UNCHANGED <<list, found>>

(* Mutant: the header of an id that exists is replaced.                    *)
add_chunk_again(t, i) ==
    /\ t \in f.types \cap Ordinary
    /\ Len(f.chunks[t]) < MaxChunks
    /\ publishes([f.chunks EXCEPT ![t] =
                    Append(SelectSeq(@, LAMBDA c : c.id # i), NewHeader(t, i))])
    /\ UNCHANGED <<list, found>>

gff_add_chunk(t, i) ==
    /\ t \in f.types \cap Ordinary
    /\ FindInChunks(t, i) = NotFound
    /\ Len(f.chunks[t]) < MaxChunks
    /\ publishes([f.chunks EXCEPT ![t] = Append(@, NewHeader(t, i))])
    /\ UNCHANGED <<list, found>>

(* The ids a caller tries: every listed one, and those next to them.       *)
Tried(t) ==
    (UNION {{Ids(t)[k] - 1, Ids(t)[k], Ids(t)[k] + 1} : k \in DOMAIN Ids(t)}) \cap Nat

Next ==
    /\ running
    /\ \E t \in Asked :
          \/ gff_load_id_list(t)
          \/ \E i \in Tried(t) : gff_find_chunk_header(t, i)
          \/ \E i \in NewId : gff_add_chunk(t, i)

Spec == Init /\ [][Next]_vars

------------------------------------------------------------------------------
TypeOK ==
    /\ WellFormed(f)
    /\ list # None =>
          /\ list.ids \in Seq(Nat) /\ list.len \in Nat
          /\ list.headers \in Seq(Headers \cup {NotFound, Garbage})
    /\ found # None => found.is \in Headers \cup {NotFound, Garbage}

(* The id list and the lookup agree on the table: the k-th listed id of a  *)
(* segmented type has the k-th row, whichever run it belongs to.           *)
ListedIdHasItsRow ==
    \A t \in Segmented \cap f.types : \A k \in DOMAIN Ids(t) :
       LET row == f.gffi[f.table[t]][k]
       IN  Find(t, Ids(t)[k]) = [id |-> Ids(t)[k], location |-> row.location,
                                 length |-> row.length]

(* A list a caller holds stays good while chunks are added, as they can be *)
(* to a directory without a segmented type: it fills the buffer that       *)
(* gff_get_resource_length had counted and no more, and each of its ids is *)
(* still found, at the header it had when it was listed.  So does a header *)
(* it found.                                                               *)
ListStaysGood ==
    /\ TypeOK
    /\ list # None =>
          /\ Len(list.ids) = list.len
          /\ \A k \in DOMAIN list.ids :
                /\ list.headers[k] \in Headers
                /\ Find(list.type, list.ids[k]) = list.headers[k]
    /\ found # None /\ found.is # NotFound => Find(found.type, found.id) = found.is
==============================================================================
