------------------------------ MODULE GffImage ------------------------------
(***************************************************************************)
(* What a GFF file promises to whoever opens it, whatever the writer's     *)
(* steps: a set of types and a map from (type, id) to a payload.  The file *)
(* may be torn for a while (its table of contents is being replaced) or    *)
(* for ever (the writer died inside that window): opening it fails then,   *)
(* or shows what no table of contents is.  But when it is whole it shows   *)
(* the last published directory, a publication adds at most one type or    *)
(* one chunk, and no chunk ever disappears or turns into something nobody  *)
(* wrote.                                                                  *)
(***************************************************************************)
CONSTANTS Type, Id, Payload,
          Length       \* Length[p] is the number of bytes of payload p

Key == Type \X Id

VARIABLES whole,       \* is there a directory to open it as?
          types,       \* the published types
          content      \* the published chunks: a function from keys to payloads

vars == <<whole, types, content>>

TypeOK ==
    /\ whole \in BOOLEAN
    /\ types \subseteq Type
    /\ DOMAIN content \subseteq types \X Id
    /\ \A k \in DOMAIN content : content[k] \in Payload

(* The file is either new, or one that was written before. *)
Init == TypeOK

Tear ==
    /\ whole' = FALSE
    /\ UNCHANGED <<types, content>>

Publish ==
    /\ whole' = TRUE
    /\ UNCHANGED <<types, content>>

PublishType(t) ==
    /\ t \notin types
    /\ whole' = TRUE
    /\ types' = types \cup {t}
    /\ UNCHANGED content

PublishChunk(k, p) ==
    /\ k[1] \in types
    /\ k \notin DOMAIN content
    /\ whole' = TRUE
    /\ content' = [j \in DOMAIN content \cup {k} |-> IF j = k THEN p ELSE content[j]]
    /\ UNCHANGED types

(* gff_write_chunk replaces the bytes of a chunk and keeps its length. *)
Overwrite(k, p) ==
    /\ k \in DOMAIN content
    /\ Length[p] = Length[content[k]]
    /\ content' = [content EXCEPT ![k] = p]
    /\ UNCHANGED <<whole, types>>

(* gff_create on the path of an existing file truncates it. *)
Truncate ==
    /\ whole' = FALSE
    /\ types' = {}
    /\ content' = [k \in {} |-> {}]

Next ==
    \/ Tear
    \/ Publish
    \/ \E t \in Type : PublishType(t)
    \/ \E k \in Key, p \in Payload : PublishChunk(k, p) \/ Overwrite(k, p)
    \/ Truncate

Spec == Init /\ [][Next]_vars
=============================================================================
