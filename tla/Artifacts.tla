------------------------------- MODULE Artifacts -------------------------------
(***************************************************************************)
(* artifact_put, which reads back what it wrote, and the two ways to get an  *)
(* artifact: inline, and streamed in windows that are statements of their    *)
(* own.  Bytes are their own hash here: two blobs with one sha256 are equal. *)
(***************************************************************************)
EXTENDS Entries

CONSTANTS
    Chunk,         \* artifact_stream_chunk
    InlineLimit,   \* artifact_inline_limit
    MaxBytes       \* max_artifact_bytes

Byte == 0..255
Bytes == Seq(Byte)

ASSUME ArtifactsAssumption ==
    /\ {Chunk, InlineLimit, MaxBytes} \subseteq Nat \ {0}
    /\ \A w \in Workloads : \A j \in Jobs :
         w.task[j].op \in {"put", "get"} => w.task[j].data \in Bytes

VARIABLES
    blobs,    \* the artifact table: sha256 -> bytes and content_type
    fresh,    \* job -> its last INSERT returned a row
    cuts,     \* job -> runs that lost their connection
    reply     \* job -> how it ended or stands, bytes got so far, their type

artifactVars == <<blobs, fresh, cuts, reply>>

NoReply == [how |-> "none", bytes |-> <<>>, type |-> "none"]

ArtifactsInit ==
    /\ blobs = <<>>
    /\ fresh = [j \in Jobs |-> FALSE]
    /\ cuts = [j \in Jobs |-> 0]
    /\ reply = [j \in Jobs |-> NoReply]

-----------------------------------------------------------------------------
IsPut(j) == task[j].op = "put"
IsGet(j) == task[j].op = "get"   \* by the tool, or over HTTP

\* SELECT substring(bytes FROM offset + 1 FOR length), 1-indexed.
WindowFromZero(sha, offset, length) ==
    SubSeq(blobs[sha].bytes, Max({1, offset}), Min({offset + length - 1, Len(blobs[sha].bytes)}))
Window(sha, offset, length) ==
    SubSeq(blobs[sha].bytes, offset + 1, Min({offset + length, Len(blobs[sha].bytes)}))

Finish(j, how, bytes, type) ==
    /\ reply' = [reply EXCEPT ![j] = [how |-> how, bytes |-> bytes, type |-> type]]
    /\ Goto(j, "done")

\* INSERT ... ON CONFLICT DO NOTHING RETURNING.
PutBlob(j) ==
    /\ fresh' = [fresh EXCEPT ![j] = task[j].data \notin DOMAIN blobs]
    /\ blobs' = [sha \in DOMAIN blobs \cup {task[j].data} |->
                   IF sha \in DOMAIN blobs THEN blobs[sha]
                   ELSE [bytes |-> sha, type |-> task[j].type]]

ArtifactPut(j) ==
    /\ IsPut(j)
    /\ pc[j] = "idle"
    /\ IF Len(task[j].data) > MaxBytes
         THEN Finish(j, "too_large", <<>>, "none") /\ UNCHANGED <<blobs, fresh>>
         ELSE PutBlob(j) /\ Goto(j, "verify") /\ UNCHANGED reply
    /\ UNCHANGED <<log, now, task, head, cuts>>

\* The metadata and the whole blob are read again; the answer repeats the type
\* it was called with.
VerifyPut(j) ==
    /\ pc[j] = "verify"
    /\ IF Window(task[j].data, 0, Len(task[j].data)) = task[j].data
         THEN Finish(j, "stored", task[j].data, task[j].type)
         ELSE Finish(j, "write_verification_failed", <<>>, "none")
    /\ UNCHANGED <<log, now, task, head, blobs, fresh, cuts>>

\* The metadata decides between nothing, an inline copy, a URL, and a stream.
GetMeta(j) ==
    /\ IsGet(j)
    /\ pc[j] = "idle"
    /\ LET known == task[j].data \in DOMAIN blobs
           size == Len(task[j].data)
       IN IF ~known THEN Finish(j, "not_found", <<>>, "none")
          ELSE IF task[j].http /\ size = 0 THEN Finish(j, "sent", <<>>, blobs[task[j].data].type)
          ELSE IF ~task[j].http /\ size > InlineLimit THEN Finish(j, "url", <<>>, "none")
          ELSE /\ Goto(j, IF task[j].http THEN "window" ELSE "inline")
               /\ reply' = [reply EXCEPT ![j].type = blobs[task[j].data].type]
    /\ UNCHANGED <<log, now, task, head, blobs, fresh, cuts>>

GetInline(j) ==
    /\ pc[j] = "inline"
    /\ Finish(j, "inline", Window(task[j].data, 0, Len(task[j].data)), reply[j].type)
    /\ UNCHANGED <<log, now, task, head, blobs, fresh, cuts>>

\* One turn of body(): a window from where the last ended, until the size that
\* was announced is reached or a window is empty.
StreamWindow(j) ==
    /\ pc[j] = "window"
    /\ LET window == Window(task[j].data, Len(reply[j].bytes), Chunk)
           sent == reply[j].bytes \o window
       IN IF window # <<>> /\ Len(sent) < Len(task[j].data)
            THEN reply' = [reply EXCEPT ![j].bytes = sent] /\ UNCHANGED pc
            ELSE Finish(j, "sent", sent, reply[j].type)
    /\ UNCHANGED <<log, now, task, head, blobs, fresh, cuts>>

\* The connection drops for good in a statement: a put, its INSERT committed or
\* not, is run again from its start while it may; a get breaks off where it is.
ArtifactDrop(j) ==
    /\ \/ /\ IsPut(j)
          /\ pc[j] # "done"
          /\ \/ pc[j] = "idle" /\ Len(task[j].data) <= MaxBytes /\ PutBlob(j)
             \/ UNCHANGED <<blobs, fresh>>
          /\ cuts' = [cuts EXCEPT ![j] = @ + 1]
          /\ IF cuts[j] + 1 < Reconnects THEN Goto(j, "idle") /\ UNCHANGED reply
             ELSE Finish(j, "failed", <<>>, "none")
       \/ /\ IsGet(j)
          /\ pc[j] # "done"
          /\ Finish(j, "failed", reply[j].bytes, reply[j].type)
          /\ UNCHANGED <<blobs, fresh, cuts>>
    /\ UNCHANGED <<log, now, task, head>>

ArtifactsStep(j) ==
    \/ ArtifactPut(j) \/ VerifyPut(j)
    \/ GetMeta(j) \/ GetInline(j) \/ StreamWindow(j) \/ ArtifactDrop(j)

-----------------------------------------------------------------------------
ArtifactsTypeOK ==
    /\ \A sha \in DOMAIN blobs : DOMAIN blobs[sha] = {"bytes", "type"}
    /\ fresh \in [Jobs -> BOOLEAN]
    /\ cuts \in [Jobs -> 0..Reconnects]
    /\ \A j \in Jobs : reply[j].how \in
         {"none", "too_large", "stored", "write_verification_failed", "not_found",
          "inline", "url", "sent", "failed"}

\* What is got of an artifact is whole: as long as it lasts, and when it breaks
\* off, a stream has sent the beginning of the bytes; one that ends, and an inline
\* answer, all of them, under the type of a put of these bytes, and of the put
\* that said its blob was not a duplicate.  At most one says so, and a put that
\* said anything has its bytes in the table (artifact_put, get_artifact's
\* windows over artifact_read_range).
ArtifactsAreWhole ==
    LET First(j) == IsPut(j) /\ reply[j].how = "stored" /\ fresh[j] IN
    /\ \A j \in Jobs : IsGet(j) =>
         /\ IsPrefix(reply[j].bytes, task[j].data)
         /\ reply[j].how \in {"sent", "inline"} =>
              /\ reply[j].bytes = task[j].data
              /\ \E i \in Jobs : IsPut(i) /\ task[i].data = task[j].data
                                        /\ task[i].type = reply[j].type
              /\ \A i \in Jobs : First(i) /\ task[i].data = task[j].data
                                   => task[i].type = reply[j].type
    /\ \A i, j \in Jobs : First(i) /\ First(j) /\ task[i].data = task[j].data => i = j
    /\ \A j \in Jobs : IsPut(j) /\ pc[j] = "done" /\ cuts[j] < Reconnects =>
         \/ Len(task[j].data) > MaxBytes
         \/ reply[j].how = "stored" /\ task[j].data \in DOMAIN blobs
=============================================================================
