----------------------------- MODULE GcsDownload -----------------------------
(***************************************************************************)
(* GoogleCloudStorageDataSource.get_content (src/connectors/sources/gcs.py)*)
(* for one blob: the eligibility checks, the download of the object into   *)
(* a NamedTemporaryFile(delete=False) through _api_call(objects.get,       *)
(* pipe_to=...) with its retry loop, the base64 conversion in a worker     *)
(* thread, the read of the converted file and its removal.                 *)
(*                                                                         *)
(* The object's bytes are a sequence of chunks 1..size; the response body  *)
(* is written to the temp file chunk by chunk and a request may fail after *)
(* any prefix of it.  base64 encoding is modelled as an injective tag.     *)
(***************************************************************************)
EXTENDS Naturals, Sequences, SequencesExt

CONSTANTS
    FileSizeLimit,  \* DEFAULT_FILE_SIZE_LIMIT, in chunks
    RetryCount      \* configuration["retry_count"]

ASSUME DownloadAssumption ==
    /\ FileSizeLimit \in Nat \ {0}
    /\ RetryCount \in Nat

VARIABLES
    blob,        \* [size, supported, extraction, doit]: the call's inputs
    pc,          \* "check" | "download" | "convert" | "read" | "remove"
                 \*  | "returned" | "skipped" | "raised"
    failures,    \* retry_counter of the objects.get call
    pos,         \* chunks of the body received in the current attempt
    file,        \* contents of the temp file: [encoded, bytes]
    tmp,         \* the temp file exists on disk
    attachment   \* document["_attachment"]; bytes <<>> before it is set

vars == <<blob, pc, failures, pos, file, tmp, attachment>>

Content(n) == [i \in 1..n |-> i]

Raw(s) == [encoded |-> FALSE, bytes |-> s]

B64(s) == [encoded |-> TRUE, bytes |-> s]

Inputs == [size : 0..FileSizeLimit + 1, supported : BOOLEAN,
           extraction : BOOLEAN, doit : BOOLEAN]

(* The early returns of get_content.                                       *)
Eligible(b) ==
    /\ b.extraction /\ b.doit /\ b.size # 0
    /\ b.supported
    /\ b.size <= FileSizeLimit

Init ==
    /\ blob \in Inputs
    /\ pc = "check"
    /\ failures = 0
    /\ pos = 0
    /\ file = Raw(<<>>)
    /\ tmp = FALSE
    /\ attachment = Raw(<<>>)

Skip ==
    /\ pc = "check"
    /\ ~Eligible(blob)
    /\ pc' = "skipped"
    /\ UNCHANGED <<blob, failures, pos, file, tmp, attachment>>

(* async with NamedTemporaryFile(mode="wb", delete=False)                  *)
OpenTemp ==
    /\ pc = "check"
    /\ Eligible(blob)
    /\ pc' = "download"
    /\ tmp' = TRUE
    /\ UNCHANGED <<blob, failures, pos, file, attachment>>

(* The next chunk of the response body is piped to the temp file.          *)
ReceiveChunk ==
    /\ pc = "download"
    /\ pos < blob.size
    /\ file' = Raw(Append(file.bytes, Content(blob.size)[pos + 1]))
    /\ pos' = pos + 1
    /\ UNCHANGED <<blob, pc, failures, tmp, attachment>>

(* Faulty variants of Downloaded and RequestFails, each what a plausible   *)
(* slip in the download loop would make of it.                             *)

\* the end of the body is looked for one chunk too late.
DownloadedLate ==
    /\ pc = "download"
    /\ pos = blob.size + 1
    /\ pc' = "convert"
    /\ UNCHANGED <<blob, failures, pos, file, tmp, attachment>>

\* raise only when retry_counter > retry_count + 1: one retry more.
RequestFailsLate ==
    /\ pc = "download"
    /\ pos < blob.size
    /\ failures' = failures + 1
    /\ pos' = 0
    /\ pc' = IF failures + 1 > RetryCount + 1 THEN "raised" ELSE pc
    /\ UNCHANGED <<blob, file, tmp, attachment>>

(* The request fails: count it, raise once the budget is spent (leaving    *)
(* the temp file), else sleep and request again into the same buffer.      *)
RequestFails ==
    /\ pc = "download"
    /\ pos < blob.size
    /\ failures' = failures + 1
    /\ pos' = 0
    /\ pc' = IF failures + 1 > RetryCount THEN "raised" ELSE pc
    /\ UNCHANGED <<blob, file, tmp, attachment>>

Downloaded ==
    /\ pc = "download"
    /\ pos = blob.size
    /\ pc' = "convert"
    /\ UNCHANGED <<blob, failures, pos, file, tmp, attachment>>

(* await asyncio.to_thread(convert_to_b64, source=...): the file is        *)
(* replaced by its base64 encoding, or the conversion raises.              *)
Convert ==
    /\ pc = "convert"
    /\ file' = B64(file.bytes)
    /\ pc' = "read"
    /\ UNCHANGED <<blob, failures, pos, tmp, attachment>>

ConvertFails ==
    /\ pc = "convert"
    /\ pc' = "raised"
    /\ UNCHANGED <<blob, failures, pos, file, tmp, attachment>>

ReadAttachment ==
    /\ pc = "read"
    /\ attachment' = file
    /\ pc' = "remove"
    /\ UNCHANGED <<blob, failures, pos, file, tmp>>

(* Opening or reading the converted file raises.                          *)
ReadFails ==
    /\ pc = "read"
    /\ pc' = "raised"
    /\ UNCHANGED <<blob, failures, pos, file, tmp, attachment>>

(* await remove(source_file_name); return document                         *)
RemoveTemp ==
    /\ pc = "remove"
    /\ tmp' = FALSE
    /\ pc' = "returned"
    /\ UNCHANGED <<blob, failures, pos, file, attachment>>

Next ==
    \/ Skip \/ OpenTemp \/ ReceiveChunk \/ RequestFails \/ Downloaded
    \/ Convert \/ ConvertFails \/ ReadAttachment \/ ReadFails \/ RemoveTemp

(* Every awaited request completes (with the body or an exception) and the *)
(* worker thread finishes: get_content keeps making steps.                 *)
Spec == Init /\ [][Next]_vars /\ WF_vars(Next)

-----------------------------------------------------------------------------
TypeOK ==
    /\ blob \in Inputs
    /\ pc \in {"check", "download", "convert", "read", "remove",
               "returned", "skipped", "raised"}
    /\ failures \in 0..RetryCount + 1
    /\ pos \in 0..blob.size
    /\ tmp \in BOOLEAN

(* A document returned by get_content carries the base64 encoding of the   *)
(* object's bytes, exactly once, whatever requests failed on the way.      *)
AttachmentIntact == pc = "returned" => attachment = B64(Content(blob.size))

(* A returned attachment is base64 of a file that ends with the whole      *)
(* object: the attempt that succeeded wrote every chunk, whatever failed   *)
(* attempts left before it.                                                *)
AttachmentEndsWithContent ==
    pc = "returned" =>
        /\ attachment.encoded
        /\ IsSuffix(Content(blob.size), attachment.bytes)

(* The last n bytes of a file are the chunks 1..n of the object.          *)
EndsWithChunks(bytes, n) ==
    /\ n <= Len(bytes)
    /\ \A i \in 1..n : bytes[Len(bytes) - n + i] = i

(* Whatever failed attempts wrote before, the temp file ends with the     *)
(* chunks the current attempt has received; once the body is complete it  *)
(* ends with the whole object, through the conversion, the read and the   *)
(* return.  A request is retried only while the budget lasts.             *)
DownloadInv ==
    /\ TypeOK
    /\ file.bytes \in Seq(Nat) /\ attachment.bytes \in Seq(Nat)
    /\ pc # "raised" => failures <= RetryCount
    /\ pc = "check" => file.bytes = << >> /\ pos = 0
    /\ pc = "download" => EndsWithChunks(file.bytes, pos)
    /\ pc = "convert" => EndsWithChunks(file.bytes, blob.size)
    /\ pc = "read" => file.encoded /\ EndsWithChunks(file.bytes, blob.size)
    /\ pc \in {"remove", "returned"} =>
          attachment.encoded /\ EndsWithChunks(attachment.bytes, blob.size)

(* Once get_content has returned or raised, its temp file is gone.         *)
TempFileRemoved == pc \in {"returned", "skipped", "raised"} => ~tmp

(* get_content always returns or raises.                                   *)
DownloadTerminates == <>(pc \in {"returned", "skipped", "raised"})
=============================================================================
