-------------------------- MODULE GcsDownloadProofs --------------------------
(***************************************************************************)
(* Proofs about GcsDownload (get_content for one blob), for every file     *)
(* size limit and retry_count: the inductive invariant DownloadInv, type   *)
(* correctness, and that a returned attachment is the base64 of a file     *)
(* that ends with the whole object.                                        *)
(***************************************************************************)
EXTENDS GcsDownload, TLAPS

USE DownloadAssumption

-----------------------------------------------------------------------------
(* Lemmas on EndsWithChunks.                                               *)

(* Every file ends with the first zero chunks; the empty file only does.  *)
LEMMA ChunksZero ==
    ASSUME NEW b \in Seq(Nat)
    PROVE  EndsWithChunks(b, 0)
BY DEF EndsWithChunks

(* Writing chunk n + 1 after the chunks 1..n gives the chunks 1..n + 1.   *)
LEMMA ChunksAppend ==
    ASSUME NEW b \in Seq(Nat), NEW n \in Nat, EndsWithChunks(b, n)
    PROVE  EndsWithChunks(Append(b, n + 1), n + 1)
<1>1. /\ Len(Append(b, n + 1)) = Len(b) + 1
      /\ Append(b, n + 1)[Len(b) + 1] = n + 1
      /\ \A j \in 1..Len(b) : Append(b, n + 1)[j] = b[j]
  OBVIOUS
<1>2. n <= Len(b) /\ \A i \in 1..n : b[Len(b) - n + i] = i
  BY DEF EndsWithChunks
<1>3. ASSUME NEW i \in 1..n + 1
      PROVE  Append(b, n + 1)[Len(Append(b, n + 1)) - (n + 1) + i] = i
  <2>0. i = n + 1 \/ i \in 1..n
    OBVIOUS
  <2>1. CASE i = n + 1
    BY <1>1, <2>1
  <2>2. CASE i \in 1..n
    <3>1. Len(b) - n + i \in 1..Len(b)
      BY <1>2, <2>2
    <3>. QED  BY <1>1, <1>2, <2>2, <3>1
  <2>. QED  BY <2>0, <2>1, <2>2
<1>4. n + 1 <= Len(Append(b, n + 1))
  BY <1>1, <1>2
<1>. QED  BY <1>3, <1>4 DEF EndsWithChunks

(* A file that ends with the chunks 1..n has the object as a suffix.      *)
LEMMA ChunksSuffix ==
    ASSUME NEW b \in Seq(Nat), NEW n \in Nat, EndsWithChunks(b, n)
    PROVE  IsSuffix(Content(n), b)
<1>. DEFINE r == Reverse(Content(n))
            t == Reverse(b)
<1>1. Len(Content(n)) = n /\ Content(n) \in Seq(Nat)
  BY DEF Content
<1>2. /\ r = [i \in 1..n |-> n - i + 1]
      /\ t = [i \in 1..Len(b) |-> b[Len(b) - i + 1]]
  BY <1>1 DEF Reverse, Content
<1>3. n <= Len(b)
  BY DEF EndsWithChunks
<1>4. /\ r \in Seq(Nat) /\ Len(r) = n
      /\ t \in Seq(Nat) /\ Len(t) = Len(b)
  BY <1>2, <1>3
<1>5. ASSUME NEW i \in 1..n PROVE r[i] = t[i]
  <2>1. n - i + 1 \in 1..n
    OBVIOUS
  <2>2. b[Len(b) - n + (n - i + 1)] = n - i + 1
    BY <2>1 DEF EndsWithChunks
  <2>. QED  BY <1>2, <1>3, <2>2
<1>6. SubSeq(r, 1, n) = SubSeq(t, 1, n)
  BY <1>3, <1>4, <1>5
<1>. QED  BY <1>3, <1>4, <1>6 DEF IsSuffix, IsPrefix

-----------------------------------------------------------------------------
(* The invariant is inductive.                                             *)

LEMMA InitInv == Init => DownloadInv
<1> SUFFICES ASSUME Init PROVE DownloadInv
  OBVIOUS
<1>1. file.bytes = << >> /\ attachment.bytes = << >> /\ pc = "check" /\ pos = 0
  BY DEF Init, Raw
<1>2. blob \in Inputs /\ blob.size \in Nat
  BY DEF Init, Inputs
<1>3. failures \in 0..RetryCount + 1 /\ pos \in 0..blob.size
  BY <1>1, <1>2 DEF Init
<1>4. tmp \in BOOLEAN
  BY Zenon DEF Init
<1>5. TypeOK
  BY <1>1, <1>2, <1>3, <1>4, Zenon DEF TypeOK
<1>6. << >> \in Seq(Nat)
  OBVIOUS
<1>7. failures <= RetryCount
  BY DEF Init
<1>. QED  BY <1>1, <1>5, <1>6, <1>7, Zenon DEF DownloadInv

LEMMA NextInv == DownloadInv /\ [Next]_vars => DownloadInv'
<1> SUFFICES ASSUME DownloadInv, [Next]_vars PROVE DownloadInv'
  OBVIOUS
<1>. USE DEF DownloadInv, TypeOK, Raw, B64, Inputs
<1>1. CASE Skip
  BY <1>1 DEF Skip
<1>2. CASE OpenTemp
  BY <1>2, ChunksZero DEF OpenTemp
<1>3. CASE ReceiveChunk
  <2>1. /\ pc = "download" /\ pos \in 0..blob.size - 1 /\ blob.size \in Nat
        /\ file.bytes \in Seq(Nat) /\ EndsWithChunks(file.bytes, pos)
    BY <1>3 DEF ReceiveChunk, Inputs
  <2>2. Content(blob.size)[pos + 1] = pos + 1
    BY <2>1 DEF Content
  <2>3. EndsWithChunks(Append(file.bytes, pos + 1), pos + 1)
    BY <2>1, ChunksAppend
  <2>4. Append(file.bytes, pos + 1) \in Seq(Nat)
    BY <2>1
  <2>. QED  BY <1>3, <2>1, <2>2, <2>3, <2>4 DEF ReceiveChunk, Inputs
<1>4. CASE RequestFails
  BY <1>4, ChunksZero DEF RequestFails
<1>5. CASE Downloaded
  BY <1>5 DEF Downloaded
<1>6. CASE Convert
  BY <1>6 DEF Convert
<1>7. CASE ConvertFails
  BY <1>7 DEF ConvertFails
<1>8. CASE ReadAttachment
  BY <1>8 DEF ReadAttachment
<1>9. CASE ReadFails
  BY <1>9 DEF ReadFails
<1>10. CASE RemoveTemp
  BY <1>10 DEF RemoveTemp
<1>11. CASE UNCHANGED vars
  BY <1>11 DEF vars, EndsWithChunks
<1>. QED
  BY <1>1, <1>2, <1>3, <1>4, <1>5, <1>6, <1>7, <1>8, <1>9, <1>10, <1>11 DEF Next

-----------------------------------------------------------------------------
(* The temp file ends with the chunks the current attempt has received,   *)
(* and a returned attachment with the whole object, whatever failed       *)
(* requests wrote before; a request is retried only while the budget      *)
(* lasts (the invariant DownloadInv of get_content).                      *)
THEOREM DownloadInvHolds == Spec => []DownloadInv
BY InitInv, NextInv, PTL DEF Spec

(* get_content's variables keep their types.                               *)
THEOREM TypeCorrect == Spec => []TypeOK
BY DownloadInvHolds, PTL DEF DownloadInv

(* A document returned by get_content carries the base64 encoding of a    *)
(* file that ends with the whole object.                                   *)
THEOREM AttachmentEndsWithContentHolds == Spec => []AttachmentEndsWithContent
<1>1. DownloadInv => AttachmentEndsWithContent
  <2> SUFFICES ASSUME DownloadInv, pc = "returned"
               PROVE  attachment.encoded /\ IsSuffix(Content(blob.size), attachment.bytes)
    BY DEF AttachmentEndsWithContent
  <2>1. attachment.encoded /\ EndsWithChunks(attachment.bytes, blob.size)
        /\ attachment.bytes \in Seq(Nat) /\ blob.size \in Nat
    BY DEF DownloadInv, TypeOK, Inputs
  <2>. QED  BY <2>1, ChunksSuffix
<1>. QED  BY <1>1, DownloadInvHolds, PTL
=============================================================================
