--------------------------- MODULE StartupPromise ---------------------------
(***************************************************************************)
(* What the startup validation of cmd/vaps promises to the server behind   *)
(* it, without workers, channels or contexts: metadata is changed only by  *)
(* filling in ETags of payloads that agree with S3, the server starts only *)
(* when every payload agrees with S3 and has its ETag, and it is refused   *)
(* only for a reason.  StartupCheck implements this specification, and     *)
(* PayloadService takes its startup as one step because of it.             *)
(***************************************************************************)
CONSTANTS
  Hashes,   \* payload hashes
  None,     \* no record, no object, no verdict
  Unset     \* an empty checksum or ETag

VARIABLES
  meta,     \* [Hashes -> record or None]: the payloads of metadata.Store
  objects,  \* [Hashes -> object or None]: the bucket
  lister,   \* the object store can list its bucket
  fault,    \* an S3 or bbolt call has failed by itself
  ctxDone,  \* the process has been told to stop
  verdict   \* None, "accept" or "refuse"

vars == <<meta, objects, lister, fault, ctxDone, verdict>>

\* What a listing shows of a payload: it is there, has the recorded size
\* and, if an ETag is recorded, that ETag.
ListValid(h) ==
  /\ objects[h] # None
  /\ objects[h].size = meta[h].size
  /\ meta[h].etag # Unset => objects[h].etag = meta[h].etag

\* What a HeadObject shows: the checksum too, and the ETag to record.
HeadValid(h) ==
  /\ ListValid(h)
  /\ objects[h].checksum = meta[h].checksum
  /\ meta[h].etag = Unset => objects[h].etag # Unset

\* Payloads whose ETag is recorded are checked with the listing alone.
Valid(h) ==
  meta[h] # None =>
    IF lister /\ meta[h].etag # Unset THEN ListValid(h) ELSE HeadValid(h)

Init ==
  /\ fault = FALSE
  /\ ctxDone = FALSE
  /\ verdict = None

StoreETag(h) ==
  /\ verdict = None
  /\ meta[h] # None
  /\ meta[h].etag = Unset
  /\ HeadValid(h)
  /\ meta' = [meta EXCEPT ![h].etag = objects[h].etag]
  /\ UNCHANGED <<objects, lister, fault, ctxDone, verdict>>

Accept ==
  /\ verdict = None
  /\ \A h \in Hashes : meta[h] # None => Valid(h) /\ meta[h].etag # Unset
  /\ verdict' = "accept"
  /\ UNCHANGED <<meta, objects, lister, fault, ctxDone>>

\* A call that fails may be the reason at once.
Refuse ==
  /\ verdict = None
  /\ fault' \in {fault, TRUE}
  /\ \/ \E h \in Hashes : ~Valid(h)
     \/ fault'
     \/ ctxDone
  /\ verdict' = "refuse"
  /\ UNCHANGED <<meta, objects, lister, ctxDone>>

\* A call fails.
Fail ==
  /\ verdict = None
  /\ fault' = TRUE
  /\ UNCHANGED <<meta, objects, lister, ctxDone, verdict>>

\* A signal arrives.
Interrupt ==
  /\ verdict = None
  /\ ctxDone' = TRUE
  /\ UNCHANGED <<meta, objects, lister, fault, verdict>>

Next ==
  \/ \E h \in Hashes : StoreETag(h)
  \/ Accept \/ Refuse \/ Fail \/ Interrupt

Spec == Init /\ [][Next]_vars
=============================================================================
