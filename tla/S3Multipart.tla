---------------------------- MODULE S3Multipart ----------------------------
(***************************************************************************)
(* Uploads of the S3 client (s3/src): the multipart handle, the file       *)
(* upload with a resume checkpoint (s3_put_object_multipart_file) and the  *)
(* single-request file upload (s3_put_object_file).  The source file may   *)
(* change, every request may fail before or after the service applied it,  *)
(* every file operation may fail, and the process may crash at any step;   *)
(* the service, the source file and the checkpoint survive.  A part's ETag *)
(* stands for its content: the file version it was read from, its number   *)
(* and its size.                                                           *)
(***************************************************************************)
EXTENDS Integers, Sequences, FiniteSets, FiniteSetsExt

CONSTANTS S3Capacity, \* max_multipart_parts
          MinPart,    \* S3_MULTIPART_MIN_PART_BYTES
          FileSizes,  \* the size of each version of the source file
          S3Options,  \* calls made: [mode, resume, preserve, part, key]
          MaxCalls,   \* bound on the calls
          MaxFaults   \* bound on failures and crashes

VARIABLES version,    \* the source file's version: its size, mtime and ctime
          checkpoint, \* the resume document on disk
          service,    \* the S3 service: its uploads and the object
          up,         \* the call in progress and its s3_multipart_impl
          made,       \* calls made so far
          faults,     \* failures so far
          orphans     \* uploads nobody can name any more, and were reported

s3Vars == <<version, checkpoint, service, up, made, faults, orphans>>

NoTag == [version |-> 0, number |-> 0, size |-> 0]
Numbers == 1..S3Capacity
NoParts == [n \in Numbers |-> NoTag]
NoCheckpoint == [id |-> 0, version |-> 0, part |-> 0, key |-> "none", parts |-> NoParts]
NoHandle == [pc |-> "idle", opts |-> CHOOSE o \in S3Options : TRUE, stat |-> 0, state |-> "none", id |-> 0,
             parts |-> NoParts, index |-> 1, data |-> NoTag, available |-> FALSE, status |-> "OK"]

S3Init ==
  /\ version = 1 /\ checkpoint = NoCheckpoint /\ up = NoHandle /\ made = 0 /\ faults = 0 /\ orphans = {}
  /\ service = [uploads |-> [i \in 1..MaxCalls |-> [state |-> "none", parts |-> NoParts, key |-> "none"]], object |-> <<>>]

-----------------------------------------------------------------------------
(* The service and the requests (external), and the failures *)

Spend(n) == faults + n <= MaxFaults /\ faults' = faults + n

\* s3_request: a request that is refused, answered, or applied and its answer
\* lost or unreadable; ok is what its caller is told
Exchange(applies, effect, ok) ==
  \/ ok = applies /\ Spend(0) /\ service' = IF applies THEN effect ELSE service
  \/ ~ok /\ Spend(1) /\ service' = service
  \/ ~ok /\ applies /\ Spend(1) /\ service' = effect

\* a file operation that works or fails
Attempt(ok) == Spend(IF ok THEN 0 ELSE 1)

Live(id) == id # 0 /\ service.uploads[id].state = "live"
EndUpload(id, how) == [service EXCEPT !.uploads[id].state = how]

-----------------------------------------------------------------------------
(* The multipart handle *)

\* s3_multipart_initiate
FreshId == Min({i \in 1..MaxCalls : service.uploads[i].state = "none"})
Initiated(u, id) == [u EXCEPT !.state = "ACTIVE", !.id = id, !.parts = NoParts]

\* s3_multipart_upload_part: the part is recorded once its ETag is known
PartRecorded(u, n, tag) == [u EXCEPT !.parts[n] = tag]
PartAccepted(u) == Live(u.id) /\ service.uploads[u.id].key = u.opts.key
WithPart(u, n, tag) == [service EXCEPT !.uploads[u.id].parts[n] = tag]

HeldParts(parts) == {n \in Numbers : parts[n] # NoTag}

\* s3_multipart_validate_completion
Completable(parts) ==
  /\ HeldParts(parts) # {} /\ Max(HeldParts(parts)) = Cardinality(HeldParts(parts))
  /\ \A n \in Numbers : n < Max(HeldParts(parts)) => parts[n] # NoTag /\ parts[n].size >= MinPart

\* s3_multipart_completion_xml: the parts in ascending order
Listed(parts) == [n \in 1..Cardinality(HeldParts(parts)) |-> parts[n]]

\* the service accepts a completion whose ETags are the ones it holds
CompletionAccepted(u) == Live(u.id) /\ \A n \in HeldParts(u.parts) : service.uploads[u.id].parts[n] = u.parts[n]
WithObject(u) == [EndUpload(u.id, "completed") EXCEPT !.object = Listed(u.parts)]

-----------------------------------------------------------------------------
(* s3_put_object_multipart_file *)

\* the parts of a file and the size of the nth
Count(size, part) == (size \div part) + (IF size % part # 0 THEN 1 ELSE 0)
PartSize(size, part, n) == IF size - (n - 1) * part < part THEN size - (n - 1) * part ELSE part
Content(v, part, n) == [version |-> v, number |-> n, size |-> PartSize(FileSizes[v], part, n)]

S3Return(u, status) == [u EXCEPT !.pc = "idle", !.status = status, !.state = "none", !.id = 0]
Failed(u) == [u EXCEPT !.pc = "failed"]
S3Proceed(u, ok, pc) == IF ok THEN [u EXCEPT !.pc = pc] ELSE Failed(u)

\* the options, the stat of the source and the part count
BeginFile(o) ==
  /\ up.pc = "idle" /\ made < MaxCalls /\ made' = made + 1 /\ o.mode = "multipart"
  /\ LET u == [NoHandle EXCEPT !.opts = o, !.stat = version] IN
     up' = IF o.part < MinPart \/ FileSizes[version] = 0 THEN S3Return(u, "EINVAL")
           ELSE IF Count(FileSizes[version], o.part) > S3Capacity THEN S3Return(u, "ENOBUFS")
           ELSE [u EXCEPT !.pc = IF o.resume THEN "load" ELSE "probe"]
  /\ UNCHANGED <<version, checkpoint, service, faults, orphans>>

\* s3_multipart_checkpoint_identity: everything the document is bound to
Identity(u) == checkpoint.version = u.stat /\ checkpoint.part = u.opts.part /\ checkpoint.key = u.opts.key

\* s3_multipart_file_state_validate
StateValid(u, parts) ==
  \A n \in HeldParts(parts) : n <= Count(FileSizes[u.stat], u.opts.part) /\ parts[n].size = PartSize(FileSizes[u.stat], u.opts.part, n)

\* s3_multipart_checkpoint_load and the check of its parts
Load ==
  /\ up.pc = "load"
  /\ \E ok \in BOOLEAN :
        /\ Attempt(ok)
        /\ up' = IF ~ok \/ checkpoint = NoCheckpoint \/ ~Identity(up) THEN Failed(up)
                 ELSE LET u == [up EXCEPT !.state = "ACTIVE", !.id = checkpoint.id, !.parts = checkpoint.parts, !.available = TRUE]
                      IN  S3Proceed(u, StateValid(u, u.parts), "part")
  /\ UNCHANGED <<version, checkpoint, service, made, orphans>>

\* an existing checkpoint is never replaced by a new upload
Probe ==
  /\ up.pc = "probe"
  /\ \E ok \in BOOLEAN : Attempt(ok) /\ up' = S3Proceed(up, ok /\ checkpoint = NoCheckpoint, "initiate")
  /\ UNCHANGED <<version, checkpoint, service, made, orphans>>

InitiateFile ==
  /\ up.pc = "initiate"
  /\ LET id == FreshId
         created == [service EXCEPT !.uploads[id] = [state |-> "live", parts |-> NoParts, key |-> up.opts.key]]
     IN  /\ \E ok \in BOOLEAN :
               /\ Exchange(TRUE, created, ok)
               /\ up' = IF ok THEN [Initiated(up, id) EXCEPT !.pc = "store"] ELSE Failed(up)
         /\ orphans' = IF service' = created /\ up'.id = 0 THEN orphans \cup {id} ELSE orphans
  /\ UNCHANGED <<version, checkpoint, made>>

\* s3_multipart_checkpoint_store: temporary file, fsync and rename
Document(u) == [id |-> u.id, version |-> u.stat, part |-> u.opts.part, key |-> u.opts.key, parts |-> u.parts]
Stored(u) == [S3Proceed(u, StateValid(u, u.parts), "part") EXCEPT !.available = TRUE]
Store ==
  /\ up.pc = "store"
  /\ \E ok \in BOOLEAN :
        /\ Attempt(ok)
        /\ up' = IF ok THEN Stored(up) ELSE Failed(up)
        /\ checkpoint' = IF ok THEN Document(up) ELSE checkpoint
  /\ UNCHANGED <<version, service, made, orphans>>

\* A fault: the source is not compared after the last part.
NextPartUnchecked ==
  /\ up.pc = "part"
  /\ IF up.index > Count(FileSizes[up.stat], up.opts.part)
     THEN \E ok \in BOOLEAN : Attempt(ok) /\ up' = S3Proceed(up, ok, "complete")
     ELSE IF up.parts[up.index] # NoTag THEN up' = [up EXCEPT !.index = @ + 1] /\ UNCHANGED faults
     ELSE \E ok \in BOOLEAN :
             /\ Attempt(ok)
             /\ LET size == PartSize(FileSizes[up.stat], up.opts.part, up.index)
                IN  up' = IF ~ok \/ (up.index - 1) * up.opts.part + size > FileSizes[version] THEN Failed(up)
                          ELSE [up EXCEPT !.pc = "upload", !.data = [version |-> version, number |-> up.index, size |-> size]]
  /\ UNCHANGED <<version, checkpoint, service, made, orphans>>

\* the loop: a part the document names is skipped, another one is read;
\* after the last one the source is compared with its first stat
NextPart ==
  /\ up.pc = "part"
  /\ IF up.index > Count(FileSizes[up.stat], up.opts.part)
     THEN \E ok \in BOOLEAN : Attempt(ok) /\ up' = S3Proceed(up, ok /\ version = up.stat, "complete")
     ELSE IF up.parts[up.index] # NoTag THEN up' = [up EXCEPT !.index = @ + 1] /\ UNCHANGED faults
     ELSE \E ok \in BOOLEAN :
             /\ Attempt(ok)
             /\ LET size == PartSize(FileSizes[up.stat], up.opts.part, up.index)
                IN  up' = IF ~ok \/ (up.index - 1) * up.opts.part + size > FileSizes[version] THEN Failed(up)
                          ELSE [up EXCEPT !.pc = "upload", !.data = [version |-> version, number |-> up.index, size |-> size]]
  /\ UNCHANGED <<version, checkpoint, service, made, orphans>>

UploadPart ==
  /\ up.pc = "upload"
  /\ \E ok \in BOOLEAN :
        /\ Exchange(PartAccepted(up), WithPart(up, up.index, up.data), ok)
        /\ up' = IF ok THEN [PartRecorded(up, up.index, up.data) EXCEPT !.pc = "store"] ELSE Failed(up)
  /\ UNCHANGED <<version, checkpoint, made, orphans>>

\* s3_multipart_complete; a failure leaves the handle active
CompleteFile ==
  /\ up.pc = "complete"
  /\ IF Completable(up.parts)
     THEN \E ok \in BOOLEAN :
             /\ Exchange(CompletionAccepted(up), WithObject(up), ok)
             /\ up' = IF ok THEN [up EXCEPT !.state = "COMPLETED", !.pc = "remove"] ELSE Failed(up)
     ELSE up' = Failed(up) /\ UNCHANGED <<service, faults>>
  /\ UNCHANGED <<version, checkpoint, made, orphans>>

\* the checkpoint goes once the service confirmed
RemoveCheckpoint ==
  /\ up.pc = "remove"
  /\ \E ok \in BOOLEAN :
        /\ Attempt(ok)
        /\ checkpoint' = IF ok THEN NoCheckpoint ELSE checkpoint
        /\ up' = S3Return(up, IF ok THEN "OK" ELSE "REMOVE")
  /\ UNCHANGED <<version, service, made, orphans>>

\* A fault: an upload without a checkpoint is kept too.
PreservedUnnamed(u) == u.opts.preserve

\* s3_multipart_file_failure: keep the upload for a resume, or abort it
Preserved(u) == u.opts.preserve /\ u.available
FileFailure ==
  /\ up.pc = "failed"
  /\ IF up.id = 0 THEN up' = S3Return(up, "EIO") /\ UNCHANGED <<checkpoint, service, faults, orphans>>
     ELSE IF Preserved(up) THEN up' = S3Return(up, "PRESERVED") /\ UNCHANGED <<checkpoint, service, faults, orphans>>
     ELSE /\ \E ok \in BOOLEAN :
                /\ Exchange(Live(up.id), EndUpload(up.id, "aborted"), ok)
                /\ up' = IF ok THEN [up EXCEPT !.state = "ABORTED", !.pc = "unlink"] ELSE S3Return(up, "ABORT")
                /\ orphans' = IF ok \/ checkpoint.id = up.id THEN orphans ELSE orphans \cup {up.id}
          /\ UNCHANGED checkpoint
  /\ UNCHANGED <<version, made>>
UnlinkAborted ==
  /\ up.pc = "unlink"
  /\ \E ok \in BOOLEAN :
        /\ Attempt(ok)
        /\ checkpoint' = (IF ok THEN NoCheckpoint ELSE checkpoint) /\ up' = S3Return(up, "EIO")
  /\ UNCHANGED <<version, service, made, orphans>>

-----------------------------------------------------------------------------
(* The handle in a caller's hands: parts in any order, replaced at will *)

BeginManual(o) ==
  /\ up.pc = "idle" /\ made < MaxCalls /\ made' = made + 1 /\ o.mode = "manual"
  /\ LET id == FreshId
         created == [service EXCEPT !.uploads[id] = [state |-> "live", parts |-> NoParts, key |-> o.key]]
         u == [NoHandle EXCEPT !.opts = o, !.stat = version]
     IN  /\ \E ok \in BOOLEAN :
               /\ Exchange(TRUE, created, ok)
               /\ up' = IF ok THEN [Initiated(u, id) EXCEPT !.pc = "manual"] ELSE S3Return(u, "EIO")
         /\ orphans' = IF service' = created /\ up'.id = 0 THEN orphans \cup {id} ELSE orphans
  /\ UNCHANGED <<version, checkpoint>>
PutPart ==
  /\ up.pc = "manual" /\ up.state = "ACTIVE"
  /\ \E n \in Numbers, size \in {MinPart - 1, MinPart} :
       LET tag == [version |-> version, number |-> n, size |-> size]
       IN  \E ok \in BOOLEAN :
              /\ Exchange(PartAccepted(up), WithPart(up, n, tag), ok)
              /\ up' = IF ok THEN PartRecorded(up, n, tag) ELSE up
  /\ UNCHANGED <<version, checkpoint, made, orphans>>
CompleteManual ==
  /\ up.pc = "manual" /\ up.state = "ACTIVE" /\ Completable(up.parts)
  /\ \E ok \in BOOLEAN :
        /\ Exchange(CompletionAccepted(up), WithObject(up), ok)
        /\ up' = IF ok THEN [up EXCEPT !.state = "COMPLETED"] ELSE up
  /\ UNCHANGED <<version, checkpoint, made, orphans>>
AbortManual ==
  /\ up.pc = "manual" /\ up.state = "ACTIVE"
  /\ \E ok \in BOOLEAN :
        /\ Exchange(Live(up.id), EndUpload(up.id, "aborted"), ok)
        /\ up' = IF ok THEN [up EXCEPT !.state = "ABORTED"] ELSE up
  /\ UNCHANGED <<version, checkpoint, made, orphans>>
\* s3_multipart_detach: the caller keeps the upload's id
Detach ==
  /\ up.pc = "manual" /\ up.state = "ACTIVE"
  /\ up' = [up EXCEPT !.state = "DETACHED"] /\ orphans' = orphans \cup {up.id}
  /\ UNCHANGED <<version, checkpoint, service, made, faults>>
\* s3_multipart_destroy: an active handle is not released
DestroyHandle ==
  /\ up.pc = "manual" /\ up.state # "ACTIVE"
  /\ up' = S3Return(up, "OK")
  /\ UNCHANGED <<version, checkpoint, service, made, faults, orphans>>

-----------------------------------------------------------------------------
(* s3_put_object_file *)

\* s3_file_sha256: the stat, the hash of what is read, and the stat again
BeginPut(o) ==
  /\ up.pc = "idle" /\ made < MaxCalls /\ made' = made + 1 /\ o.mode = "put"
  /\ up' = [NoHandle EXCEPT !.opts = o, !.stat = version, !.pc = "hash"]
  /\ UNCHANGED <<version, checkpoint, service, faults, orphans>>
HashFile ==
  /\ up.pc = "hash"
  /\ \E ok \in BOOLEAN :
        /\ Attempt(ok)
        /\ up' = IF ok THEN [up EXCEPT !.pc = "restat", !.data = [version |-> version, number |-> 1, size |-> FileSizes[version]]]
                 ELSE S3Return(up, "EIO")
  /\ UNCHANGED <<version, checkpoint, service, made, orphans>>
RestatFile ==
  /\ up.pc = "restat"
  /\ \E ok \in BOOLEAN :
        /\ Attempt(ok)
        /\ up' = IF ok /\ version = up.stat THEN [up EXCEPT !.pc = "put"] ELSE S3Return(up, IF ok THEN "EBUSY" ELSE "EIO")
  /\ UNCHANGED <<version, checkpoint, service, made, orphans>>
\* s3_request_put_file reads the file again; the service checks the hash
PutFile ==
  /\ up.pc = "put"
  /\ \E ok \in BOOLEAN :
        /\ Exchange(version = up.data.version, [service EXCEPT !.object = <<up.data>>], ok)
        /\ up' = S3Return(up, IF ok THEN "OK" ELSE "EIO")
  /\ UNCHANGED <<version, checkpoint, made, orphans>>

-----------------------------------------------------------------------------
(* The world around a call *)

ChangeFile ==
  /\ version < Len(FileSizes) /\ version' = version + 1
  /\ UNCHANGED <<checkpoint, service, up, made, faults, orphans>>
\* the process ends at any step; an upload no checkpoint names is lost with it
Crash ==
  /\ up.pc # "idle" /\ Spend(1) /\ up' = S3Return(up, "CRASH")
  /\ orphans' = IF up.id # 0 /\ checkpoint.id # up.id THEN orphans \cup {up.id} ELSE orphans
  /\ UNCHANGED <<version, checkpoint, service, made>>
\* the caller removes a stale checkpoint, as the function's contract asks
RemoveStale ==
  /\ up.pc = "idle" /\ checkpoint # NoCheckpoint /\ ~Live(checkpoint.id) /\ checkpoint' = NoCheckpoint
  /\ UNCHANGED <<version, service, up, made, faults, orphans>>

S3Next ==
  \/ \E o \in S3Options : BeginFile(o) \/ BeginManual(o) \/ BeginPut(o)
  \/ Load \/ Probe \/ InitiateFile \/ Store \/ NextPart \/ UploadPart \/ CompleteFile \/ RemoveCheckpoint
  \/ FileFailure \/ UnlinkAborted \/ PutPart \/ CompleteManual \/ AbortManual \/ Detach \/ DestroyHandle
  \/ HashFile \/ RestatFile \/ PutFile \/ ChangeFile \/ Crash \/ RemoveStale

S3Spec == S3Init /\ [][S3Next]_s3Vars

-----------------------------------------------------------------------------
(* Properties *)

\* An upload that commits an object commits the file whole: every part in
\* order and of the right size, all read from one version of the source, over
\* every crash, resume, changed source, lost answer and replaced part; a manual
\* upload commits the parts its handle recorded, none too small but the last
\* (s3_put_object_multipart_file, s3_multipart_complete, s3_put_object_file).
CommitsWhole ==
  [][service'.object # service.object =>
       LET object == service'.object IN
       CASE up.opts.mode = "multipart" -> /\ Len(object) = Count(FileSizes[up.stat], up.opts.part)
                                          /\ \A n \in 1..Len(object) : object[n] = Content(up.stat, up.opts.part, n)
         [] up.opts.mode = "manual" -> \A n \in 1..Len(object) :
                                          object[n] = service.uploads[up.id].parts[n] /\ (n < Len(object) => object[n].size >= MinPart)
         [] up.opts.mode = "put" -> object = <<[version |-> up.stat, number |-> 1, size |-> FileSizes[up.stat]]>>]_s3Vars

\* No upload is left on the service unnoticed: a live one is being worked on,
\* is named by the checkpoint, or its loss was reported (the answer to its
\* initiation was lost, its abort failed, the process crashed, the caller
\* detached it); a call that keeps its upload for a resume leaves a checkpoint
\* that names it (s3_multipart_file_failure), and the live upload a checkpoint
\* names holds every part it lists, so a resume never skips a part that is
\* missing (s3_multipart_checkpoint_store after s3_multipart_upload_part).  The
\* checkpoint is given up only when its upload is over at the service.
UploadsAccounted ==
  /\ [](\A id \in 1..MaxCalls : Live(id) => up.id = id \/ checkpoint.id = id \/ id \in orphans)
  /\ [](up.pc = "failed" /\ Preserved(up) => checkpoint.id = up.id)
  /\ [](Live(checkpoint.id) => \A n \in HeldParts(checkpoint.parts) : service.uploads[checkpoint.id].parts[n] = checkpoint.parts[n])
  /\ [][checkpoint # NoCheckpoint /\ checkpoint'.id # checkpoint.id => ~Live(checkpoint.id)]_s3Vars
=============================================================================
