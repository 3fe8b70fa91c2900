------------------------------- MODULE Uploads -------------------------------
(***************************************************************************)
(* File upload: the object goes to the storage first, its metadata to the  *)
(* table second, and nothing ties the two together.                        *)
(*                                                                         *)
(* The storage adapter is chosen when the application starts.  The local   *)
(* one makes the directory, writes the file and writes a second file with  *)
(* the metadata; the S3 one stores object and metadata at once and then    *)
(* signs a URL.  A request moves at every await, may fail there, and dies  *)
(* with its process; a file whose writing was cut short stays as it is.    *)
(* Making the directory changes nothing modelled.  The delete methods of   *)
(* adapter and repository, and updateUrl, have no caller.                  *)
(*                                                                         *)
(* The use case is given the user for an id, and the column uploaded_by    *)
(* holds uuids only: the INSERT that ends an upload is always rejected.    *)
(***************************************************************************)
EXTENDS Naturals, FiniteSets

CONSTANTS
  Upload,         \* requests in progress at a time
  Key,            \* storage keys; the date, a random id and the extension
  File,           \* what users upload
  Accepted,       \* the files of at most 10 MB and of an allowed type
  Uploader,       \* the ids of users, which are uuids
  MaxFailures,    \* bound: rejections and deaths
  NoFile, NoKey

ASSUME UploadAssumption ==
  /\ Accepted \subseteq File
  /\ MaxFailures \in Nat
  /\ NoFile \notin File /\ NoKey \notin Key
  /\ \A u \in Uploader : [userId |-> u] \notin Uploader

VARIABLES
  adapter,        \* "local" or "s3"
  objects,        \* key -> [file, part]: what the storage holds
  sidecars,       \* key -> what there is of the .meta.json beside the file
  metadata,       \* the table: storage key -> file
  upload,         \* request -> [pc, key, file, by]
  failures        \* history: rejections and deaths

uploadVars == <<adapter, objects, sidecars, metadata, upload, failures>>

Nothing == [file |-> NoFile, part |-> "none"]
Unused == [pc |-> "idle", key |-> NoKey, file |-> NoFile, by |-> NoKey]
UploadAt(q, pc) == upload[q].pc = pc
Proceed(q, pc) == upload' = [upload EXCEPT ![q].pc = pc]
Held(k) == \E q \in Upload : upload[q].key = k
Torn(k) == objects[k].part = "cut" \/ sidecars[k] = "cut"
Used(k) == objects[k] # Nothing \/ metadata[k] # NoFile \/ Held(k)

-----------------------------------------------------------------------------
(* Variants with a bug, to show that the properties can fail. *)

\* The key is made of the date and the name of the file.
FreshByName(k, f) == ~Held(k)

-----------------------------------------------------------------------------
(* FileController.uploadFile and UploadFileUseCase *)

\* JwtAuthGuard: no field of the user is called sub.
RequestUser(u) == [userId |-> u]

\* The decorator does not read the field it is asked for.
CurrentUser(field, user) == user

\* uuidv4 makes the key fresh.
FreshKey(k, f) == ~Used(k)

\* A file that is missing, too large or of another type is refused with 400.
UploadFile(q, k, f, u) ==
  /\ UploadAt(q, "idle")
  /\ f \in Accepted
  /\ FreshKey(k, f)
  /\ upload' = [upload EXCEPT ![q] = [pc |-> "store", key |-> k, file |-> f,
                                         by |-> CurrentUser("sub", RequestUser(u))]]
  /\ UNCHANGED <<adapter, objects, sidecars, metadata, failures>>

\* The request ends with an error, whatever it has stored stays.
Dropped(q) ==
  /\ failures < MaxFailures
  /\ failures' = failures + 1
  /\ upload' = [upload EXCEPT ![q] = Unused]

Rejects(q) ==
  /\ ~UploadAt(q, "idle")
  /\ Dropped(q)
  /\ UNCHANGED <<adapter, objects, sidecars, metadata>>

-----------------------------------------------------------------------------
(* LocalStorageAdapter.upload *)

Stored(q, part) == [objects EXCEPT ![upload[q].key] = [file |-> upload[q].file, part |-> part]]

\* writeFile creates the file, then fills it.
BeginWrite(q) ==
  /\ adapter = "local" /\ UploadAt(q, "store")
  /\ objects' = Stored(q, "cut")
  /\ Proceed(q, "writing")
  /\ UNCHANGED <<adapter, sidecars, metadata, failures>>

EndWrite(q) ==
  /\ UploadAt(q, "writing")
  /\ objects' = Stored(q, "whole")
  /\ Proceed(q, "written")
  /\ UNCHANGED <<adapter, sidecars, metadata, failures>>

\* The second writeFile, of the metadata, likewise.
BeginSidecar(q) ==
  /\ UploadAt(q, "written")
  /\ sidecars' = [sidecars EXCEPT ![upload[q].key] = "cut"]
  /\ Proceed(q, "describing")
  /\ UNCHANGED <<adapter, objects, metadata, failures>>

EndSidecar(q) ==
  /\ UploadAt(q, "describing")
  /\ sidecars' = [sidecars EXCEPT ![upload[q].key] = "whole"]
  /\ Proceed(q, "stored")
  /\ UNCHANGED <<adapter, objects, metadata, failures>>

(* S3StorageAdapter.upload, then getUrl *)

Put(q) ==
  /\ adapter = "s3" /\ UploadAt(q, "store")
  /\ objects' = Stored(q, "whole")
  /\ Proceed(q, "sign")
  /\ UNCHANGED <<adapter, sidecars, metadata, failures>>

\* The client may refuse metadata that are not strings, before it sends anything.
PutRefused(q) ==
  /\ adapter = "s3" /\ UploadAt(q, "store")
  /\ upload[q].by \notin Uploader
  /\ upload' = [upload EXCEPT ![q] = Unused]
  /\ UNCHANGED <<adapter, objects, sidecars, metadata, failures>>

\* The answer to the upload is lost: the object is stored, the request rejects.
PutUnanswered(q) ==
  /\ adapter = "s3" /\ UploadAt(q, "store")
  /\ objects' = Stored(q, "whole")
  /\ Dropped(q)
  /\ UNCHANGED <<adapter, sidecars, metadata>>

GetUrl(q) ==
  /\ UploadAt(q, "sign")
  /\ Proceed(q, "stored")
  /\ UNCHANGED <<adapter, objects, sidecars, metadata, failures>>

-----------------------------------------------------------------------------
(* FileMetadataRepository.save *)

\* uploaded_by uuid NOT NULL, and a unique storage_key.
Fits(q) == upload[q].by \in Uploader /\ metadata[upload[q].key] = NoFile

\* The INSERT: a row and the answer 201, or a rejection and the answer 500.
SaveMetadata(q) ==
  /\ UploadAt(q, "stored")
  /\ metadata' = IF Fits(q) THEN [metadata EXCEPT ![upload[q].key] = upload[q].file]
                 ELSE metadata
  /\ upload' = [upload EXCEPT ![q] = Unused]
  /\ UNCHANGED <<adapter, objects, sidecars, failures>>

-----------------------------------------------------------------------------
UploadInit ==
  /\ adapter \in {"local", "s3"}
  /\ objects = [k \in Key |-> Nothing]
  /\ sidecars = [k \in Key |-> "none"]
  /\ metadata = [k \in Key |-> NoFile]
  /\ upload = [q \in Upload |-> Unused]
  /\ failures = 0

UploadStep ==
  \/ \E q \in Upload, k \in Key, f \in File, u \in Uploader : UploadFile(q, k, f, u)
  \/ \E q \in Upload :
       \/ Rejects(q)
       \/ BeginWrite(q) \/ EndWrite(q) \/ BeginSidecar(q) \/ EndSidecar(q)
       \/ Put(q) \/ PutRefused(q) \/ PutUnanswered(q) \/ GetUrl(q)
       \/ SaveMetadata(q)

UploadSpec == UploadInit /\ [][UploadStep]_uploadVars

-----------------------------------------------------------------------------
(* Properties *)

UploadTypeOK ==
  /\ adapter \in {"local", "s3"}
  /\ objects \in [Key -> [file : File, part : {"cut", "whole"}] \union {Nothing}]
  /\ sidecars \in [Key -> {"none", "cut", "whole"}]
  /\ metadata \in [Key -> File \union {NoFile}]
  /\ upload \in [Upload -> [pc : {"idle", "store", "writing", "written", "describing", "sign", "stored"},
                            key : Key \union {NoKey}, file : File \union {NoFile},
                            by : [userId : Uploader] \union {NoKey}]]
  /\ failures \in 0..MaxFailures

\* Once written, an object and its sidecar are never written again, by whatever later
\* upload; a sidecar, whole or cut, stands only beside an object that is whole; and a
\* failure leaves at most one file cut, its own: an upload that ends without one leaves
\* none.
StoredObjectsStayWhole ==
  [][/\ \A k \in Key : objects[k].part = "whole" => objects'[k] = objects[k]
     /\ \A k \in Key : sidecars[k] = "whole" => sidecars'[k] = "whole"
     /\ \A k \in Key : sidecars'[k] # "none" => objects'[k].part = "whole"
     /\ Cardinality({k \in Key : Torn(k)' /\ \A q \in Upload : upload'[q].key # k})
          <= failures']_uploadVars

\* "File uploaded successfully" (file.controller.ts:57): an accepted upload that meets
\* no failure ends with the row that describes its file.
UploadsSucceed ==
  [][\A q \in Upload : ~UploadAt(q, "idle") /\ UploadAt(q, "idle")' /\ failures' = failures
       => metadata'[upload[q].key] = upload[q].file]_uploadVars

=============================================================================
