------------------------------- MODULE Images -------------------------------
(***************************************************************************)
(* The files of listings, categories, tiles, cities and users in the       *)
(* bucket, and the columns and rows that hold their addresses              *)
(* (libs/storage and the controllers that upload).  A picture has one key  *)
(* for its owner's life, so that an upload replaces it; every further file *)
(* of a listing has a key of its own, made of the time of its upload.      *)
(* The import and the users write such columns as well, with addresses of  *)
(* their own, and leave the files alone.                                   *)
(*                                                                         *)
(* A handler deletes a file, stores one and writes its row in separate     *)
(* steps.  A URL is the list of the segments of its path, a key the list of*)
(* its own segments; file extensions are left out, they never change.      *)
(***************************************************************************)
EXTENDS Naturals, Sequences

CONSTANTS
  Owner,          \* what pictures belong to
  MediaId,        \* ids of rows of listing_media
  Call,           \* requests that may be under way at once
  Size,           \* sizes of files in MB
  MaxFiles,       \* files in one request; 10 in the code
  MaxTime,        \* bound on the clock
  Bucket,
  VirtualHosted,  \* is the bucket's name in the host of a public URL?
  None

VARIABLES
  folder,  \* what kind of thing an owner is; never changes
  gone,    \* owners whose row has been deleted
  url,     \* the columns heroImageUrl, imageUrl, iconUrl, ...
  media,   \* table listing_media: the URL of a row
  files,   \* keys in the bucket
  now,     \* Date.now()
  job,     \* what each request is doing
  spoilt   \* history: keys whose row or file an error, an overlap with a removal,
           \* the import or a user's own address has touched

imageVars == <<folder, gone, url, media, files, now, job, spoilt>>

Folder    == {"listings", "categories", "tiles", "cities", "users"}
Pictures  == [listings |-> {"hero"}, categories |-> {"image", "icon"},
              tiles |-> {"background", "icon"}, cities |-> {"header"},
              users |-> {"profile-photo"}]
MediaType == {"IMAGE", "VIDEO", "DOCUMENT", "AUDIO"}

\* The keys of an owner's pictures, and of further files of a listing.
Key(o, name)        == <<folder[o], o, name>>
PictureKeys(o)      == {Key(o, name) : name \in Pictures[folder[o]]}
MediaKey(o, time, i) == <<"listings", o, "media", time, i>>

AllKeys == UNION {{<<f, o, n>> : o \in Owner, n \in Pictures[f]} : f \in Folder}
AllMediaKeys == {MediaKey(o, time, i) : o \in Owner, time \in 0..MaxTime, i \in 0..(MaxFiles - 1)}

PublicUrl(key)  == IF VirtualHosted THEN key ELSE <<Bucket>> \o key
\* Mutant: the path as it is.
ExtractKeyWhole(u) == u
\* The key a URL is taken for: its path without the first segment, which is
\* taken for the bucket.
ExtractKey(u)   == Tail(u)

Urls == {PublicUrl(k) : k \in AllKeys \cup AllMediaKeys}

\* An address elsewhere; what it is taken for is no key of the bucket.
Elsewhere == <<"elsewhere", "picture">>
Address   == Urls \cup {Elsewhere}

ImagesAssumption ==
  /\ Size \subseteq Nat /\ MaxFiles \in Nat /\ MaxTime \in Nat
  /\ VirtualHosted \in BOOLEAN
  /\ None \notin AllKeys \cup AllMediaKeys \cup Address

\* What the upload service looks at: the type found in the bytes, the size,
\* and whether the name ends like an image's.
File    == [type : MediaType \cup {"OTHER"}, size : Size, imageName : BOOLEAN]
MaxSize == [IMAGE |-> 5, VIDEO |-> 50, DOCUMENT |-> 10, AUDIO |-> 50]
ValidFile(file, type) ==
  /\ file.size =< MaxSize[type]
  /\ file.type = type
  /\ type = "IMAGE" => file.imageName
\* uploadMedia detects the type first and then validates for it.
ValidMedia(file) == file.type # "OTHER" /\ ValidFile(file, file.type)

Idle == [op |-> "idle"]
Job  ==
  {Idle}
  \cup [op : {"upload", "remove"}, key : AllKeys, old : Address \cup {None},
        at : {"old", "put", "write"}, alone : BOOLEAN]
  \cup [op : {"delete"}, owner : Owner, left : SUBSET Urls]
  \cup [op : {"media"}, owner : Owner, i : 0..MaxFiles, key : AllMediaKeys \cup {None}]
  \cup [op : {"unmedia"}, id : MediaId, old : Urls, at : {"old", "write"}]

TypeOK ==
  /\ folder \in [Owner -> Folder] /\ gone \in SUBSET Owner
  /\ url \in [AllKeys -> Address \cup {None}]
  /\ media \in [MediaId -> Urls \cup {None}]
  /\ files \in SUBSET (AllKeys \cup AllMediaKeys)
  /\ now \in 0..MaxTime
  /\ job \in [Call -> Job]
  /\ spoilt \in SUBSET (AllKeys \cup AllMediaKeys)

Init ==
  /\ folder \in [Owner -> Folder] /\ gone = {}
  /\ url = [k \in AllKeys |-> None] /\ media = [id \in MediaId |-> None]
  /\ files = {} /\ now = 0
  /\ job = [c \in Call |-> Idle] /\ spoilt = {}

\* The keys a request is about, and those whose URL it read.
KeysOf(j) ==
  CASE j.op = "idle" -> {}
    [] j.op \in {"upload", "remove"} -> {j.key}
    [] j.op = "delete" -> PictureKeys(j.owner)
    [] j.op = "media" -> {j.key} \ {None}
    [] j.op = "unmedia" -> {k \in AllMediaKeys : PublicUrl(k) = j.old}
OnKey(k) == {c \in Call : k \in KeysOf(job[c])}

Stores(j) == j.op \in {"upload", "media"}

\* A request starts: requests for the same picture lose their privacy, and
\* an upload beside a removal spoils it.
Start(c, j) ==
  /\ job[c] = Idle
  /\ LET shared == {k \in KeysOf(j) : OnKey(k) # {}}
     IN  /\ job' = [d \in Call |->
                      IF d = c
                      THEN IF j.op \in {"upload", "remove"}
                           THEN [j EXCEPT !.alone = shared = {}] ELSE j
                      ELSE IF job[d].op \in {"upload", "remove"} /\ job[d].key \in KeysOf(j)
                           THEN [job[d] EXCEPT !.alone = FALSE] ELSE job[d]]
         /\ spoilt' = spoilt \cup
              {k \in shared : \E d \in OnKey(k) : Stores(job[d]) # Stores(j)}
  /\ UNCHANGED <<folder, gone, url, media, files, now>>

\* The handler of an upload has found the row and checked and converted the
\* file.  replaces: it deletes the file of the URL it has read.
StartUpload(c, o, name, replaces) ==
  /\ o \notin gone /\ name \in Pictures[folder[o]]
  /\ \E file \in File : ValidFile(file, "IMAGE")
  /\ LET k   == Key(o, name)
         old == IF replaces THEN url[k] ELSE None
     IN  Start(c, [op |-> "upload", key |-> k, old |-> old, alone |-> TRUE,
                   at |-> IF old = None THEN "put" ELSE "old"])

UploadHeroImage(c, o)       == folder[o] = "listings" /\ StartUpload(c, o, "hero", TRUE)
UploadImage(c, o)           == folder[o] = "categories" /\ StartUpload(c, o, "image", TRUE)
UploadIcon(c, o)            == folder[o] = "categories" /\ StartUpload(c, o, "icon", TRUE)
UploadBackgroundImage(c, o) == folder[o] = "tiles" /\ StartUpload(c, o, "background", TRUE)
UploadIconImage(c, o)       == folder[o] = "tiles" /\ StartUpload(c, o, "icon", TRUE)
UploadHeaderImage(c, o)     == folder[o] = "cities" /\ StartUpload(c, o, "header", TRUE)
UploadProfilePhoto(c, o)    == folder[o] = "users" /\ StartUpload(c, o, "profile-photo", FALSE)

\* A removal of one picture; without a URL the handler does nothing.
StartRemoval(c, o, name) ==
  /\ o \notin gone /\ url[Key(o, name)] # None
  /\ Start(c, [op |-> "remove", key |-> Key(o, name), old |-> url[Key(o, name)],
               at |-> "old", alone |-> TRUE])

DeleteImage(c, o)       == folder[o] = "categories" /\ StartRemoval(c, o, "image")
DeleteIcon(c, o)        == folder[o] = "categories" /\ StartRemoval(c, o, "icon")
DeleteHeaderImage(c, o) == folder[o] = "cities" /\ StartRemoval(c, o, "header")

\* Categories and tiles are deleted with their files.
StartDelete(c, o) ==
  /\ o \notin gone
  /\ Start(c, [op |-> "delete", owner |-> o,
               left |-> {url[k] : k \in PictureKeys(o)} \ {None}])

DeleteCategory(c, o) == folder[o] = "categories" /\ StartDelete(c, o)
DeleteTile(c, o)     == folder[o] = "tiles" /\ StartDelete(c, o)

\* deleteFile: the object store deletes the key or refuses; whoever calls
\* swallows the error.
DeleteFile(u, key) ==
  \/ files' = files \ {ExtractKey(u)} /\ UNCHANGED spoilt
  \/ UNCHANGED files /\ spoilt' = spoilt \cup key

\* A failing deletion matters only where no upload overwrites the file.
RemoveOld(c) ==
  /\ job[c].op \in {"upload", "remove", "unmedia"} /\ job[c].at = "old"
  /\ DeleteFile(job[c].old, IF job[c].op = "upload" THEN {} ELSE KeysOf(job[c]))
  /\ job' = [job EXCEPT ![c].at = IF job[c].op = "upload" THEN "put" ELSE "write"]
  /\ UNCHANGED <<folder, gone, url, media, now>>

DeleteFileOf(c) ==
  /\ job[c].op = "delete"
  /\ \E u \in job[c].left :
       /\ DeleteFile(u, {k \in KeysOf(job[c]) : url[k] = u})
       /\ job' = [job EXCEPT ![c].left = @ \ {u}]
  /\ UNCHANGED <<folder, gone, url, media, now>>

DeleteRow(c) ==
  /\ job[c].op = "delete" /\ job[c].left = {}
  /\ gone' = gone \cup {job[c].owner}
  /\ url' = [k \in AllKeys |-> IF k \in PictureKeys(job[c].owner) THEN None ELSE url[k]]
  /\ job' = [job EXCEPT ![c] = Idle]
  /\ UNCHANGED <<folder, media, files, now, spoilt>>

\* uploadFile of the storage: the bucket has the file under its key, whatever
\* was there before.
Upload(key) == files' = files \cup {key}

\* The file is stored, or the request ends with an error.
PutFile(c) ==
  /\ job[c].op = "upload" /\ job[c].at = "put"
  /\ \/ /\ Upload(job[c].key)
        /\ job' = [job EXCEPT ![c].at = "write"]
        /\ UNCHANGED spoilt
     \/ /\ job' = [job EXCEPT ![c] = Idle]
        /\ spoilt' = spoilt \cup {job[c].key}
        /\ UNCHANGED files
  /\ UNCHANGED <<folder, gone, url, media, now>>

\* The row's column is written, if the row is still there.  An upload that
\* nobody disturbed has put right what was spoilt before.
WriteUrl(c) ==
  /\ job[c].op \in {"upload", "remove"} /\ job[c].at = "write"
  /\ LET k == job[c].key
         there == k[2] \notin gone
     IN  /\ url' = IF there THEN [url EXCEPT ![k] =
                                   IF job[c].op = "upload" THEN PublicUrl(k) ELSE None]
                            ELSE url
         /\ spoilt' = IF there /\ job[c].op = "upload" /\ job[c].alone
                      THEN spoilt \ {k} ELSE spoilt
  /\ job' = [job EXCEPT ![c] = Idle]
  /\ UNCHANGED <<folder, gone, media, files, now>>

\* The row's column gets an address that came with the data.
Overwrite(k, address) ==
  /\ k[2] \notin gone
  /\ url' = [url EXCEPT ![k] = address]
  /\ spoilt' = spoilt \cup {k}
  /\ UNCHANGED <<folder, gone, media, files, now, job>>

\* The import names the picture at its provider, and the file an admin has
\* uploaded for the listing is left without a row.
SyncHeroImage(o) == folder[o] = "listings" /\ Overwrite(Key(o, "hero"), Elsewhere)

\* PATCH of a user's profile: any string is an address, one of the bucket too.
UpdateProfile(o) ==
  /\ folder[o] = "users"
  /\ \E address \in Address \cup {None} : Overwrite(Key(o, "profile-photo"), address)

\* POST /listings/:id/media
UploadMedia(c, o) ==
  /\ folder[o] = "listings"
  /\ Start(c, [op |-> "media", owner |-> o, i |-> 0, key |-> None])

\* The next file of the request is stored under a key made of the time and
\* its place; a file that is not valid or not stored ends the request.
PutMedia(c) ==
  /\ job[c].op = "media" /\ job[c].key = None /\ job[c].i < MaxFiles
  /\ LET k == MediaKey(job[c].owner, now, job[c].i)
     IN  \/ /\ \E file \in File : ValidMedia(file)
            /\ Upload(k)
            /\ job' = [job EXCEPT ![c].key = k]
            /\ spoilt' = IF k \in files \/ OnKey(k) # {} THEN spoilt \cup {k} ELSE spoilt
         \/ /\ job' = [job EXCEPT ![c] = Idle]
            /\ UNCHANGED <<files, spoilt>>
  /\ UNCHANGED <<folder, gone, url, media, now>>

FreshId(id) ==
  media[id] = None /\ \A c \in Call : job[c].op = "unmedia" => job[c].id # id

\* createListingMedia, and on to the next file or to the answer.
CreateListingMedia(c) ==
  /\ job[c].op = "media" /\ job[c].key # None
  /\ \E id \in MediaId :
       FreshId(id) /\ media' = [media EXCEPT ![id] = PublicUrl(job[c].key)]
  /\ \/ job' = [job EXCEPT ![c].key = None, ![c].i = @ + 1]
     \/ job' = [job EXCEPT ![c] = Idle]
  /\ UNCHANGED <<folder, gone, url, files, now, spoilt>>

MediaAnswered(c) ==
  /\ job[c].op = "media" /\ job[c].key = None /\ job[c].i = MaxFiles
  /\ job' = [job EXCEPT ![c] = Idle]
  /\ UNCHANGED <<folder, gone, url, media, files, now, spoilt>>

\* DELETE /listings/:id/media/:mediaId, of admins: row read, file deleted,
\* row deleted.
DeleteMedia(c, id) ==
  /\ media[id] # None
  /\ Start(c, [op |-> "unmedia", id |-> id, old |-> media[id], at |-> "old"])

DeleteListingMedia(c) ==
  /\ job[c].op = "unmedia" /\ job[c].at = "write"
  /\ media' = [media EXCEPT ![job[c].id] = None]
  /\ job' = [job EXCEPT ![c] = Idle]
  /\ UNCHANGED <<folder, gone, url, files, now, spoilt>>

Tick ==
  /\ now < MaxTime /\ now' = now + 1
  /\ UNCHANGED <<folder, gone, url, media, files, job, spoilt>>

\* The process dies: what was under way stays as it is.
Crash ==
  /\ \E c \in Call : job[c] # Idle
  /\ job' = [c \in Call |-> Idle]
  /\ spoilt' = spoilt \cup UNION {KeysOf(job[c]) : c \in Call}
  /\ UNCHANGED <<folder, gone, url, media, files, now>>

Next ==
  \/ \E c \in Call, o \in Owner :
       \/ UploadHeroImage(c, o) \/ UploadImage(c, o) \/ UploadIcon(c, o)
       \/ UploadBackgroundImage(c, o) \/ UploadIconImage(c, o)
       \/ UploadHeaderImage(c, o) \/ UploadProfilePhoto(c, o)
       \/ DeleteImage(c, o) \/ DeleteIcon(c, o) \/ DeleteHeaderImage(c, o)
       \/ DeleteCategory(c, o) \/ DeleteTile(c, o)
       \/ UploadMedia(c, o)
  \/ \E o \in Owner : SyncHeroImage(o) \/ UpdateProfile(o)
  \/ \E c \in Call :
       \/ RemoveOld(c) \/ DeleteFileOf(c) \/ DeleteRow(c)
       \/ PutFile(c) \/ WriteUrl(c)
       \/ PutMedia(c) \/ CreateListingMedia(c) \/ MediaAnswered(c)
       \/ DeleteListingMedia(c)
       \/ \E id \in MediaId : DeleteMedia(c, id)
  \/ Tick
  \/ Crash

Spec == Init /\ [][Next]_imageVars

(***************************************************************************)
(* Properties                                                              *)
(***************************************************************************)

\* The row that is meant for the file names it.
Shown(k) ==
  IF k \in AllKeys THEN url[k] = PublicUrl(k)
                   ELSE \E id \in MediaId : media[id] = PublicUrl(k)
Settled  == {k \in AllKeys \cup AllMediaKeys : OnKey(k) = {} /\ k \notin spoilt}

\* Where no request is at work, a URL in a row names a file in the bucket,
\* and, if the deletions hit the files meant, every file is named by its row:
\* overlapping uploads do no harm, and one undisturbed upload repairs what
\* errors, crashes, overlapping removals, imports and users have left.
RowsMatchFiles ==
  \A k \in Settled :
    /\ Shown(k) => k \in files
    /\ ~VirtualHosted /\ k \in files => Shown(k)

\* "Removes both the file from storage and the database record", of
\* DELETE /listings/:id/media/:mediaId.
DeletedMediaIsGone ==
  \A k \in Settled \cap AllMediaKeys : k \in files => Shown(k)
=============================================================================
