--------------------------------- MODULE Photos ---------------------------------
(***************************************************************************)
(* The photos of one route: rows of route_photos, objects in the storage   *)
(* bucket, and the route's own photo_url (internal/handler/routephoto.go,  *)
(* internal/repository/routephoto.go, internal/service/storage.go).  An    *)
(* upload counts, waits for a processing slot, stores the object under the *)
(* millisecond it is written in, and saves the row; a delete takes the row *)
(* away and then the object.                                               *)
(***************************************************************************)
EXTENDS Naturals, FiniteSets, FiniteSetsExt

CONSTANTS
    Uploaders,      \* members with a request in flight
    PhotoStaff,        \* those of them who are setters
    PhotoCap,     \* photos per route, 20 in the code
    UploadSlots,  \* capacity of uploadSem
    MaxMillis,    \* bound on the clock
    MaxPhotos     \* bound on the rows ever written

ASSUME PhotosAssumption ==
    /\ IsFiniteSet(Uploaders)
    /\ PhotoCap \in Nat \ {0} /\ MaxMillis \in Nat \ {0} /\ MaxPhotos \in Nat

VARIABLES
    photos,       \* rows: [id, key, sort_order, uploaded_by]
    objects,      \* keys in the bucket
    photo_url,    \* the route's photo, a key, or NoPhoto
    call,         \* client -> request
    millis,       \* the clock
    saved,        \* rows written so far
    used,         \* history: keys ever given out
    collided      \* history: two uploads got one key

photoVars == <<photos, objects, photo_url, call, millis, saved, used, collided>>

-----------------------------------------------------------------------------
NoPhoto == 0
NoCall == [op |-> "none"]
Calls(op, steps) == {c \in Uploaders : call[c].op = op /\ call[c].step \in steps}
Millis == 1 .. MaxMillis

PhotosTypeOK ==
    /\ photos \subseteq [id : 1 .. MaxPhotos, key : Millis, sort_order : Nat, uploaded_by : Uploaders]
    /\ objects \subseteq Millis /\ photo_url \in Millis \cup {NoPhoto}
    /\ \A c \in Uploaders : call[c].op \in {"none", "upload", "delete"}
    /\ millis \in Millis /\ saved \in 0 .. MaxPhotos
    /\ used \subseteq Millis /\ collided \in BOOLEAN

PhotosInit ==
    /\ photos = {} /\ objects = {} /\ photo_url = NoPhoto
    /\ call = [c \in Uploaders |-> NoCall]
    /\ millis = 1 /\ saved = 0
    /\ used = {} /\ collided = FALSE

SetStep(c, s) == call' = [call EXCEPT ![c].step = s]
HangUp(c) == call' = [call EXCEPT ![c] = NoCall]

-----------------------------------------------------------------------------
\* The route is loaded: without a photo, this one becomes the route's own.
PhotoUpload(c) ==
    /\ call[c] = NoCall /\ saved < MaxPhotos
    /\ call' = [call EXCEPT ![c] =
          [op |-> "upload", step |-> "loaded", key |-> NoPhoto, sort_order |-> 0,
           first |-> photo_url = NoPhoto]]
    /\ UNCHANGED <<photos, objects, photo_url, millis, saved, used, collided>>

\* Mutant of UnderCap: one more.
UnderCapLate == Cardinality(photos) <= PhotoCap
UnderCap == Cardinality(photos) < PhotoCap

CountByRoute(c) ==
    /\ c \in Calls("upload", {"loaded"})
    /\ IF UnderCap THEN SetStep(c, "counted") ELSE HangUp(c)
    /\ UNCHANGED <<photos, objects, photo_url, millis, saved, used, collided>>

\* uploadSem, held to the end of the request, and ProcessImage.
ProcessImage(c) ==
    /\ c \in Calls("upload", {"counted"})
    /\ Cardinality(Calls("upload", {"processing", "stored", "ordered", "saved"})) < UploadSlots
    /\ SetStep(c, "processing")
    /\ UNCHANGED <<photos, objects, photo_url, millis, saved, used, collided>>

\* StorageService.Upload: photos/{route}/{UnixMilli}.
StoreObject(c) ==
    /\ c \in Calls("upload", {"processing"})
    /\ objects' = objects \cup {millis}
    /\ used' = used \cup {millis} /\ collided' = (collided \/ millis \in used)
    /\ call' = [call EXCEPT ![c].step = "stored", ![c].key = millis]
    /\ UNCHANGED <<photos, photo_url, millis, saved>>

NextSortOrder(c) ==
    /\ c \in Calls("upload", {"stored"})
    /\ call' = [call EXCEPT ![c].step = "ordered",
                            ![c].sort_order = Max({p.sort_order + 1 : p \in photos} \cup {0})]
    /\ UNCHANGED <<photos, objects, photo_url, millis, saved, used, collided>>

SavePhoto(c) ==
    /\ c \in Calls("upload", {"ordered"})
    /\ saved < MaxPhotos
    /\ saved' = saved + 1
    /\ photos' = photos \cup {[id |-> saved + 1, key |-> call[c].key,
                               sort_order |-> call[c].sort_order, uploaded_by |-> c]}
    /\ IF call[c].first THEN SetStep(c, "saved") ELSE HangUp(c)
    /\ UNCHANGED <<objects, photo_url, millis, used, collided>>

\* The insert fails; the clean-up may fail too and leaves an orphan.
SavePhotoFails(c) ==
    /\ c \in Calls("upload", {"ordered"})
    /\ objects' \in {objects, objects \ {call[c].key}}
    /\ HangUp(c)
    /\ UNCHANGED <<photos, photo_url, millis, saved, used, collided>>

\* RouteRepo.Update with the new photo, its error only logged.
SetPrimary(c) ==
    /\ c \in Calls("upload", {"saved"})
    /\ photo_url' \in {photo_url, call[c].key}
    /\ HangUp(c)
    /\ UNCHANGED <<photos, objects, millis, saved, used, collided>>

-----------------------------------------------------------------------------
\* A setter, or whoever has uploaded it, deletes a photo.
PhotoDelete(c, p) ==
    /\ call[c] = NoCall /\ (c \in PhotoStaff \/ p.uploaded_by = c)
    /\ call' = [call EXCEPT ![c] =
          [op |-> "delete", step |-> "row", photo |-> p, primary |-> photo_url = p.key]]
    /\ UNCHANGED <<photos, objects, photo_url, millis, saved, used, collided>>

DeletePhotoRow(c) ==
    /\ c \in Calls("delete", {"row"})
    /\ photos' = photos \ {call[c].photo}
    /\ SetStep(c, "object")
    /\ UNCHANGED <<objects, photo_url, millis, saved, used, collided>>

\* Mutant of ObjectToDelete: the route's photo is what goes.
ObjectToDeletePrimary(x) == IF photo_url = NoPhoto THEN x.photo.key ELSE photo_url
ObjectToDelete(x) == x.photo.key

\* StorageService.Delete, whose error does not stop the request.
DeleteObject(c) ==
    /\ c \in Calls("delete", {"object"})
    /\ objects' \in {objects, objects \ {ObjectToDelete(call[c])}}
    /\ IF call[c].primary THEN SetStep(c, "primary") ELSE HangUp(c)
    /\ UNCHANGED <<photos, photo_url, millis, saved, used, collided>>

\* The route falls back to the next photo in the list, unless the update fails.
NextPrimary(c) ==
    /\ c \in Calls("delete", {"primary"})
    /\ photo_url' \in {photo_url} \cup
          IF photos = {} THEN {NoPhoto}
          ELSE {p.key : p \in {q \in photos : \A r \in photos : q.sort_order <= r.sort_order}}
    /\ HangUp(c)
    /\ UNCHANGED <<photos, objects, millis, saved, used, collided>>

\* A failed statement, a cancelled request, a stopped instance.
CallFails(c) ==
    /\ call[c] # NoCall
    /\ HangUp(c)
    /\ UNCHANGED <<photos, objects, photo_url, millis, saved, used, collided>>

MilliTicks ==
    /\ millis < MaxMillis /\ millis' = millis + 1
    /\ UNCHANGED <<photos, objects, photo_url, call, saved, used, collided>>

PhotosNext ==
    \/ \E c \in Uploaders :
          \/ \E p \in photos : PhotoDelete(c, p)
          \/ PhotoUpload(c) \/ CountByRoute(c) \/ ProcessImage(c) \/ StoreObject(c)
          \/ NextSortOrder(c) \/ SavePhoto(c) \/ SavePhotoFails(c) \/ SetPrimary(c)
          \/ DeletePhotoRow(c) \/ DeleteObject(c) \/ NextPrimary(c) \/ CallFails(c)
    \/ MilliTicks

PhotosSpec == PhotosInit /\ [][PhotosNext]_photoVars

-----------------------------------------------------------------------------
\* A row never loses its object to somebody else's upload or delete, unless two
\* uploads shared a millisecond.
ObjectsOutliveRows ==
    \A p \in photos \cap photos' : p.key \in objects \ objects' => collided

\* Parallel uploads overrun the cap by no more than the requests in flight.
CapHolds == Cardinality(photos) < PhotoCap + Cardinality(Uploaders)
=============================================================================
