-------------------------------- MODULE Images --------------------------------
(***************************************************************************)
(* Image files and the rows that name them: the gallery and the thumbnail  *)
(* of a product, and a tenant's logo.  Files live on disk or in object     *)
(* storage, outside the transactions of the database, so every handler     *)
(* orders its steps by hand: upload, then write the row, then delete what  *)
(* the row no longer names; if the row cannot be written, delete what was  *)
(* uploaded.  A handler reads the row when it starts and uses what it read *)
(* until it ends.                                                          *)
(*                                                                         *)
(* The order of the images in a gallery is left out: where the code takes  *)
(* the first one the model takes any.                                      *)
(***************************************************************************)
CONSTANTS Handlers,  \* goroutines, each serving one request after another
          Products,  \* products of one tenant
          Tenant,    \* the tenant, owner of the logo
          Files,     \* names uploads may get; each upload gets one of its own
          Kinds,     \* kinds of requests that arrive
          None

Owners == Products \cup {Tenant}

UploadKinds  == {"add", "thumbnail", "replace", "logo"}
ProductKinds == {"add", "thumbnail", "replace", "remove", "choose", "edit", "status"}

\* A product that is inactive is treated as an active one.
Statuses == {"active", "deleted"}

Row  == [images : SUBSET Files, thumb : Files \cup {None}, status : Statuses]
Body == [kind : Kinds, owner : Owners, image : Files \cup {None}, status : Statuses \cup {None}]

ASSUME ImagesAssumption ==
  /\ Kinds \subseteq ProductKinds \cup {"logo"}
  /\ Tenant \notin Products
  /\ None \notin Files \cup Handlers \cup Body \cup Row \cup Statuses

VARIABLES
  files,   \* the files in each owner's directory
  used,    \* names ever given to a file
  row,     \* products: image_urls, thumbnail_url and status
  logo,    \* tenants.logo_url
  lock,    \* product -> the handler whose transaction holds its row lock
  pc,      \* where each handler stands
  body,    \* what its request asks for
  seen,    \* the row as the handler read it
  new,     \* files it has uploaded that no row names yet
  left,    \* files it still has to delete
  \* Observers: they guard nothing.
  condemned, \* products that have been soft-deleted at some time
  unsure,    \* files named by a commit whose answer was lost
  leaked     \* files given up by a failure or by a replacement that never saw them

store     == <<files, used>>
database  == <<row, logo>>
observers == <<condemned, unsure, leaked>>
vars == <<files, used, row, logo, lock, pc, body, seen, new, left,
          condemned, unsure, leaked>>

\* A product is created without images; they come by separate requests.
EmptyRow == [images |-> {}, thumb |-> None, status |-> "active"]

Init ==
  /\ files = [o \in Owners |-> {}]
  /\ used = {}
  /\ row = [p \in Products |-> EmptyRow]
  /\ logo = None
  /\ lock = [p \in Products |-> None]
  /\ pc = [r \in Handlers |-> "idle"]
  /\ body = [r \in Handlers |-> None]
  /\ seen = [r \in Handlers |-> None]
  /\ new = [r \in Handlers |-> {}]
  /\ left = [r \in Handlers |-> {}]
  /\ condemned = {}
  /\ unsure = {}
  /\ leaked = {}

-----------------------------------------------------------------------------
(* Steps of a handler *)

At(r, l)   == pc[r] = l
Goto(r, l) == pc' = [pc EXCEPT ![r] = l]
Kind(r)    == body[r].kind
Owner(r)   == body[r].owner
MineAsRead(r) == IF seen[r] = None THEN row[Owner(r)] ELSE seen[r]
Mine(r)    == row[Owner(r)]
Free(r)    == lock[Owner(r)] = None
Unlock(r)  == lock' = [p \in Products |-> IF lock[p] = r THEN None ELSE lock[p]]

\* The response is sent: the handler is ready for another request.
Finish(r) ==
  /\ Goto(r, "idle")
  /\ body' = [body EXCEPT ![r] = None]
  /\ seen' = [seen EXCEPT ![r] = None]
  /\ new'  = [new EXCEPT ![r] = {}]
  /\ left' = [left EXCEPT ![r] = {}]

\* Whatever is left for it to do is to delete these files.
Erase(r, gone) ==
  IF gone = {} THEN Finish(r)
  ELSE /\ Goto(r, "erase")
       /\ left' = [left EXCEPT ![r] = gone]
       /\ new'  = [new EXCEPT ![r] = {}]
       /\ UNCHANGED <<body, seen>>

\* On a database error every upload of the request is deleted again.
UndoNothing(r) == Finish(r)
UndoErasingAsked(r) == Erase(r, new[r] \cup (IF Kind(r) = "remove" THEN {body[r].image} ELSE {}))
Undo(r) == Erase(r, new[r])

\* The answer to a commit may be lost after the rows have changed.
Lost(r) == /\ Undo(r)
           /\ unsure' = unsure \cup new[r]

\* The current thumbnail if it is still an image, otherwise the first image.
selectThumbnail(current, images) ==
  IF images = {} THEN {None} ELSE IF current \in images THEN {current} ELSE images

FirstStep(kind) ==
  CASE kind \in UploadKinds -> "save"
    [] kind = "remove"      -> "lock"
    [] kind \in {"choose", "edit", "status"} -> "write"

\* Logos are written by one statement, galleries under a row lock.
AfterUpload(r) == IF Kind(r) = "logo" THEN "write" ELSE "lock"

WellFormed(b) ==
  /\ b.owner = Tenant <=> b.kind = "logo"
  /\ b.image # None <=> b.kind \in {"remove", "choose"}
  /\ b.status # None => b.kind \in {"edit", "status"}
  /\ b.kind = "status" => b.status # None

\* A request for a product of the tenant.  One that is refused before anything is
\* read changes nothing and is left out, and so is one for a product there is not.
Receive(r) ==
  /\ At(r, "idle")
  /\ \E b \in Body :
       /\ WellFormed(b) /\ b.image \in used \cup {None}
       /\ body' = [body EXCEPT ![r] = b]
  /\ Goto(r, "read")
  /\ UNCHANGED <<store, database, lock, seen, new, left, observers>>

\* GetProductByID, or GetBranding for the logo.
ReadRow(r) ==
  /\ At(r, "read")
  /\ seen' = [seen EXCEPT ![r] =
       IF Kind(r) = "logo" THEN [EmptyRow EXCEPT !.thumb = logo] ELSE Mine(r)]
  /\ Goto(r, FirstStep(Kind(r)))
  /\ UNCHANGED <<store, database, lock, body, new, left, observers>>

\* One file is stored.  Galleries take several in one request, one after another.
SaveFile(r) ==
  /\ At(r, "save")
  /\ \E f \in Files \ used :
       /\ files' = [files EXCEPT ![Owner(r)] = @ \cup {f}]
       /\ used' = used \cup {f}
       /\ new' = [new EXCEPT ![r] = @ \cup {f}]
  /\ \E l \in {"save", AfterUpload(r)} :
       /\ Kind(r) \in {"thumbnail", "logo"} => l # "save"
       /\ Goto(r, l)
  /\ UNCHANGED <<database, lock, body, seen, left, observers>>

\* Saving fails; the file may be left half-written, and those before it stay.
SaveFails(r) ==
  /\ At(r, "save")
  /\ \E part \in {{}} \cup {{f} : f \in Files \ used} :
       /\ files' = [files EXCEPT ![Owner(r)] = @ \cup part]
       /\ used' = used \cup part
       /\ leaked' = leaked \cup new[r] \cup part
  /\ Finish(r)
  /\ UNCHANGED <<database, lock, condemned, unsure>>

\* SELECT ... FOR UPDATE
LockRow(r) ==
  /\ At(r, "lock") /\ Free(r)
  /\ lock' = [lock EXCEPT ![Owner(r)] = r]
  /\ Goto(r, "locked")
  /\ UNCHANGED <<store, database, body, seen, new, left, observers>>

-----------------------------------------------------------------------------
(* Transactions on a locked row *)

InTx(r, kind) == At(r, "locked") /\ Kind(r) = kind

\* Names the images and the thumbnail of the product.
SetImages(r, images, thumb) ==
  row' = [row EXCEPT ![Owner(r)] =
    [images |-> images, thumb |-> thumb, status |-> Mine(r).status]]

\* After the commit a product without a thumbnail is given one, by another statement.
AppendProductImages(r) ==
  /\ InTx(r, "add")
  /\ SetImages(r, Mine(r).images \cup new[r], Mine(r).thumb)
  /\ Unlock(r)
  /\ \/ /\ Mine(r).thumb # None
        /\ Finish(r)
        /\ UNCHANGED unsure
     \/ /\ Mine(r).thumb = None
        /\ Goto(r, "write")
        /\ seen' = [seen EXCEPT ![r].images = Mine(r).images \cup new[r]]
        /\ new' = [new EXCEPT ![r] = {}]
        /\ UNCHANGED <<body, left, unsure>>
     \/ Lost(r)
  /\ UNCHANGED <<store, logo, condemned, leaked>>

PrependImageAndSetThumbnail(r) ==
  /\ InTx(r, "thumbnail")
  /\ \E f \in new[r] : SetImages(r, Mine(r).images \cup {f}, f)
  /\ Unlock(r)
  /\ \/ Finish(r) /\ UNCHANGED unsure
     \/ Lost(r)
  /\ UNCHANGED <<store, logo, condemned, leaked>>

\* The old images are those read before the upload, not those in the row.
UpdateProductImages(r) ==
  /\ InTx(r, "replace")
  /\ \E t \in selectThumbnail(seen[r].thumb, new[r]) : SetImages(r, new[r], t)
  /\ Unlock(r)
  /\ \/ /\ Erase(r, seen[r].images)
        /\ leaked' = leaked \cup (Mine(r).images \ seen[r].images)
        /\ UNCHANGED unsure
     \/ /\ Lost(r)
        /\ leaked' = leaked \cup Mine(r).images
  /\ UNCHANGED <<store, logo, condemned>>

RemoveProductImage(r) ==
  /\ InTx(r, "remove")
  /\ body[r].image \in Mine(r).images
  /\ LET rest == Mine(r).images \ {body[r].image} IN
       \E t \in selectThumbnail(Mine(r).thumb, rest) : SetImages(r, rest, t)
  /\ Unlock(r)
  /\ \/ Erase(r, {body[r].image}) /\ UNCHANGED leaked
     \/ Finish(r) /\ leaked' = leaked \cup {body[r].image}
  /\ UNCHANGED <<store, logo, condemned, unsure>>

\* ErrImageNotInProduct
RefuseRemoval(r) ==
  /\ InTx(r, "remove")
  /\ body[r].image \notin Mine(r).images
  /\ Unlock(r)
  /\ Finish(r)
  /\ UNCHANGED <<store, database, observers>>

-----------------------------------------------------------------------------
(* Single statements, which wait for a row lock but look at nothing in the row *)

Writes(r, kinds) == At(r, "write") /\ Kind(r) \in kinds

\* ThumbnailURLInImageURLs, of the images as they were read.
ChoiceIsListed(r) == body[r].image \in seen[r].images

RefuseChoice(r) ==
  /\ Writes(r, {"choose"}) /\ ~ChoiceIsListed(r)
  /\ Finish(r)
  /\ UNCHANGED <<store, database, lock, observers>>

\* The admin's choice, or the first image of a product that had no thumbnail.
UpdateProductThumbnail(r) ==
  /\ Writes(r, {"choose", "add"}) /\ Free(r)
  /\ Kind(r) = "choose" => ChoiceIsListed(r)
  /\ \E t \in IF Kind(r) = "choose" THEN {body[r].image}
              ELSE selectThumbnail(seen[r].thumb, seen[r].images) :
       row' = [row EXCEPT ![Owner(r)].thumb = t]
  /\ Finish(r)
  /\ UNCHANGED <<store, logo, lock, observers>>

\* The files of a product are removed once it is soft-deleted.
cleanupImagesIfDeleted(r, status) ==
  IF status = "deleted"
  THEN /\ Goto(r, "wipe")
       /\ condemned' = condemned \cup {Owner(r)}
       /\ UNCHANGED <<body, seen, new, left>>
  ELSE Finish(r) /\ UNCHANGED condemned

\* The row is changed but the handler does not learn it: no clean-up follows.
Unanswered(r, status) ==
  /\ Finish(r)
  /\ condemned' = IF status = "deleted" THEN condemned \cup {Owner(r)} ELSE condemned

\* An edit without a status keeps the one it read.
StatusAsSent(r) == body[r].status
NewStatus(r) == IF body[r].status = None THEN seen[r].status ELSE body[r].status

\* Writes the thumbnail it read.
UpdateProduct(r) ==
  /\ Writes(r, {"edit"}) /\ Free(r)
  /\ row' = [row EXCEPT ![Owner(r)] =
       [images |-> Mine(r).images, thumb |-> seen[r].thumb, status |-> NewStatus(r)]]
  /\ cleanupImagesIfDeleted(r, NewStatus(r)) \/ Unanswered(r, NewStatus(r))
  /\ UNCHANGED <<store, logo, lock, unsure, leaked>>

UpdateProductStatus(r) ==
  /\ Writes(r, {"status"}) /\ Free(r)
  /\ row' = [row EXCEPT ![Owner(r)].status = body[r].status]
  /\ cleanupImagesIfDeleted(r, body[r].status) \/ Unanswered(r, body[r].status)
  /\ UNCHANGED <<store, logo, lock, unsure, leaked>>

UpdateTenantLogoURL(r) ==
  /\ Writes(r, {"logo"})
  /\ \E f \in new[r] : logo' = f
  /\ \/ /\ Erase(r, {seen[r].thumb} \ {None})
        /\ leaked' = leaked \cup ({logo} \ {seen[r].thumb, None})
        /\ UNCHANGED unsure
     \/ /\ Lost(r)
        /\ leaked' = leaked \cup ({logo} \ {None})
  /\ UNCHANGED <<store, row, lock, condemned>>

-----------------------------------------------------------------------------
(* Deleting files *)

\* Best effort, one file after another.
DeleteImage(r) ==
  /\ At(r, "erase")
  /\ \E f \in left[r] :
       /\ \/ /\ files' = [files EXCEPT ![Owner(r)] = @ \ {f}]
             /\ UNCHANGED leaked
          \/ /\ leaked' = leaked \cup ({f} \cap files[Owner(r)])
             /\ UNCHANGED files
       /\ Erase(r, left[r] \ {f})
  /\ UNCHANGED <<used, database, lock, condemned, unsure>>

\* The directory of the product goes: all of it, or part of it when that fails,
\* or nothing where the files are in object storage.
DeleteProductImages(r) ==
  /\ At(r, "wipe")
  /\ \E gone \in SUBSET files[Owner(r)] :
       files' = [files EXCEPT ![Owner(r)] = @ \ gone]
  /\ Finish(r)
  /\ UNCHANGED <<used, database, lock, observers>>

-----------------------------------------------------------------------------
(* Faults *)

\* The database answers with an error and has changed nothing.
DbFails(r) ==
  /\ pc[r] \in {"read", "lock", "locked", "write"}
  /\ Unlock(r)
  /\ Undo(r)
  /\ UNCHANGED <<store, database, observers>>

\* The server stops while the request is served.
Crash(r) ==
  /\ ~At(r, "idle")
  /\ Unlock(r)
  /\ leaked' = leaked \cup new[r] \cup left[r]
  /\ Finish(r)
  /\ UNCHANGED <<store, database, condemned, unsure>>

-----------------------------------------------------------------------------
Transaction(r) ==
  \/ AppendProductImages(r) \/ PrependImageAndSetThumbnail(r)
  \/ UpdateProductImages(r) \/ RemoveProductImage(r) \/ RefuseRemoval(r)

Statement(r) ==
  \/ RefuseChoice(r) \/ UpdateProductThumbnail(r)
  \/ UpdateProduct(r) \/ UpdateProductStatus(r) \/ UpdateTenantLogoURL(r)

Step(r) ==
  \/ ReadRow(r) \/ SaveFile(r) \/ SaveFails(r) \/ LockRow(r)
  \/ Transaction(r) \/ Statement(r) \/ DeleteImage(r) \/ DeleteProductImages(r)

Next == \E r \in Handlers : Receive(r) \/ Step(r) \/ DbFails(r) \/ Crash(r)

Spec == Init /\ [][Next]_vars

-----------------------------------------------------------------------------
(* Properties *)

TypeOK ==
  /\ files \in [Owners -> SUBSET Files]
  /\ used \in SUBSET Files
  /\ row \in [Products -> Row]
  /\ logo \in Files \cup {None}
  /\ lock \in [Products -> Handlers \cup {None}]
  /\ pc \in [Handlers -> {"idle", "read", "save", "lock", "locked", "write", "erase", "wipe"}]
  /\ body \in [Handlers -> Body \cup {None}]
  /\ seen \in [Handlers -> Row \cup {None}]
  /\ new \in [Handlers -> SUBSET Files] /\ left \in [Handlers -> SUBSET Files]
  /\ condemned \in SUBSET Products
  /\ unsure \in SUBSET Files /\ leaked \in SUBSET Files

\* The images of a product and the tenant's logo are there to be served, whatever
\* requests race for them and fail half-way, unless the product was once deleted
\* or the commit that named them looked like a failure and its uploads were undone.
RowsNameStoredFiles ==
  /\ \A p \in Products \ condemned : row[p].images \subseteq files[p] \cup unsure
  /\ logo \in files[Tenant] \cup unsure \cup {None}

\* Every stored file is named by its row, or still in the hands of a request, or
\* was given up by a failure or by a replacement that never saw it: an upload that
\* is refused, undone or replaced does not stay behind.
Named(o) == IF o = Tenant THEN {logo} ELSE row[o].images
HasInHand(r, f) == f \in new[r] \cup left[r]
NoStrayFiles == \A o \in Owners : \A f \in files[o] \ leaked :
  f \in Named(o) \/ \E r \in Handlers : ~At(r, "idle") /\ Owner(r) = o /\ HasInHand(r, f)

\* An image leaves a gallery only by the request that removes it or by one that
\* replaces the gallery: no append and no edit of the product drops one that was
\* added since it read the row.
Asked(r, f) ==
  \/ Kind(r) = "replace"
  \/ Kind(r) = "remove" /\ body[r].image = f
OnlyRemovedOnPurpose ==
  [][\A p \in Products : \A f \in row[p].images \ row'[p].images :
       \E r \in Handlers : lock[p] = r /\ Owner(r) = p /\ Asked(r, f)]_vars

\* handlers/product.go:366, "thumbnail_url must exist in image_urls": a thumbnail is
\* one of the product's images.
ThumbnailInImages == \A p \in Products : row[p].thumb \in row[p].images \cup {None}

=============================================================================
