----------------------------- MODULE ImagesProofs -----------------------------
(* The safety properties of Images, for every instance. *)
EXTENDS Images, TLAPS

USE ImagesAssumption

\* Each handler by itself: what it works on at each step, what it can have in hand,
\* and the lock it holds.
Asks(r) ==
  /\ body[r] \in Body /\ WellFormed(body[r])
  /\ pc[r] \in {"save", "lock", "locked", "write"} => seen[r] \in Row
  /\ pc[r] = "save" => Kind(r) \in UploadKinds
  /\ pc[r] \in {"lock", "locked"} => Kind(r) \in {"add", "thumbnail", "replace", "remove"}
  /\ pc[r] = "write" => Kind(r) \in {"choose", "edit", "status", "add", "logo"}
  /\ pc[r] = "wipe" => Kind(r) \in {"edit", "status"}
Holds(r) ==
  /\ left[r] # {} => pc[r] = "erase"
  /\ new[r] # {} => /\ Kind(r) \in UploadKinds
                    /\ \/ pc[r] \in {"save", "lock", "locked"}
                       \/ pc[r] = "write" /\ Kind(r) = "logo"
  /\ Kind(r) \in {"thumbnail", "logo"} =>
       /\ pc[r] = "save" => new[r] = {}
       /\ \A f, g \in new[r] : f = g
  /\ pc[r] = "locked" => lock[Owner(r)] = r
  /\ pc[r] = "wipe" => Owner(r) \in condemned
Idle(r) == new[r] = {} /\ left[r] = {} /\ seen[r] = None /\ body[r] = None
Local == \A r \in Handlers : IF pc[r] = "idle" THEN Idle(r) ELSE Asks(r) /\ Holds(r)

\* The files a handler has read about: the images, or the logo.
Read(r) == IF seen[r] = None THEN {} ELSE
  IF Kind(r) = "logo" THEN {seen[r].thumb} ELSE seen[r].images

\* Only names that were given out are mentioned anywhere.
NamesUsed ==
  /\ \A r \in Handlers : new[r] \cup left[r] \cup (Read(r) \ {None}) \subseteq used
  /\ \A p \in Products : row[p].images \subseteq used
  /\ logo \in used \cup {None}

\* A file that was uploaded and not named yet is known to its uploader alone.
NewIsPrivate == \A r \in Handlers :
  /\ \A s \in Handlers : /\ r # s => new[r] \cap new[s] = {}
                         /\ new[r] \cap left[s] = {}
                         /\ new[r] \cap Read(s) = {}
  /\ \A p \in Products : new[r] \cap row[p].images = {}
  /\ logo \notin new[r]

\* What is about to be deleted is not named, unless its commit was not answered.
LeftIsDropped == \A r \in Handlers : pc[r] = "erase" =>
  left[r] \cap Named(Owner(r)) \subseteq unsure

\* What was uploaded is there, unless the product's directory is being removed.
NewIsStored == \A r \in Handlers : pc[r] # "idle" =>
  Owner(r) \in condemned \/ new[r] \subseteq files[Owner(r)]

IInv == /\ TypeOK /\ Local /\ NamesUsed /\ NewIsPrivate
        /\ LeftIsDropped /\ NewIsStored /\ RowsNameStoredFiles

\* Where a step takes its handler; the others stay where they are.
Now(r, l, b, s, n, g) ==
  /\ pc'[r] = l /\ body'[r] = b /\ seen'[r] = s /\ new'[r] = n /\ left'[r] = g
  /\ \A q \in Handlers \ {r} : /\ pc'[q] = pc[q] /\ body'[q] = body[q] /\ seen'[q] = seen[q]
                               /\ new'[q] = new[q] /\ left'[q] = left[q]

Done(r) == Now(r, "idle", None, None, {}, {})

HandlerTypes ==
  /\ pc \in [Handlers -> {"idle", "read", "save", "lock", "locked", "write", "erase", "wipe"}]
  /\ body \in [Handlers -> Body \cup {None}]
  /\ seen \in [Handlers -> Row \cup {None}]
  /\ new \in [Handlers -> SUBSET Files] /\ left \in [Handlers -> SUBSET Files]

LEMMA FinishNow == ASSUME TypeOK, NEW r \in Handlers, Finish(r) PROVE Done(r) /\ HandlerTypes'
BY DEF TypeOK, Finish, Goto, Done, Now, HandlerTypes

LEMMA EraseNow ==
  ASSUME TypeOK, NEW r \in Handlers, NEW gone \in SUBSET Files, Erase(r, gone)
  PROVE  /\ HandlerTypes'
         /\ \/ gone = {} /\ Done(r)
            \/ gone # {} /\ Now(r, "erase", body[r], seen[r], {}, gone)
<1>1. CASE gone = {}
  BY <1>1, FinishNow DEF Erase
<1>2. CASE gone # {}
  BY <1>2 DEF Erase, TypeOK, Goto, Now, HandlerTypes
<1> QED
  BY <1>1, <1>2

\* A row lock goes to, or is given back by, the handler itself.
LEMMA Unlocked ==
  ASSUME TypeOK, NEW r \in Handlers, Unlock(r)
  PROVE  /\ lock' \in [Products -> Handlers \cup {None}]
         /\ \A s \in Handlers \ {r}, p \in Products : lock[p] = s => lock'[p] = s
BY DEF TypeOK, Unlock

\* What a thumbnail is selected from.
LEMMA Selected ==
  ASSUME NEW images, NEW current, NEW t \in selectThumbnail(current, images)
  PROVE  t \in images \cup {None}
BY DEF selectThumbnail

\* A new list of images, and nothing else, in the row of a product.
LEMMA ListSet ==
  ASSUME TypeOK, NEW r \in Handlers, Owner(r) \in Products,
         NEW images \in SUBSET Files, NEW thumb \in Files \cup {None}, SetImages(r, images, thumb)
  PROVE  /\ row' \in [Products -> Row]
         /\ row'[Owner(r)].images = images
         /\ \A p \in Products \ {Owner(r)} : row'[p] = row[p]
<1>1. row[Owner(r)] \in Row
  BY DEF TypeOK
<1> QED
  BY <1>1 DEF TypeOK, SetImages, Mine, Row

-----------------------------------------------------------------------------
(* What every step does to the names: Gains says what may be mentioned afterwards. *)

Images == UNION {row[p].images : p \in Products}

Gains(r) ==
  /\ \A q \in Handlers \ {r} : new'[q] = new[q] /\ left'[q] = left[q] /\ Read(q)' = Read(q)
  /\ used \subseteq used' /\ used' \subseteq Files /\ new'[r] \subseteq new[r] \cup (used' \ used)
  /\ \/ /\ new'[r] = {}
        /\ left'[r] \subseteq left[r] \cup new[r] \cup (Read(r) \ {None}) \cup Images
        /\ Read(r)' \subseteq Read(r) \cup Images \cup {logo, None} \cup new[r]
        /\ \A p \in Products : row'[p].images \subseteq row[p].images \cup new[r]
        /\ logo' \in {logo} \cup new[r]
     \/ /\ left'[r] = {} /\ Read(r)' = Read(r)
        /\ \A p \in Products : row'[p].images = row[p].images
        /\ logo' = logo

LEMMA GainsKeep ==
  ASSUME TypeOK, NEW r \in Handlers, Gains(r), NamesUsed, NewIsPrivate, None \notin Files
  PROVE  NamesUsed' /\ NewIsPrivate'
<1>0. Images \subseteq used /\ \A s \in Handlers : new[s] \cap Images = {}
  BY DEF NamesUsed, NewIsPrivate, Images
<1>1. NamesUsed'
  BY <1>0 DEF NamesUsed, Gains, TypeOK
<1>2. ASSUME NEW q \in Handlers, NEW s \in Handlers
      PROVE  /\ q # s => new'[q] \cap new'[s] = {}
             /\ new'[q] \cap left'[s] = {}
             /\ new'[q] \cap Read(s)' = {}
  BY <1>0 DEF NamesUsed, NewIsPrivate, Gains, TypeOK
<1>3. ASSUME NEW q \in Handlers
      PROVE  /\ \A p \in Products : new'[q] \cap row'[p].images = {}
             /\ logo' \notin new'[q]
  BY DEF NamesUsed, NewIsPrivate, Gains, TypeOK
<1> QED
  BY <1>1, <1>2, <1>3 DEF NewIsPrivate

-----------------------------------------------------------------------------
(* What every step does to rows and files: it touches its own owner's, deletes only *)
(* what it was left to delete or what lies in a condemned directory, and forgets    *)
(* nothing that is stored.                                                          *)

Touches(r) ==
  /\ \A p \in Products \ {Owner(r)} : row'[p].images = row[p].images
  /\ Owner(r) # Tenant => logo' = logo
  /\ \A o \in Owners \ {Owner(r)} : files'[o] = files[o]
  /\ \A o \in Owners : o \in condemned' \/ files[o] \ files'[o] \subseteq left[r]
  /\ condemned \subseteq condemned' /\ unsure \subseteq unsure'
  /\ \A s \in Handlers \ {r}, p \in Products : lock[p] = s => lock'[p] = s
  /\ \A q \in Handlers \ {r} : pc'[q] = pc[q] /\ body'[q] = body[q] /\ seen'[q] = seen[q]
  /\ pc[r] # "idle" => body'[r] \in {body[r], None}

\* Where its handler stands afterwards.
Stands(r) ==
  IF pc[r] = "idle" THEN Idle(r) ELSE
    /\ Asks(r) /\ Holds(r)
    /\ pc[r] = "erase" => left[r] \cap Named(Owner(r)) \subseteq unsure
    /\ Owner(r) \in condemned \/ new[r] \subseteq files[Owner(r)]

\* Nothing that is stored is forgotten.
Conserves(r) ==
  /\ leaked \subseteq leaked'
  /\ \A o \in Owners : files'[o] \subseteq files[o] \cup new'[r] \cup leaked'
  /\ \A o \in Owners : Named(o) \cap files'[o] \subseteq Named(o)' \cup left'[r] \cup leaked'
  /\ \A o \in Owners : o = Owner(r) =>
       (new[r] \cup left[r]) \cap files'[o] \subseteq new'[r] \cup left'[r] \cup Named(o)' \cup leaked'
  /\ new'[r] \cup left'[r] # {} => pc'[r] # "idle"
  /\ pc[r] # "idle" /\ pc'[r] # "idle" => body'[r] = body[r]
  /\ pc[r] = "idle" => new[r] \cup left[r] \cup new'[r] \cup left'[r] = {}

Effect(r) == Gains(r) /\ Touches(r) /\ Stands(r)' /\ Conserves(r)

LEMMA EffectKeeps ==
  ASSUME IInv, NEW r \in Handlers, TypeOK', Effect(r)
  PROVE  IInv'
<1>1. NamesUsed' /\ NewIsPrivate'
  BY GainsKeep DEF IInv, Effect
<1>2. ASSUME NEW s \in Handlers, s # r
      PROVE  IF pc'[s] = "idle" THEN Idle(s)' ELSE Asks(s)' /\ Holds(s)'
  <2>1. /\ pc'[s] = pc[s] /\ body'[s] = body[s] /\ seen'[s] = seen[s]
        /\ new'[s] = new[s] /\ left'[s] = left[s]
    BY <1>2 DEF Effect, Gains, Touches
  <2>2. IF pc[s] = "idle" THEN Idle(s) ELSE Asks(s) /\ Holds(s)
    BY DEF IInv, Local
  <2>3. CASE pc[s] = "idle"
    BY <2>1, <2>2, <2>3 DEF Idle
  <2>4. CASE pc[s] # "idle"
    <3>1. Asks(s)'
      BY <2>1, <2>2, <2>4 DEF Asks, Kind
    <3>2. pc[s] = "locked" => Owner(s) \in Products
      BY <2>2, <2>4 DEF Asks, WellFormed, Kind, Owner, Body, Owners
    <3>3. Holds(s)'
      BY <1>2, <2>1, <2>2, <2>4, <3>2 DEF Holds, Kind, Owner, Effect, Touches
    <3> QED
      BY <2>1, <2>4, <3>1, <3>3
  <2> QED
    BY <2>3, <2>4
<1>11. Local'
  BY <1>2 DEF Effect, Stands, Local
<1>3. \A p \in Products : row'[p].images \subseteq row[p].images \cup new[r]
  BY DEF Effect, Gains
<1>4. logo' \in {logo} \cup new[r]
  BY DEF Effect, Gains
<1>5. ASSUME NEW q \in Handlers, q # r, pc'[q] = "erase"
      PROVE  left'[q] \cap Named(Owner(q))' \subseteq unsure'
  <2>1. /\ pc[q] = "erase" /\ body'[q] = body[q] /\ left'[q] = left[q] /\ unsure \subseteq unsure'
        /\ left[q] \cap new[r] = {} /\ left[q] \cap Named(Owner(q)) \subseteq unsure
        /\ Owner(q) \in Owners
    BY <1>5 DEF IInv, Effect, Gains, Touches, NewIsPrivate, LeftIsDropped, Local, Asks, Owner, Body
  <2>2. Named(Owner(q))' \subseteq Named(Owner(q)) \cup new[r]
    BY <1>3, <1>4, <2>1 DEF Named, Owner, Owners
  <2> QED
    BY <2>1, <2>2
<1>6. LeftIsDropped'
  BY <1>5 DEF Effect, Stands, LeftIsDropped
<1>7. ASSUME NEW q \in Handlers, q # r, pc'[q] # "idle", Owner(q)' \notin condemned'
      PROVE  new'[q] \subseteq files'[Owner(q)']
  <2>1. /\ pc[q] # "idle" /\ Owner(q)' = Owner(q) /\ new'[q] = new[q] /\ Owner(q) \notin condemned
        /\ new[q] \cap left[r] = {} /\ new[q] \subseteq files[Owner(q)] /\ Owner(q) \in Owners
    BY <1>7 DEF IInv, Effect, Gains, Touches, NewIsPrivate, NewIsStored, Local, Asks, Owner, Body
  <2> QED
    BY <1>7, <2>1 DEF Effect, Touches
<1>8. NewIsStored'
  BY <1>7 DEF Effect, Stands, NewIsStored
<1>9. ASSUME NEW p \in Products, p \notin condemned'
      PROVE  row'[p].images \subseteq files'[p] \cup unsure'
  <2>1. row[p].images \subseteq files[p] \cup unsure /\ files[p] \ files'[p] \subseteq left[r]
    BY <1>9 DEF IInv, RowsNameStoredFiles, Effect, Touches, Owners
  <2>2. CASE Owner(r) = p /\ pc[r] # "idle"
    <3>1. left[r] \cap row[p].images \subseteq unsure
      BY <2>2, ImagesAssumption DEF IInv, LeftIsDropped, Local, Holds, Named
    <3>2. new[r] \subseteq files[p] /\ new[r] \cap left[r] = {}
      BY <1>9, <2>2 DEF IInv, NewIsStored, NewIsPrivate, Effect, Touches
    <3> QED
      BY <1>3, <2>1, <3>1, <3>2 DEF Effect, Touches
  <2>3. CASE Owner(r) # p
    BY <2>1, <2>3 DEF Effect, Touches, Owners
  <2>4. CASE pc[r] = "idle"
    BY <1>3, <2>1, <2>4 DEF IInv, Local, Idle, Effect, Touches
  <2> QED
    BY <2>2, <2>3, <2>4
<1>10. logo' \in files'[Tenant] \cup unsure' \cup {None}
  <2>1. logo \in files[Tenant] \cup unsure \cup {None} /\ files[Tenant] \ files'[Tenant] \subseteq left[r]
    BY DEF IInv, RowsNameStoredFiles, Effect, Touches, Owners, TypeOK
  <2>2. CASE Owner(r) = Tenant /\ pc[r] # "idle"
    <3>1. left[r] \cap {logo} \subseteq unsure
      BY <2>2 DEF IInv, LeftIsDropped, Local, Holds, Named
    <3>2. new[r] \subseteq files[Tenant] /\ new[r] \cap left[r] = {}
      BY <2>2 DEF IInv, NewIsStored, NewIsPrivate, TypeOK
    <3> QED
      BY <1>4, <2>1, <3>1, <3>2 DEF Effect, Touches
  <2>3. CASE Owner(r) # Tenant
    BY <2>1, <2>3 DEF Effect, Touches, Owners
  <2>4. CASE pc[r] = "idle"
    BY <1>4, <2>1, <2>4 DEF IInv, Local, Idle, Effect, Touches
  <2> QED
    BY <2>2, <2>3, <2>4
<1> QED
  BY <1>1, <1>6, <1>8, <1>9, <1>10, <1>11 DEF IInv, RowsNameStoredFiles

LEMMA ConservesKeep ==
  ASSUME IInv, NEW r \in Handlers, TypeOK', Effect(r), NoStrayFiles
  PROVE  NoStrayFiles'
<1> SUFFICES ASSUME NEW o \in Owners, NEW f \in files'[o] \ leaked', f \notin Named(o)'
             PROVE  \E s \in Handlers : pc'[s] # "idle" /\ Owner(s)' = o /\ f \in new'[s] \cup left'[s]
  BY DEF NoStrayFiles, At, HasInHand
<1>1. (o # Owner(r) => files'[o] = files[o] /\ Named(o) \subseteq Named(o)')
  BY DEF Effect, Touches, Named, Owners
<1>2. ASSUME f \in new'[r] \cup left'[r], o = Owner(r)
      PROVE  pc'[r] # "idle" /\ Owner(r)' = o
  BY <1>2 DEF Effect, Conserves, Owner
<1>3. CASE f \notin files[o]
  <2>1. f \in new'[r] /\ o = Owner(r)
    BY <1>1, <1>3 DEF Effect, Conserves
  <2> QED
    BY <1>2, <2>1
<1>4. CASE f \in files[o] /\ f \in Named(o)
  <2>1. f \in left'[r] /\ o = Owner(r)
    BY <1>1, <1>4 DEF Effect, Conserves
  <2> QED
    BY <1>2, <2>1
<1>5. CASE f \in files[o] /\ f \notin Named(o)
  <2>1. f \notin leaked
    BY DEF Effect, Conserves
  <2>2. PICK s \in Handlers : pc[s] # "idle" /\ Owner(s) = o /\ f \in new[s] \cup left[s]
    BY <1>5, <2>1 DEF NoStrayFiles, At, HasInHand
  <2>3. CASE s = r
    <3>1. f \in new'[r] \cup left'[r]
      BY <2>2, <2>3 DEF Effect, Conserves
    <3> QED
      BY <1>2, <2>2, <2>3, <3>1
  <2>4. CASE s # r
    BY <2>2, <2>4 DEF Effect, Gains, Touches, Owner
  <2> QED
    BY <2>3, <2>4
<1> QED
  BY <1>3, <1>4, <1>5

-----------------------------------------------------------------------------
(* Every action has such an effect *)

\* A handler at work, by its place.
LEMMA Busy ==
  ASSUME IInv, NEW r \in Handlers, pc[r] # "idle"
  PROVE  /\ body[r] \in Body /\ WellFormed(body[r]) /\ body[r] # None
         /\ Owner(r) \in Owners /\ Kind(r) \in Kinds
         /\ body[r].image \in Files \cup {None} /\ body[r].status \in Statuses \cup {None}
         /\ Kind(r) = "logo" <=> Owner(r) = Tenant
         /\ Kind(r) # "logo" => Owner(r) \in Products
         /\ Asks(r) /\ Holds(r)
BY DEF IInv, Local, Asks, Body, WellFormed, Owner, Kind, Owners

\* Only the handler itself moves.
LEMMA OthersStay ==
  ASSUME NEW r \in Handlers, NEW l, NEW b, NEW s, NEW n, NEW g, Now(r, l, b, s, n, g)
  PROVE  \A q \in Handlers \ {r} :
           /\ pc'[q] = pc[q] /\ body'[q] = body[q] /\ seen'[q] = seen[q]
           /\ new'[q] = new[q] /\ left'[q] = left[q] /\ Read(q)' = Read(q)
BY DEF Now, Read, Kind

\* A step that ends the request drops what it has in hand.
LEMMA DoneEffect ==
  ASSUME IInv, NEW r \in Handlers, Done(r)
  PROVE  Stands(r)' /\ Read(r)' = {} /\ new'[r] = {} /\ left'[r] = {}
BY DEF Done, Now, Stands, Idle, Read

LEMMA ReceiveStep ==
  ASSUME IInv, NEW r \in Handlers, Receive(r) PROVE TypeOK' /\ Effect(r)
<1>1. PICK b \in Body : WellFormed(b) /\ body' = [body EXCEPT ![r] = b]
  BY DEF Receive
<1>2. Now(r, "read", b, None, {}, {}) /\ pc[r] = "idle" /\ body[r] = None /\ seen[r] = None
      /\ new[r] = {} /\ left[r] = {}
  BY <1>1 DEF IInv, TypeOK, Receive, At, Goto, Now, Local, Idle
<1>3. TypeOK'
  BY <1>1 DEF IInv, TypeOK, Receive, Goto, store, database, observers
<1>4. Gains(r)
  BY <1>2, OthersStay DEF IInv, TypeOK, Gains, Now, Read, Receive, store, database
<1>5. Touches(r)
  BY <1>2, OthersStay DEF Touches, Now, Receive, store, database, observers
<1>6. Stands(r)'
  BY <1>1, <1>2 DEF Stands, Asks, Holds, Now, Owner, Kind
<1>7. Conserves(r)
  BY <1>2 DEF Conserves, Now, Named, Receive, store, database, observers
<1> QED
  BY <1>3, <1>4, <1>5, <1>6, <1>7 DEF Effect

LEMMA ReadRowStep ==
  ASSUME IInv, NEW r \in Handlers, ReadRow(r) PROVE TypeOK' /\ Effect(r)
<1>1. pc[r] = "read"
  BY DEF ReadRow, At
<1>0. Holds(r) /\ Kind(r) \in Kinds /\ (Kind(r) = "logo" <=> Owner(r) = Tenant)
  BY <1>1, Busy
<1> DEFINE s == IF Kind(r) = "logo" THEN [EmptyRow EXCEPT !.thumb = logo] ELSE row[Owner(r)]
           l == FirstStep(Kind(r))
<1>2. s \in Row /\ (Kind(r) = "logo" => s.thumb = logo) /\ (Kind(r) # "logo" => s = row[Owner(r)])
  BY <1>1, Busy DEF IInv, TypeOK, Row, EmptyRow, Statuses
<1>3. /\ l \in {"save", "lock", "write"}
      /\ l = "save" => Kind(r) \in UploadKinds
      /\ l = "lock" => Kind(r) = "remove"
      /\ l = "write" => Kind(r) \in {"choose", "edit", "status"}
  BY <1>0, ImagesAssumption DEF FirstStep, UploadKinds, ProductKinds
<1>4. Now(r, l, body[r], s, {}, {}) /\ new[r] = {} /\ left[r] = {}
  BY <1>0, <1>1 DEF IInv, TypeOK, ReadRow, Goto, Now, Mine, Holds
<1>5. TypeOK'
  BY <1>2, <1>3 DEF IInv, TypeOK, ReadRow, Goto, Mine, store, database, observers
<1>6. Read(r)' \subseteq Images \cup {logo}
  BY <1>1, <1>2, <1>4, Busy DEF Read, Images, Now, Kind
<1>7. Gains(r)
  BY <1>4, <1>6, OthersStay DEF IInv, TypeOK, Gains, Now, ReadRow, store, database
<1>8. Touches(r)
  BY <1>4, OthersStay DEF Touches, Now, ReadRow, store, database, observers
<1>9. Stands(r)'
  BY <1>1, <1>2, <1>3, <1>4, Busy DEF Stands, Asks, Holds, Now, Owner, Kind
<1>10. Conserves(r)
  BY <1>1, <1>4 DEF Conserves, Now, Named, ReadRow, store, database, observers
<1> QED
  BY <1>5, <1>7, <1>8, <1>9, <1>10 DEF Effect

LEMMA SaveFileStep ==
  ASSUME IInv, NEW r \in Handlers, SaveFile(r) PROVE TypeOK' /\ Effect(r)
<1>1. pc[r] = "save"
  BY DEF SaveFile, At
<1>0. Asks(r) /\ Holds(r) /\ Owner(r) \in Owners /\ left[r] = {}
  BY <1>1, Busy DEF Holds
<1>2. PICK f \in Files \ used :
        /\ files' = [files EXCEPT ![Owner(r)] = @ \cup {f}]
        /\ used' = used \cup {f}
        /\ new' = [new EXCEPT ![r] = @ \cup {f}]
  BY DEF SaveFile
<1>3. PICK l \in {"save", AfterUpload(r)} :
        (Kind(r) \in {"thumbnail", "logo"} => l # "save") /\ Goto(r, l)
  BY DEF SaveFile
<1>4. /\ l \in {"save", "lock", "write"}
      /\ l = "write" => Kind(r) = "logo"
      /\ l = "lock" => Kind(r) \in {"add", "thumbnail", "replace"}
  BY <1>0, <1>1 DEF AfterUpload, Asks, UploadKinds
<1>5. Now(r, l, body[r], seen[r], new[r] \cup {f}, {})
  BY <1>0, <1>2, <1>3, <1>4 DEF IInv, TypeOK, SaveFile, Goto, Now
<1>6. files' \in [Owners -> SUBSET Files] /\ files'[Owner(r)] = files[Owner(r)] \cup {f}
      /\ \A o \in Owners \ {Owner(r)} : files'[o] = files[o]
  BY <1>0, <1>2 DEF IInv, TypeOK
<1>7. TypeOK'
  BY <1>2, <1>3, <1>4, <1>6 DEF IInv, TypeOK, SaveFile, Goto, database, observers
<1>8. Gains(r)
  BY <1>2, <1>5, OthersStay DEF IInv, TypeOK, Gains, Now, Read, Kind, SaveFile, database
<1>9. Touches(r)
  BY <1>5, <1>6, OthersStay DEF Touches, Now, SaveFile, database, observers
<1>10. Stands(r)'
  <2>1. Asks(r)'
    BY <1>0, <1>1, <1>4, <1>5 DEF Asks, Now, Kind
  <2>2. Holds(r)'
    BY <1>0, <1>1, <1>4, <1>5, <1>3 DEF Asks, Holds, Now, Kind
  <2>3. Owner(r) \in condemned \/ new[r] \subseteq files[Owner(r)]
    BY <1>1 DEF IInv, NewIsStored
  <2> QED
    BY <1>4, <1>5, <1>6, <2>1, <2>2, <2>3 DEF Stands, Now, Owner, SaveFile, observers
<1>11. Conserves(r)
  BY <1>1, <1>5, <1>4, <1>6 DEF Conserves, Now, Named, SaveFile, database, observers
<1> QED
  BY <1>7, <1>8, <1>9, <1>10, <1>11 DEF Effect

LEMMA SaveFailsStep ==
  ASSUME IInv, NEW r \in Handlers, SaveFails(r) PROVE TypeOK' /\ Effect(r)
<1>1. pc[r] = "save"
  BY DEF SaveFails, At
<1>0. Asks(r) /\ Holds(r) /\ Owner(r) \in Owners /\ left[r] = {}
  BY <1>1, Busy DEF Holds
<1>2. PICK part \in {{}} \cup {{f} : f \in Files \ used} :
        /\ files' = [files EXCEPT ![Owner(r)] = @ \cup part]
        /\ used' = used \cup part
        /\ leaked' = leaked \cup new[r] \cup part
  BY DEF SaveFails
<1>3. part \subseteq Files
  OBVIOUS
<1>4. Done(r) /\ HandlerTypes'
  BY FinishNow DEF IInv, SaveFails
<1>5. files' \in [Owners -> SUBSET Files] /\ files'[Owner(r)] = files[Owner(r)] \cup part
      /\ \A o \in Owners \ {Owner(r)} : files'[o] = files[o]
  BY <1>0, <1>2, <1>3 DEF IInv, TypeOK
<1>6. TypeOK'
  BY <1>2, <1>3, <1>4, <1>5 DEF IInv, TypeOK, HandlerTypes, SaveFails, database
<1>7. Gains(r)
  BY <1>2, <1>3, <1>4, OthersStay, DoneEffect DEF IInv, TypeOK, Gains, Done, SaveFails, database
<1>8. Touches(r)
  BY <1>4, <1>5, OthersStay DEF Touches, Done, Now, SaveFails, database
<1>9. Conserves(r)
  BY <1>0, <1>1, <1>2, <1>4, <1>5 DEF Conserves, Done, Now, Named, SaveFails, database
<1> QED
  BY <1>4, <1>6, <1>7, <1>8, <1>9, DoneEffect DEF Effect

LEMMA LockRowStep ==
  ASSUME IInv, NEW r \in Handlers, LockRow(r) PROVE TypeOK' /\ Effect(r)
<1>1. pc[r] = "lock" /\ lock[Owner(r)] = None
  BY DEF LockRow, At, Free
<1>0. Asks(r) /\ Holds(r) /\ Owner(r) \in Products /\ left[r] = {}
  BY <1>1, Busy DEF Holds, Asks
<1>2. Now(r, "locked", body[r], seen[r], new[r], {})
  BY <1>0 DEF IInv, TypeOK, LockRow, Goto, Now
<1>3. /\ lock' \in [Products -> Handlers \cup {None}] /\ lock'[Owner(r)] = r
      /\ \A p \in Products \ {Owner(r)} : lock'[p] = lock[p]
  BY <1>0 DEF IInv, TypeOK, LockRow
<1>4. TypeOK'
  BY <1>3 DEF IInv, TypeOK, LockRow, Goto, store, database, observers
<1>5. Gains(r)
  BY <1>2, OthersStay DEF IInv, TypeOK, Gains, Now, Read, Kind, LockRow, store, database
<1>6. Touches(r)
  BY <1>1, <1>2, <1>3, OthersStay, ImagesAssumption DEF Touches, Now, LockRow, store, database, observers
<1>7. Stands(r)'
  <2>1. Asks(r)' /\ Holds(r)'
    BY <1>0, <1>1, <1>2, <1>3 DEF Asks, Holds, Now, Kind, Owner
  <2>2. Owner(r) \in condemned \/ new[r] \subseteq files[Owner(r)]
    BY <1>1 DEF IInv, NewIsStored
  <2> QED
    BY <1>2, <2>1, <2>2 DEF Stands, Now, Owner, LockRow, store, observers
<1>8. Conserves(r)
  BY <1>1, <1>2 DEF Conserves, Now, Named, LockRow, store, database, observers
<1> QED
  BY <1>4, <1>5, <1>6, <1>7, <1>8 DEF Effect

\* What a transaction starts from, and what its end leaves to show.
LEMMA InTransaction ==
  ASSUME IInv, NEW r \in Handlers, pc[r] = "locked"
  PROVE  /\ Asks(r) /\ Holds(r) /\ Owner(r) \in Products /\ Owner(r) # Tenant /\ left[r] = {}
         /\ row[Owner(r)] \in Row /\ seen[r] \in Row /\ new[r] \in SUBSET Files
         /\ Owner(r) \in condemned \/ new[r] \subseteq files[Owner(r)]
         /\ Named(Owner(r)) = row[Owner(r)].images
BY Busy DEF Asks, Holds, IInv, TypeOK, NewIsStored, Named

\* The end of a transaction: the images of the product change, uploads become named.
LEMMA Committed ==
  ASSUME IInv, NEW r \in Handlers, pc[r] = "locked", Unlock(r),
         NEW images \in SUBSET Files, NEW thumb \in Files \cup {None}, SetImages(r, images, thumb),
         images \subseteq Mine(r).images \cup new[r],
         UNCHANGED <<store, logo, condemned>>, unsure \subseteq unsure', leaked \subseteq leaked',
         unsure' \subseteq Files, leaked' \subseteq Files, HandlerTypes',
         NEW l, NEW s, NEW b, NEW g, Now(r, l, b, s, {}, g),
         b \in {body[r], None}, l # "idle" => b = body[r],
         g \subseteq new[r] \cup (Read(r) \ {None}) \cup Mine(r).images,
         Read(r)' \subseteq Read(r) \cup Mine(r).images \cup new[r] \cup {None},
         Mine(r).images \cup new[r] \subseteq images \cup g \cup leaked',
         g # {} => l # "idle"
  PROVE  TypeOK' /\ Gains(r) /\ Touches(r) /\ Conserves(r)
<1>0. Owner(r) \in Products /\ Owner(r) # Tenant /\ left[r] = {} /\ Named(Owner(r)) = Mine(r).images
  BY InTransaction DEF Mine
<1>1. /\ row' \in [Products -> Row] /\ row'[Owner(r)].images = images
      /\ \A p \in Products \ {Owner(r)} : row'[p] = row[p]
  BY <1>0, ListSet DEF IInv
<1>2. TypeOK'
  BY <1>1, Unlocked DEF IInv, TypeOK, HandlerTypes, store
<1>3. Gains(r)
  <2>1. Mine(r).images \subseteq Images
    BY <1>0 DEF Images, Mine
  <2>2. \A p \in Products : row'[p].images \subseteq row[p].images \cup new[r]
    BY <1>1 DEF Mine
  <2> QED
    BY <2>1, <2>2, OthersStay DEF IInv, TypeOK, Gains, Now, store
<1>4. Touches(r)
  BY <1>1, Unlocked, OthersStay DEF IInv, Touches, Now, store
<1>5. Conserves(r)
  <2>1. \A o \in Owners \ {Owner(r)} : Named(o)' = Named(o)
    BY <1>1 DEF Named, Owners
  <2>2. \A o \in Owners : o = Owner(r) => Named(o)' = images
    BY <1>0, <1>1 DEF Named
  <2> QED
    BY <1>0, <2>1, <2>2 DEF Conserves, Now, store
<1> QED
  BY <1>2, <1>3, <1>4, <1>5

\* A commit that looked like a failure: the uploads are named, and deleted next.
LEMMA LostNow ==
  ASSUME IInv, NEW r \in Handlers, Lost(r)
  PROVE  /\ HandlerTypes' /\ unsure' = unsure \cup new[r]
         /\ \/ new[r] = {} /\ Done(r)
            \/ new[r] # {} /\ Now(r, "erase", body[r], seen[r], {}, new[r])
BY EraseNow DEF IInv, TypeOK, Lost, Undo

\* A handler that goes on to delete files.
LEMMA ErasingStands ==
  ASSUME IInv, NEW r \in Handlers, pc[r] # "idle", NEW g,
         Now(r, "erase", body[r], seen[r], {}, g), g \cap Named(Owner(r))' \subseteq unsure',
         body'[r] = body[r]
  PROVE  Stands(r)' /\ Read(r)' = Read(r)
<1>1. Asks(r)' /\ Holds(r)'
  BY Busy DEF Asks, Holds, Now, Kind
<1> QED
  BY <1>1 DEF Stands, Now, Read, Kind, Owner

\* Only uploads bring files.
LEMMA UploadsOnly ==
  ASSUME IInv, NEW r \in Handlers, pc[r] # "idle", Kind(r) \notin UploadKinds
  PROVE  new[r] = {}
BY Busy DEF Holds

LEMMA AppendStep ==
  ASSUME IInv, NEW r \in Handlers, AppendProductImages(r) PROVE TypeOK' /\ Effect(r)
<1>1. pc[r] = "locked" /\ Kind(r) = "add"
  BY DEF AppendProductImages, InTx, At
<1> DEFINE all == Mine(r).images \cup new[r]
<1>0. /\ Mine(r).images \in SUBSET Files /\ all \in SUBSET Files /\ Mine(r).thumb \in Files \cup {None}
      /\ Owner(r) \in Products /\ seen[r] \in Row /\ Asks(r) /\ Holds(r) /\ left[r] = {} /\ seen[r] # None
      /\ body[r] # None /\ new[r] \in SUBSET Files
  BY <1>1, InTransaction, Busy, ImagesAssumption DEF Mine, Row
<1>2. /\ SetImages(r, all, Mine(r).thumb) /\ Unlock(r) /\ UNCHANGED <<store, logo, condemned, leaked>>
  BY DEF AppendProductImages
<1>t. unsure \in SUBSET Files /\ leaked \in SUBSET Files
  BY DEF IInv, TypeOK
<1>3. CASE Finish(r) /\ UNCHANGED unsure
  <2>1. Done(r) /\ HandlerTypes'
    BY <1>3, FinishNow DEF IInv
  <2>2. Stands(r)' /\ Read(r)' = {}
    BY <2>1, DoneEffect
  <2>3. TypeOK' /\ Gains(r) /\ Touches(r) /\ Conserves(r)
    BY <1>0, <1>1, <1>2, <1>3, <1>t, <2>1, <2>2, Committed DEF Done
  <2> QED
    BY <2>2, <2>3 DEF Effect
<1>4. CASE /\ Goto(r, "write")
           /\ seen' = [seen EXCEPT ![r].images = all]
           /\ new' = [new EXCEPT ![r] = {}]
           /\ UNCHANGED <<body, left, unsure>>
  <2> DEFINE s == [seen[r] EXCEPT !.images = all]
  <2>1. s \in Row /\ s.images = all /\ s # None
    BY <1>0, ImagesAssumption DEF Row
  <2>2. HandlerTypes' /\ Now(r, "write", body[r], s, {}, {})
    BY <1>0, <1>4, <2>1 DEF IInv, TypeOK, HandlerTypes, Goto, Now
  <2>3. Read(r)' = all
    BY <1>1, <2>1, <2>2 DEF Read, Now, Kind
  <2>4. TypeOK' /\ Gains(r) /\ Touches(r) /\ Conserves(r)
    BY <1>0, <1>1, <1>2, <1>4, <1>t, <2>2, <2>3, Committed
  <2>5. Stands(r)'
    BY <1>0, <1>1, <2>1, <2>2 DEF Stands, Asks, Holds, Now, Kind, Owner
  <2> QED
    BY <2>4, <2>5 DEF Effect
<1>5. CASE Lost(r)
  <2>1. HandlerTypes' /\ unsure' = unsure \cup new[r]
    BY <1>5, LostNow
  <2>2. CASE Done(r) /\ new[r] = {}
    <3>1. Stands(r)' /\ Read(r)' = {}
      BY <2>2, DoneEffect
    <3>2. TypeOK' /\ Gains(r) /\ Touches(r) /\ Conserves(r)
      BY <1>0, <1>1, <1>2, <1>t, <2>1, <2>2, <3>1, Committed DEF Done
    <3> QED
      BY <3>1, <3>2 DEF Effect
  <2>3. CASE Now(r, "erase", body[r], seen[r], {}, new[r])
    <3>1. Stands(r)' /\ Read(r)' = Read(r)
      BY <1>1, <2>1, <2>3, ErasingStands DEF Now
    <3>2. TypeOK' /\ Gains(r) /\ Touches(r) /\ Conserves(r)
      BY <1>0, <1>1, <1>2, <1>t, <2>1, <2>3, <3>1, Committed
    <3> QED
      BY <3>1, <3>2 DEF Effect
  <2> QED
    BY <1>5, <2>2, <2>3, LostNow
<1> QED
  BY <1>3, <1>4, <1>5 DEF AppendProductImages

LEMMA PrependStep ==
  ASSUME IInv, NEW r \in Handlers, PrependImageAndSetThumbnail(r) PROVE TypeOK' /\ Effect(r)
<1>1. pc[r] = "locked" /\ Kind(r) = "thumbnail"
  BY DEF PrependImageAndSetThumbnail, InTx, At
<1>2. PICK f \in new[r] : SetImages(r, Mine(r).images \cup {f}, f)
  BY DEF PrependImageAndSetThumbnail
<1> DEFINE all == Mine(r).images \cup {f}
<1>0. /\ Mine(r).images \in SUBSET Files /\ all \in SUBSET Files /\ f \in Files /\ new[r] = {f}
      /\ body[r] # None /\ new[r] \in SUBSET Files
  BY <1>1, InTransaction, Busy DEF Mine, Row, Holds
<1>3. Unlock(r) /\ UNCHANGED <<store, logo, condemned, leaked>>
  BY DEF PrependImageAndSetThumbnail
<1>t. unsure \in SUBSET Files /\ leaked \in SUBSET Files
  BY DEF IInv, TypeOK
<1>4. CASE Finish(r) /\ UNCHANGED unsure
  <2>1. Done(r) /\ HandlerTypes'
    BY <1>4, FinishNow DEF IInv
  <2>2. Stands(r)' /\ Read(r)' = {}
    BY <2>1, DoneEffect
  <2>3. TypeOK' /\ Gains(r) /\ Touches(r) /\ Conserves(r)
    BY <1>0, <1>1, <1>2, <1>3, <1>4, <1>t, <2>1, <2>2, Committed DEF Done
  <2> QED
    BY <2>2, <2>3 DEF Effect
<1>5. CASE Lost(r)
  <2>1. HandlerTypes' /\ unsure' = unsure \cup new[r] /\ Now(r, "erase", body[r], seen[r], {}, new[r])
    BY <1>0, <1>5, LostNow
  <2>2. Stands(r)' /\ Read(r)' = Read(r)
    BY <1>1, <2>1, ErasingStands DEF Now
  <2>3. TypeOK' /\ Gains(r) /\ Touches(r) /\ Conserves(r)
    BY <1>0, <1>1, <1>2, <1>3, <1>t, <2>1, <2>2, Committed
  <2> QED
    BY <2>2, <2>3 DEF Effect
<1> QED
  BY <1>4, <1>5 DEF PrependImageAndSetThumbnail

LEMMA ReplaceStep ==
  ASSUME IInv, NEW r \in Handlers, UpdateProductImages(r) PROVE TypeOK' /\ Effect(r)
<1>1. pc[r] = "locked" /\ Kind(r) = "replace"
  BY DEF UpdateProductImages, InTx, At
<1>2. PICK t \in selectThumbnail(seen[r].thumb, new[r]) : SetImages(r, new[r], t)
  BY DEF UpdateProductImages
<1> DEFINE old == Mine(r).images
           known == seen[r].images
<1>0. /\ old \in SUBSET Files /\ known \in SUBSET Files /\ t \in Files \cup {None}
      /\ body[r] # None /\ new[r] \in SUBSET Files /\ Owner(r) \in Products
  BY <1>1, InTransaction, Busy, Selected DEF Mine, Row
<1>3. Unlock(r) /\ UNCHANGED <<store, logo, condemned>>
  BY DEF UpdateProductImages
<1>4. Read(r) = known /\ None \notin known
  BY <1>0, <1>1, InTransaction, ImagesAssumption DEF Read
<1>t. unsure \in SUBSET Files /\ leaked \in SUBSET Files
  BY DEF IInv, TypeOK
<1>5. CASE Erase(r, known) /\ leaked' = leaked \cup (old \ known) /\ UNCHANGED unsure
  <2>1. HandlerTypes'
    BY <1>0, <1>5, EraseNow DEF IInv
  <2>2. CASE known = {} /\ Done(r)
    <3>1. Stands(r)' /\ Read(r)' = {}
      BY <2>2, DoneEffect
    <3>2. TypeOK' /\ Gains(r) /\ Touches(r) /\ Conserves(r)
      BY <1>0, <1>1, <1>2, <1>3, <1>5, <1>t, <2>1, <2>2, <3>1, Committed DEF Done
    <3> QED
      BY <3>1, <3>2 DEF Effect
  <2>3. CASE Now(r, "erase", body[r], seen[r], {}, known)
    <3>1. row'[Owner(r)].images = new[r] /\ body'[r] = body[r]
      BY <1>0, <1>2, <2>3, ListSet DEF IInv, Now
    <3>2. known \cap Named(Owner(r))' = {}
      BY <1>0, <1>4, <3>1 DEF Named, Owner, IInv, NewIsPrivate
    <3>3. Stands(r)' /\ Read(r)' = Read(r)
      BY <1>1, <2>3, <3>1, <3>2, ErasingStands
    <3>4. TypeOK' /\ Gains(r) /\ Touches(r) /\ Conserves(r)
      BY <1>0, <1>1, <1>2, <1>3, <1>4, <1>5, <1>t, <2>1, <2>3, <3>3, Committed
    <3> QED
      BY <3>3, <3>4 DEF Effect
  <2> QED
    BY <1>0, <1>5, <2>2, <2>3, EraseNow DEF IInv
<1>6. CASE Lost(r) /\ leaked' = leaked \cup old
  <2>1. HandlerTypes' /\ unsure' = unsure \cup new[r]
    BY <1>6, LostNow
  <2>2. CASE Done(r) /\ new[r] = {}
    <3>1. Stands(r)' /\ Read(r)' = {}
      BY <2>2, DoneEffect
    <3>2. TypeOK' /\ Gains(r) /\ Touches(r) /\ Conserves(r)
      BY <1>0, <1>1, <1>2, <1>3, <1>6, <1>t, <2>1, <2>2, <3>1, Committed DEF Done
    <3> QED
      BY <3>1, <3>2 DEF Effect
  <2>3. CASE Now(r, "erase", body[r], seen[r], {}, new[r])
    <3>1. Stands(r)' /\ Read(r)' = Read(r)
      BY <1>1, <2>1, <2>3, ErasingStands DEF Now
    <3>2. TypeOK' /\ Gains(r) /\ Touches(r) /\ Conserves(r)
      BY <1>0, <1>1, <1>2, <1>3, <1>6, <1>t, <2>1, <2>3, <3>1, Committed
    <3> QED
      BY <3>1, <3>2 DEF Effect
  <2> QED
    BY <1>6, <2>2, <2>3, LostNow
<1> QED
  BY <1>5, <1>6 DEF UpdateProductImages

LEMMA RemoveStep ==
  ASSUME IInv, NEW r \in Handlers, RemoveProductImage(r) PROVE TypeOK' /\ Effect(r)
<1>1. pc[r] = "locked" /\ Kind(r) = "remove"
  BY DEF RemoveProductImage, InTx, At
<1> DEFINE f == body[r].image
           rest == Mine(r).images \ {f}
<1>2. PICK t \in selectThumbnail(Mine(r).thumb, rest) : SetImages(r, rest, t)
  BY DEF RemoveProductImage
<1>0. /\ Mine(r).images \in SUBSET Files /\ rest \in SUBSET Files /\ t \in Files \cup {None}
      /\ f \in Mine(r).images /\ new[r] = {} /\ body[r] # None /\ Owner(r) \in Products
  <2>1. t \in rest \cup {None} /\ f \in Mine(r).images
    BY Selected DEF RemoveProductImage
  <2>2. Mine(r).images \in SUBSET Files /\ body[r] # None /\ Owner(r) \in Products
    BY <1>1, InTransaction, Busy DEF Mine, Row
  <2>3. new[r] = {}
    BY <1>1, UploadsOnly DEF UploadKinds
  <2> QED
    BY <2>1, <2>2, <2>3
<1>3. Unlock(r) /\ UNCHANGED <<store, logo, condemned, unsure>>
  BY DEF RemoveProductImage
<1>t. unsure \in SUBSET Files /\ leaked \in SUBSET Files
  BY DEF IInv, TypeOK
<1>4. CASE Erase(r, {f}) /\ UNCHANGED leaked
  <2>1. HandlerTypes' /\ Now(r, "erase", body[r], seen[r], {}, {f})
    BY <1>0, <1>4, EraseNow DEF IInv
  <2>2. row'[Owner(r)].images = rest /\ body'[r] = body[r]
    BY <1>0, <1>2, <2>1, ListSet DEF IInv, Now
  <2>3. {f} \cap Named(Owner(r))' = {}
    BY <1>0, <2>2 DEF Named, Owner
  <2>4. Stands(r)' /\ Read(r)' = Read(r)
    BY <1>1, <2>1, <2>2, <2>3, ErasingStands
  <2>5. TypeOK' /\ Gains(r) /\ Touches(r) /\ Conserves(r)
    BY <1>0, <1>1, <1>2, <1>3, <1>4, <1>t, <2>1, <2>4, Committed
  <2> QED
    BY <2>4, <2>5 DEF Effect
<1>5. CASE Finish(r) /\ leaked' = leaked \cup {f}
  <2>1. Done(r) /\ HandlerTypes'
    BY <1>5, FinishNow DEF IInv
  <2>2. Stands(r)' /\ Read(r)' = {}
    BY <2>1, DoneEffect
  <2>3. TypeOK' /\ Gains(r) /\ Touches(r) /\ Conserves(r)
    BY <1>0, <1>1, <1>2, <1>3, <1>5, <1>t, <2>1, <2>2, Committed DEF Done
  <2> QED
    BY <2>2, <2>3 DEF Effect
<1> QED
  BY <1>4, <1>5 DEF RemoveProductImage

\* A step that changes no row and no file but ends the request of a handler that has
\* nothing in hand, or gives it away.
LEMMA QuietEnd ==
  ASSUME IInv, NEW r \in Handlers, Done(r), HandlerTypes', UNCHANGED <<store, database>>,
         lock' \in [Products -> Handlers \cup {None}],
         \A s \in Handlers \ {r}, p \in Products : lock[p] = s => lock'[p] = s,
         UNCHANGED <<condemned, unsure>>, pc[r] # "idle",
         leaked' \subseteq Files, leaked \cup new[r] \cup left[r] \subseteq leaked'
  PROVE  TypeOK' /\ Effect(r)
<1>1. Stands(r)' /\ Read(r)' = {}
  BY DoneEffect
<1>2. TypeOK'
  BY DEF IInv, TypeOK, HandlerTypes, store, database
<1>3. Gains(r)
  BY <1>1, OthersStay DEF IInv, TypeOK, Gains, Done, Now, store, database
<1>4. Touches(r)
  BY OthersStay DEF Touches, Done, Now, store, database
<1>5. Conserves(r)
  BY DEF Conserves, Done, Now, Named, store, database
<1> QED
  BY <1>1, <1>2, <1>3, <1>4, <1>5 DEF Effect

LEMMA RefuseRemovalStep ==
  ASSUME IInv, NEW r \in Handlers, RefuseRemoval(r) PROVE TypeOK' /\ Effect(r)
<1>1. pc[r] = "locked" /\ Kind(r) = "remove"
  BY DEF RefuseRemoval, InTx, At
<1>2. new[r] = {} /\ left[r] = {}
  BY <1>1, UploadsOnly, InTransaction DEF UploadKinds
<1>3. Done(r) /\ HandlerTypes'
  BY FinishNow DEF IInv, RefuseRemoval
<1> QED
  BY <1>1, <1>2, <1>3, Unlocked, QuietEnd DEF IInv, TypeOK, RefuseRemoval, observers

LEMMA CrashStep ==
  ASSUME IInv, NEW r \in Handlers, Crash(r) PROVE TypeOK' /\ Effect(r)
<1>1. Done(r) /\ HandlerTypes'
  BY FinishNow DEF IInv, Crash
<1> QED
  BY <1>1, Unlocked, QuietEnd DEF IInv, TypeOK, Crash, At

LEMMA RefuseChoiceStep ==
  ASSUME IInv, NEW r \in Handlers, RefuseChoice(r) PROVE TypeOK' /\ Effect(r)
<1>1. pc[r] = "write" /\ Kind(r) = "choose"
  BY DEF RefuseChoice, Writes, At
<1>2. new[r] = {} /\ left[r] = {}
  BY <1>1, UploadsOnly, Busy DEF UploadKinds, Holds
<1>3. Done(r) /\ HandlerTypes'
  BY FinishNow DEF IInv, RefuseChoice
<1> QED
  BY <1>1, <1>2, <1>3, QuietEnd DEF IInv, TypeOK, RefuseChoice, observers

\* A statement on a product leaves its images alone.
LEMMA ImagesUntouched ==
  ASSUME IInv, NEW r \in Handlers, pc[r] = "write", Kind(r) \in {"choose", "add", "edit", "status"},
         UNCHANGED <<store, logo, lock, unsure, leaked>>,
         row' \in [Products -> Row], \A p \in Products : row'[p].images = row[p].images,
         condemned' \in {condemned, condemned \cup {Owner(r)}},
         \/ Done(r)
         \/ Now(r, "wipe", body[r], seen[r], {}, {}) /\ Owner(r) \in condemned' /\ Kind(r) \in {"edit", "status"},
         HandlerTypes'
  PROVE  TypeOK' /\ Effect(r)
<1>0. Owner(r) \in Products /\ new[r] = {} /\ left[r] = {} /\ Asks(r) /\ body[r] # None
  BY Busy DEF Holds
<1>1. Stands(r)' /\ Read(r)' \subseteq Read(r)
  <2>1. CASE Done(r)
    BY <2>1, DoneEffect
  <2>2. CASE Now(r, "wipe", body[r], seen[r], {}, {}) /\ Owner(r) \in condemned' /\ Kind(r) \in {"edit", "status"}
    BY <1>0, <2>2 DEF Stands, Asks, Holds, Now, Kind, Owner, Read
  <2> QED
    BY <2>1, <2>2
<1>2. TypeOK'
  BY <1>0 DEF IInv, TypeOK, HandlerTypes, store
<1>3. /\ \A q \in Handlers \ {r} : /\ pc'[q] = pc[q] /\ body'[q] = body[q] /\ seen'[q] = seen[q]
                                   /\ new'[q] = new[q] /\ left'[q] = left[q] /\ Read(q)' = Read(q)
      /\ new'[r] = {} /\ left'[r] = {} /\ body'[r] \in {body[r], None}
      /\ pc'[r] # "idle" => body'[r] = body[r]
  BY OthersStay DEF Done, Now
<1>4. Gains(r)
  BY <1>1, <1>3 DEF IInv, TypeOK, Gains, store
<1>5. Touches(r)
  BY <1>3 DEF Touches, store
<1>6. Conserves(r)
  BY <1>0, <1>3 DEF Conserves, Named, store, Owners
<1> QED
  BY <1>1, <1>2, <1>4, <1>5, <1>6 DEF Effect

LEMMA ThumbnailStep ==
  ASSUME IInv, NEW r \in Handlers, UpdateProductThumbnail(r) PROVE TypeOK' /\ Effect(r)
<1>1. pc[r] = "write" /\ Kind(r) \in {"choose", "add"}
  BY DEF UpdateProductThumbnail, Writes, At
<1>2. PICK t \in IF Kind(r) = "choose" THEN {body[r].image}
                 ELSE selectThumbnail(seen[r].thumb, seen[r].images) :
        row' = [row EXCEPT ![Owner(r)].thumb = t]
  BY DEF UpdateProductThumbnail
<1>3. Owner(r) \in Products /\ t \in Files \cup {None}
  <2>1. seen[r].images \in SUBSET Files /\ Owner(r) \in Products /\ body[r].image \in Files \cup {None}
    BY <1>1, Busy DEF Asks, Row
  <2> QED
    BY <2>1, Selected
<1>4. row' \in [Products -> Row] /\ \A p \in Products : row'[p].images = row[p].images
  BY <1>2, <1>3 DEF IInv, TypeOK, Row
<1>5. Done(r) /\ HandlerTypes'
  BY FinishNow DEF IInv, UpdateProductThumbnail
<1> QED
  BY <1>1, <1>4, <1>5, ImagesUntouched DEF UpdateProductThumbnail, observers

\* After a change of status: the request ends, or the directory is to be removed.
LEMMA StatusEnd ==
  ASSUME IInv, NEW r \in Handlers, pc[r] = "write", Kind(r) \in {"edit", "status"}, NEW status \in Statuses,
         cleanupImagesIfDeleted(r, status) \/ Unanswered(r, status)
  PROVE  /\ condemned' \in {condemned, condemned \cup {Owner(r)}} /\ HandlerTypes'
         /\ \/ Done(r)
            \/ Now(r, "wipe", body[r], seen[r], {}, {}) /\ Owner(r) \in condemned'
<1>0. new[r] = {} /\ left[r] = {}
  BY Busy DEF Holds
<1>1. CASE Finish(r)
  BY <1>1, FinishNow DEF IInv, cleanupImagesIfDeleted, Unanswered
<1>2. CASE ~Finish(r)
  BY <1>0, <1>2 DEF IInv, TypeOK, cleanupImagesIfDeleted, Unanswered, Goto, Now, HandlerTypes
<1> QED
  BY <1>1, <1>2

LEMMA UpdateProductStep ==
  ASSUME IInv, NEW r \in Handlers, UpdateProduct(r) PROVE TypeOK' /\ Effect(r)
<1>1. pc[r] = "write" /\ Kind(r) = "edit"
  BY DEF UpdateProduct, Writes, At
<1>2. NewStatus(r) \in Statuses /\ seen[r].thumb \in Files \cup {None} /\ Owner(r) \in Products
  BY <1>1, Busy DEF Asks, Row, NewStatus
<1>3. /\ row' = [row EXCEPT ![Owner(r)] =
           [images |-> row[Owner(r)].images, thumb |-> seen[r].thumb, status |-> NewStatus(r)]]
      /\ cleanupImagesIfDeleted(r, NewStatus(r)) \/ Unanswered(r, NewStatus(r))
  BY DEF UpdateProduct, Mine
<1>4. row' \in [Products -> Row] /\ \A p \in Products : row'[p].images = row[p].images
  BY <1>2, <1>3 DEF IInv, TypeOK, Row
<1> QED
  BY <1>1, <1>2, <1>3, <1>4, StatusEnd, ImagesUntouched DEF UpdateProduct

LEMMA UpdateStatusStep ==
  ASSUME IInv, NEW r \in Handlers, UpdateProductStatus(r) PROVE TypeOK' /\ Effect(r)
<1>1. pc[r] = "write" /\ Kind(r) = "status"
  BY DEF UpdateProductStatus, Writes, At
<1>2. body[r].status \in Statuses /\ Owner(r) \in Products
  BY <1>1, Busy DEF WellFormed, Kind
<1>3. row' \in [Products -> Row] /\ \A p \in Products : row'[p].images = row[p].images
  BY <1>2 DEF IInv, TypeOK, Row, UpdateProductStatus
<1> QED
  BY <1>1, <1>2, <1>3, StatusEnd, ImagesUntouched DEF UpdateProductStatus

LEMMA LogoStep ==
  ASSUME IInv, NEW r \in Handlers, UpdateTenantLogoURL(r) PROVE TypeOK' /\ Effect(r)
<1>1. pc[r] = "write" /\ Kind(r) = "logo"
  BY DEF UpdateTenantLogoURL, Writes, At
<1>2. PICK f \in new[r] : logo' = f
  BY DEF UpdateTenantLogoURL
<1> DEFINE old == {seen[r].thumb} \ {None}
<1>0. /\ Owner(r) = Tenant /\ new[r] = {f} /\ left[r] = {} /\ f \in Files /\ body[r] # None
      /\ seen[r] \in Row /\ Read(r) = {seen[r].thumb} /\ old \in SUBSET Files /\ f \notin old
      /\ new[r] \in SUBSET Files
  <2>1. /\ Owner(r) = Tenant /\ body[r] # None /\ seen[r] \in Row /\ seen[r] # None
        /\ left[r] = {} /\ new[r] = {f}
    BY <1>1, Busy, ImagesAssumption DEF Asks, Holds
  <2>2. Read(r) = {seen[r].thumb} /\ new[r] \cap Read(r) = {}
    BY <1>1, <2>1 DEF Read, IInv, NewIsPrivate
  <2>3. old \in SUBSET Files /\ new[r] \in SUBSET Files
    BY <2>1 DEF Row, IInv, TypeOK
  <2> QED
    BY <2>1, <2>2, <2>3
<1>3. UNCHANGED <<store, row, lock, condemned>>
  BY DEF UpdateTenantLogoURL
<1>t. unsure \in SUBSET Files /\ leaked \in SUBSET Files /\ logo \in Files \cup {None}
  BY DEF IInv, TypeOK
<1>4. ASSUME HandlerTypes', unsure \subseteq unsure', unsure' \subseteq Files,
             leaked \subseteq leaked', leaked' \subseteq Files, Stands(r)',
             Read(r)' \subseteq Read(r), new'[r] = {}, NEW l, NEW b, NEW s, NEW g,
             Now(r, l, b, s, {}, g), g \subseteq old \cup new[r], b \in {body[r], None},
             l # "idle" => b = body[r], g # {} => l # "idle", {logo} \ {None} \subseteq g \cup leaked'
      PROVE  TypeOK' /\ Effect(r)
  <2>1. TypeOK'
    BY <1>0, <1>2, <1>3, <1>4, <1>t DEF IInv, TypeOK, HandlerTypes, store
  <2>2. Gains(r)
    BY <1>0, <1>2, <1>3, <1>4, OthersStay DEF IInv, TypeOK, Gains, Now, store
  <2>3. Touches(r)
    BY <1>0, <1>3, <1>4, OthersStay DEF Touches, Now, store
  <2>4. Conserves(r)
    <3>1. \A o \in Owners : files[o] \subseteq Files
      BY DEF IInv, TypeOK
    <3>2. Named(Tenant) = {logo} /\ Named(Tenant)' = {f}
      BY <1>2 DEF Named
    <3>3. \A o \in Owners \ {Tenant} : Named(o)' = Named(o)
      BY <1>3 DEF Named
    <3>4. \A o \in Owners : Named(o) \cap files'[o] \subseteq Named(o)' \cup left'[r] \cup leaked'
      BY <1>3, <1>4, <3>1, <3>2, <3>3, ImagesAssumption DEF store, Now
    <3> QED
      BY <1>0, <1>1, <1>3, <1>4, <3>2, <3>4 DEF Conserves, Now, store
  <2> QED
    BY <1>4, <2>1, <2>2, <2>3, <2>4 DEF Effect
<1>5. CASE Erase(r, old) /\ leaked' = leaked \cup ({logo} \ {seen[r].thumb, None}) /\ UNCHANGED unsure
  <2>1. HandlerTypes'
    BY <1>0, <1>5, EraseNow DEF IInv
  <2>2. CASE old = {} /\ Done(r)
    <3>1. Stands(r)' /\ Read(r)' = {} /\ new'[r] = {}
      BY <2>2, DoneEffect
    <3> QED
      BY <1>0, <1>4, <1>5, <1>t, <2>1, <2>2, <3>1 DEF Done
  <2>3. CASE Now(r, "erase", body[r], seen[r], {}, old)
    <3>1. body'[r] = body[r] /\ new'[r] = {}
      BY <2>3 DEF Now
    <3>2. old \cap Named(Owner(r))' = {}
      BY <1>0, <1>2, <3>1 DEF Named, Owner
    <3>3. Stands(r)' /\ Read(r)' = Read(r)
      BY <1>1, <2>3, <3>1, <3>2, ErasingStands
    <3> QED
      BY <1>0, <1>4, <1>5, <1>t, <2>1, <2>3, <3>1, <3>3
  <2> QED
    BY <1>0, <1>5, <2>2, <2>3, EraseNow DEF IInv
<1>6. CASE Lost(r) /\ leaked' = leaked \cup ({logo} \ {None})
  <2>1. HandlerTypes' /\ unsure' = unsure \cup new[r] /\ Now(r, "erase", body[r], seen[r], {}, new[r])
    BY <1>0, <1>6, LostNow
  <2>2. Stands(r)' /\ Read(r)' = Read(r) /\ new'[r] = {}
    BY <1>1, <2>1, ErasingStands DEF Now
  <2> QED
    BY <1>0, <1>4, <1>6, <1>t, <2>1, <2>2
<1> QED
  BY <1>5, <1>6 DEF UpdateTenantLogoURL

LEMMA DeleteImageStep ==
  ASSUME IInv, NEW r \in Handlers, DeleteImage(r) PROVE TypeOK' /\ Effect(r)
<1>1. pc[r] = "erase"
  BY DEF DeleteImage, At
<1>2. PICK f \in left[r] :
        /\ \/ files' = [files EXCEPT ![Owner(r)] = @ \ {f}] /\ UNCHANGED leaked
           \/ leaked' = leaked \cup ({f} \cap files[Owner(r)]) /\ UNCHANGED files
        /\ Erase(r, left[r] \ {f})
  BY DEF DeleteImage
<1> DEFINE rest == left[r] \ {f}
<1>0. Owner(r) \in Owners /\ new[r] = {} /\ body[r] # None /\ rest \in SUBSET Files /\ f \in Files
  BY <1>1, Busy DEF Holds, IInv, TypeOK
<1>3. UNCHANGED <<used, database, lock, condemned, unsure>>
  BY DEF DeleteImage
<1>4. /\ files' \in [Owners -> SUBSET Files] /\ leaked \subseteq leaked' /\ leaked' \subseteq Files
      /\ \A o \in Owners \ {Owner(r)} : files'[o] = files[o]
      /\ files'[Owner(r)] \subseteq files[Owner(r)] /\ files[Owner(r)] \ files'[Owner(r)] \subseteq {f}
      /\ f \in files'[Owner(r)] => f \in leaked'
  BY <1>0, <1>2 DEF IInv, TypeOK
<1>5. HandlerTypes' /\ \/ rest = {} /\ Done(r)
                       \/ rest # {} /\ Now(r, "erase", body[r], seen[r], {}, rest)
  BY <1>0, <1>2, EraseNow DEF IInv
<1>6. Stands(r)' /\ Read(r)' \subseteq Read(r)
  <2>1. CASE Done(r)
    BY <2>1, DoneEffect
  <2>2. CASE Now(r, "erase", body[r], seen[r], {}, rest)
    <3>1. body'[r] = body[r] /\ left[r] \cap Named(Owner(r)) \subseteq unsure
      BY <1>1, <2>2 DEF IInv, LeftIsDropped, Now
    <3>2. rest \cap Named(Owner(r))' \subseteq unsure'
      BY <1>3, <3>1 DEF Named, Owner, database
    <3> QED
      BY <1>1, <2>2, <3>1, <3>2, ErasingStands
  <2> QED
    BY <1>5, <2>1, <2>2
<1>7. /\ \A q \in Handlers \ {r} : /\ pc'[q] = pc[q] /\ body'[q] = body[q] /\ seen'[q] = seen[q]
                                   /\ new'[q] = new[q] /\ left'[q] = left[q] /\ Read(q)' = Read(q)
      /\ new'[r] = {} /\ left'[r] = rest /\ body'[r] \in {body[r], None}
      /\ pc'[r] # "idle" => body'[r] = body[r]
      /\ left'[r] # {} => pc'[r] # "idle"
  BY <1>5, OthersStay DEF Done, Now
<1>8. TypeOK'
  BY <1>3, <1>4, <1>5 DEF IInv, TypeOK, HandlerTypes, database
<1>9. Gains(r)
  BY <1>3, <1>6, <1>7 DEF IInv, TypeOK, Gains, database
<1>10. Touches(r)
  BY <1>3, <1>4, <1>7 DEF Touches, database
<1>11. Conserves(r)
  BY <1>0, <1>1, <1>3, <1>4, <1>7 DEF Conserves, Named, database
<1> QED
  BY <1>6, <1>8, <1>9, <1>10, <1>11 DEF Effect

LEMMA WipeStep ==
  ASSUME IInv, NEW r \in Handlers, DeleteProductImages(r) PROVE TypeOK' /\ Effect(r)
<1>1. pc[r] = "wipe"
  BY DEF DeleteProductImages, At
<1>2. PICK gone \in SUBSET files[Owner(r)] : files' = [files EXCEPT ![Owner(r)] = @ \ gone]
  BY DEF DeleteProductImages
<1>0. Owner(r) \in condemned /\ Owner(r) \in Owners /\ new[r] = {} /\ left[r] = {}
  BY <1>1, Busy DEF Holds
<1>3. /\ files' \in [Owners -> SUBSET Files] /\ files'[Owner(r)] \subseteq files[Owner(r)]
      /\ \A o \in Owners \ {Owner(r)} : files'[o] = files[o]
  BY <1>0, <1>2 DEF IInv, TypeOK
<1>4. Done(r) /\ HandlerTypes'
  BY FinishNow DEF IInv, DeleteProductImages
<1>5. Stands(r)' /\ Read(r)' = {}
  BY <1>4, DoneEffect
<1>6. TypeOK'
  BY <1>3, <1>4 DEF IInv, TypeOK, HandlerTypes, DeleteProductImages, database, observers
<1>7. Gains(r)
  BY <1>4, <1>5, OthersStay DEF IInv, TypeOK, Gains, Done, Now, DeleteProductImages, database
<1>8. Touches(r)
  BY <1>0, <1>3, <1>4, OthersStay DEF Touches, Done, Now, DeleteProductImages, database, observers
<1>9. Conserves(r)
  BY <1>0, <1>1, <1>3, <1>4 DEF Conserves, Done, Now, Named, DeleteProductImages, database, observers
<1> QED
  BY <1>5, <1>6, <1>7, <1>8, <1>9 DEF Effect

LEMMA DbFailsStep ==
  ASSUME IInv, NEW r \in Handlers, DbFails(r) PROVE TypeOK' /\ Effect(r)
<1>1. pc[r] \in {"read", "lock", "locked", "write"} /\ left[r] = {} /\ new[r] \in SUBSET Files
      /\ Owner(r) \in Owners /\ body[r] # None
  BY Busy DEF DbFails, Holds, IInv, TypeOK
<1>2. Unlock(r) /\ UNCHANGED <<store, database, observers>>
  BY DEF DbFails
<1>3. HandlerTypes' /\ \/ new[r] = {} /\ Done(r)
                       \/ new[r] # {} /\ Now(r, "erase", body[r], seen[r], {}, new[r])
  BY <1>1, EraseNow DEF IInv, DbFails, Undo
<1>4. CASE new[r] = {} /\ Done(r)
  BY <1>1, <1>2, <1>3, <1>4, Unlocked, QuietEnd DEF IInv, TypeOK, observers
<1>5. CASE Now(r, "erase", body[r], seen[r], {}, new[r]) /\ new[r] # {}
  <2>1. body'[r] = body[r] /\ new[r] \cap Named(Owner(r)) = {}
    BY <1>1, <1>5 DEF IInv, NewIsPrivate, Named, Now, Owners
  <2>2. new[r] \cap Named(Owner(r))' \subseteq unsure'
    BY <1>2, <2>1 DEF Named, Owner, database
  <2>3. Stands(r)' /\ Read(r)' = Read(r)
    BY <1>1, <1>5, <2>1, <2>2, ErasingStands
  <2>4. TypeOK'
    BY <1>2, <1>3, Unlocked DEF IInv, TypeOK, HandlerTypes, store, database, observers
  <2>5. Gains(r)
    BY <1>2, <1>5, <2>3, OthersStay DEF IInv, TypeOK, Gains, Now, store, database
  <2>6. Touches(r)
    BY <1>2, <1>5, Unlocked, OthersStay DEF IInv, Touches, Now, store, database, observers
  <2>7. Conserves(r)
    BY <1>1, <1>2, <1>5 DEF Conserves, Now, Named, store, database, observers
  <2> QED
    BY <2>3, <2>4, <2>5, <2>6, <2>7 DEF Effect
<1> QED
  BY <1>3, <1>4, <1>5

-----------------------------------------------------------------------------
(* The theorems *)

LEMMA NextEffect ==
  ASSUME IInv, NEW r \in Handlers, Receive(r) \/ Step(r) \/ DbFails(r) \/ Crash(r)
  PROVE  TypeOK' /\ Effect(r)
BY ReceiveStep, ReadRowStep, SaveFileStep, SaveFailsStep, LockRowStep, AppendStep, PrependStep,
   ReplaceStep, RemoveStep, RefuseRemovalStep, RefuseChoiceStep, ThumbnailStep, UpdateProductStep,
   UpdateStatusStep, LogoStep, DeleteImageStep, WipeStep, DbFailsStep, CrashStep
   DEF Step, Transaction, Statement

LEMMA InitIInv == Init => IInv
<1> SUFFICES ASSUME Init PROVE IInv
  OBVIOUS
<1>1. TypeOK
  BY DEF Init, TypeOK, EmptyRow, Row, Statuses
<1>2. Local /\ NewIsStored /\ LeftIsDropped
  BY DEF Init, Local, Idle, NewIsStored, LeftIsDropped
<1>3. NamesUsed /\ NewIsPrivate
  BY DEF Init, NamesUsed, NewIsPrivate, Read, EmptyRow
<1>4. RowsNameStoredFiles
  BY DEF Init, RowsNameStoredFiles, EmptyRow
<1> QED
  BY <1>1, <1>2, <1>3, <1>4 DEF IInv

LEMMA NextIInv == IInv /\ [Next]_vars => IInv'
<1> SUFFICES ASSUME IInv, [Next]_vars PROVE IInv'
  OBVIOUS
<1>1. ASSUME UNCHANGED vars PROVE IInv'
  BY <1>1 DEF vars, IInv, TypeOK, Local, Idle, Asks, Holds, Kind, Owner, NamesUsed, Read,
              NewIsPrivate, LeftIsDropped, Named, NewIsStored, RowsNameStoredFiles
<1>2. ASSUME Next PROVE IInv'
  BY <1>2, NextEffect, EffectKeeps DEF Next
<1> QED
  BY <1>1, <1>2

LEMMA Invariance == Spec => []IInv
<1> QED
  BY InitIInv, NextIInv, PTL DEF Spec

\* The type invariant holds whatever handlers, products and files there are.
THEOREM TypeCorrect == Spec => []TypeOK
<1>1. IInv => TypeOK
  BY DEF IInv
<1> QED
  BY <1>1, Invariance, PTL

\* Images and logos that rows name are stored, however many handlers race and fail:
\* a file is deleted only after its row has stopped naming it, and a handler's
\* uploads are known to nobody else until they are named.
THEOREM NamedFilesAreStored == Spec => []RowsNameStoredFiles
<1>1. IInv => RowsNameStoredFiles
  BY DEF IInv
<1> QED
  BY <1>1, Invariance, PTL

\* No stored file is forgotten without a failure or an unseen replacement.
THEOREM NoFileForgotten == Spec => []NoStrayFiles
<1>1. Init => NoStrayFiles
  BY DEF Init, NoStrayFiles
<1>2. IInv /\ NoStrayFiles /\ [Next]_vars => NoStrayFiles'
  <2> SUFFICES ASSUME IInv, NoStrayFiles, [Next]_vars PROVE NoStrayFiles'
    OBVIOUS
  <2>1. ASSUME UNCHANGED vars PROVE NoStrayFiles'
    BY <2>1 DEF vars, NoStrayFiles, Named, HasInHand, At, Owner
  <2>2. ASSUME Next PROVE NoStrayFiles'
    BY <2>2, NextEffect, ConservesKeep DEF Next
  <2> QED
    BY <2>1, <2>2
<1> QED
  BY <1>1, <1>2, Invariance, PTL DEF Spec

\* What a row loses, it loses to a request that was sent for that and holds its lock.
LEMMA LossIsAsked ==
  ASSUME IInv, NEW r \in Handlers, Receive(r) \/ Step(r) \/ DbFails(r) \/ Crash(r),
         NEW p \in Products, NEW f \in row[p].images \ row'[p].images
  PROVE  lock[p] = r /\ Owner(r) = p /\ Asked(r, f)
<1>1. CASE Transaction(r)
  <2>1. pc[r] = "locked"
    BY <1>1 DEF Transaction, AppendProductImages, PrependImageAndSetThumbnail, UpdateProductImages,
                RemoveProductImage, RefuseRemoval, InTx, At
  <2>2. lock[Owner(r)] = r /\ Owner(r) \in Products /\ new[r] \in SUBSET Files
        /\ row[Owner(r)] \in Row /\ seen[r] \in Row
    BY <2>1, InTransaction DEF Holds
  <2>3. ASSUME NEW images, NEW thumb, SetImages(r, images, thumb)
        PROVE  p = Owner(r) /\ f \in Mine(r).images \ images
    BY <2>2, <2>3 DEF IInv, TypeOK, SetImages, Mine
  <2>4. CASE AppendProductImages(r)
    BY <2>3, <2>4 DEF AppendProductImages
  <2>5. CASE PrependImageAndSetThumbnail(r)
    BY <2>3, <2>5 DEF PrependImageAndSetThumbnail
  <2>6. CASE UpdateProductImages(r)
    <3>1. p = Owner(r) /\ Kind(r) = "replace"
      BY <2>3, <2>6 DEF UpdateProductImages, InTx
    <3> QED
      BY <2>2, <3>1 DEF Asked
  <2>7. CASE RemoveProductImage(r)
    <3>1. p = Owner(r) /\ Kind(r) = "remove" /\ f = body[r].image
      BY <2>3, <2>7 DEF RemoveProductImage, InTx
    <3> QED
      BY <2>2, <3>1 DEF Asked
  <2>8. CASE RefuseRemoval(r)
    BY <2>8 DEF RefuseRemoval, database
  <2> QED
    BY <1>1, <2>4, <2>5, <2>6, <2>7, <2>8 DEF Transaction
<1>2. CASE UpdateProductThumbnail(r) \/ UpdateProduct(r) \/ UpdateProductStatus(r)
  <2>1. Owner(r) \in Products
    BY <1>2, Busy DEF UpdateProductThumbnail, UpdateProduct, UpdateProductStatus, Writes, At
  <2>2. row[p] \in Row /\ row \in [Products -> Row]
    BY DEF IInv, TypeOK
  <2>3. row'[p].images = row[p].images
    BY <1>2, <2>1, <2>2 DEF Row, UpdateProductThumbnail, UpdateProduct, UpdateProductStatus, Mine
  <2> QED
    BY <2>3
<1>3. CASE ~Transaction(r) /\ ~UpdateProductThumbnail(r) /\ ~UpdateProduct(r) /\ ~UpdateProductStatus(r)
  <2>1. row' = row
    BY <1>3 DEF Receive, Step, Statement, ReadRow, SaveFile, SaveFails, LockRow, RefuseChoice,
                UpdateTenantLogoURL, DeleteImage, DeleteProductImages, DbFails, Crash, database
  <2> QED
    BY <2>1
<1> QED
  BY <1>1, <1>2, <1>3

\* No append and no edit drops an image that was added since it read the row.
THEOREM NothingIsOverwritten == Spec => OnlyRemovedOnPurpose
<1>1. IInv /\ [Next]_vars =>
        [\A p \in Products : \A f \in row[p].images \ row'[p].images :
           \E r \in Handlers : lock[p] = r /\ Owner(r) = p /\ Asked(r, f)]_vars
  BY LossIsAsked DEF Next
<1> QED
  BY <1>1, Invariance, PTL DEF Spec, OnlyRemovedOnPurpose
=============================================================================
