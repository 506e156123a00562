------------------------------ MODULE Catalogue ------------------------------
(***************************************************************************)
(* The pieces of the shop: ProductsService and the images it keeps in the  *)
(* storage (src/src/products), edited by managers from the panel.          *)
(*                                                                         *)
(* A request is a chain of queries that carries the rows it has read, and  *)
(* a save writes its copy back whole, as a new row when it is gone.        *)
(* Prices, texts, sizes and colours are left out; the stock is the one of  *)
(* the row, which sales change elsewhere (Inventory).  Images belong to    *)
(* one piece, Pictured.                                                    *)
(***************************************************************************)
EXTENDS Integers, FiniteSets, SequencesExt, TLC

CONSTANTS
    Workers,       \* the requests under way at once
    MaxRequests,   \* a bound: the requests of a behaviour
    InitProducts,  \* the pieces of the shop at first, by id
    MaxId,         \* a bound: the ids of new pieces
    Patches,       \* what the panel sends to change a piece
    Pictured,      \* the piece whose images are followed
    MaxImages,     \* images of a piece (8 in the code)
    Uuids,         \* the ids that images and files draw
    None, Typed,   \* no address; an address typed by the manager
    PageSize,      \* the pages with a choice of pieces, and how many each shows
    Faults         \* "store": a file is not stored; "rows": the rows of an upload are not
                   \* saved; "sync": the address of the piece is not; "erase": a file stays

Pages == DOMAIN PageSize

Cats == {"top", "bottom", "other"}

Products == [cat : Cats, active : BOOLEAN, stock : Nat, removed : BOOLEAN,
             bundle : Nat, position : Nat, image : Uuids \cup {None, Typed}]

Images == [path : Uuids \cup {None}, url : Uuids \cup {Typed}, position : Nat, primary : BOOLEAN]

\* The bundle page pairs the pieces of two categories by their places.
Paired(rows, shown) ==
    \A p \in shown :
        rows[p].bundle > 0 =>
            /\ rows[p].cat # "other"
            /\ \A q \in shown \ {p} : rows[q].cat = rows[p].cat => rows[q].bundle # rows[p].bundle

ASSUME CatalogueAssumption ==
    /\ IsFiniteSet(DOMAIN InitProducts) /\ DOMAIN InitProducts \subseteq Nat
    /\ \A p \in DOMAIN InitProducts : InitProducts[p] \in Products
    /\ Paired(InitProducts, DOMAIN InitProducts)
    /\ Pictured \in DOMAIN InitProducts
    /\ PageSize \in [Pages -> Nat \ {0}]
    /\ MaxImages \in Nat \ {0} /\ MaxId \in Nat /\ MaxRequests \in Nat
    /\ None \notin Uuids /\ Typed \notin Uuids
    /\ \A patch \in Patches :
        /\ DOMAIN patch \subseteq {"cat", "active", "stock", "image"}
        /\ "cat" \in DOMAIN patch => patch["cat"] \in Cats
        /\ "active" \in DOMAIN patch => patch["active"] \in BOOLEAN
        /\ "stock" \in DOMAIN patch => patch["stock"] \in Nat
        /\ "image" \in DOMAIN patch => patch["image"] \in {None, Typed}
    /\ Faults \subseteq {"store", "rows", "sync", "erase"}

VARIABLES
    products,   \* the rows of products, those removed included
    images,     \* the rows of product_images of the piece
    files,      \* the files in the storage
    drawn,      \* the ids drawn so far
    showcases,  \* product_showcases: the pieces chosen for each page
    job,        \* what each request is doing
    requests,   \* how many there were
    settled     \* a history: no two overlapped, no address was typed into the piece

productVars == <<products, showcases>>
imageVars == <<images, files, drawn>>
vars == <<products, images, files, drawn, showcases, job, requests, settled>>

-----------------------------------------------------------------------------
(* The rows *)

\* The rows or fields f, written over those of g.
Over(f, g) == [x \in DOMAIN f \cup DOMAIN g |-> IF x \in DOMAIN f THEN f[x] ELSE g[x]]

\* What find and findOneBy see: the rows not removed.
Live == {p \in DOMAIN products : ~products[p].removed}
Sellable(p) == p \in Live /\ products[p].active /\ products[p].stock > 0

Primaries(rows) == {i \in DOMAIN rows : rows[i].primary}
Lowest(rows) == {i \in DOMAIN rows : \A j \in DOMAIN rows : rows[i].position <= rows[j].position}

\* Where the piece takes its address from: a primary image, or else the first of them.
\* Mutant: the mark is not looked at.
FacesByPosition(rows) == Lowest(rows)

Faces(rows) == IF Primaries(rows) # {} THEN Primaries(rows) ELSE Lowest(rows)

\* The images in the order of their positions, ties in any order.
Ordered(rows) ==
    {s \in SetToSeqs(DOMAIN rows) :
        \A k \in 1 .. Len(s) - 1 : rows[s[k]].position <= rows[s[k + 1]].position}

-----------------------------------------------------------------------------
(* Requests *)

Idle == [pc |-> "idle", id |-> 0, row |-> None, seen |-> <<>>, stored |-> <<>>, left |-> 0,
         image |-> None, copy |-> None, address |-> None, order |-> <<>>, other |-> <<>>, page |-> None, then |-> "end"]

Init ==
    /\ products = InitProducts
    /\ images = <<>> /\ files = {} /\ drawn = {}
    /\ showcases = [k \in Pages |-> <<>>]
    /\ job = [w \in Workers |-> Idle]
    /\ requests = 0
    /\ settled = TRUE

At(w, pc) == job[w].pc = pc

Start(w, state) ==
    /\ At(w, "idle")
    /\ requests < MaxRequests
    /\ requests' = requests + 1
    /\ settled' = (settled /\ \A v \in Workers : At(v, "idle"))
    /\ job' = [job EXCEPT ![w] = Over(state, Idle)]

Continue(w, state) ==
    /\ job' = [job EXCEPT ![w] = Over(state, @)]
    /\ UNCHANGED <<requests, settled>>

Goto(w, pc) == Continue(w, [pc |-> pc])

End(w) == job' = [job EXCEPT ![w] = Idle] /\ UNCHANGED <<requests, settled>>

\* save of an entity that was read: its row is written whole, or inserted again.
SaveImage(i, row) == images' = Over([j \in {i} |-> row], images)

-----------------------------------------------------------------------------
(* Images *)

UploadImages(w, n) ==
    /\ Pictured \in Live
    /\ Cardinality(DOMAIN images) + n <= MaxImages
    /\ Start(w, [pc |-> "store", left |-> n, seen |-> images])
    /\ UNCHANGED <<productVars, imageVars>>

\* ProductImageStorageService.upload, once for each file.
StoreFile(w) ==
    /\ At(w, "store")
    /\ \/ \E u \in Uuids \ drawn :
            /\ drawn' = drawn \cup {u}
            /\ files' = files \cup {u}
            /\ Continue(w, [stored |-> Append(job[w].stored, u), left |-> job[w].left - 1,
                            pc |-> IF job[w].left = 1 THEN "rows" ELSE "store"])
       \/ "store" \in Faults /\ Goto(w, "undo") /\ UNCHANGED <<files, drawn>>
    /\ UNCHANGED <<productVars, images>>

\* The rows of the files, after those that were there; an image takes its file's id here.
NewImages(stored, seen) ==
    [u \in Range(stored) |->
        LET k == CHOOSE j \in DOMAIN stored : stored[j] = u
        IN  [path |-> u, url |-> u, position |-> Cardinality(DOMAIN seen) + k - 1,
             primary |-> Primaries(seen) = {} /\ k = 1]]

\* Mutant: the rows are saved one by one.
InsertOneByOne(w) ==
    /\ At(w, "rows")
    /\ \/ /\ images' = Over(NewImages(job[w].stored, job[w].seen), images)
          /\ Continue(w, [pc |-> "face", then |-> "undo"])
       \/ /\ "rows" \in Faults
          /\ images' = Over(NewImages(<<job[w].stored[1]>>, job[w].seen), images)
          /\ Goto(w, "undo")
    /\ UNCHANGED <<productVars, files, drawn>>

InsertImages(w) ==
    /\ At(w, "rows")
    /\ \/ /\ images' = Over(NewImages(job[w].stored, job[w].seen), images)
          /\ Continue(w, [pc |-> "face", then |-> "undo"])
       \/ "rows" \in Faults /\ Goto(w, "undo") /\ UNCHANGED images
    /\ UNCHANGED <<productVars, files, drawn>>

\* The catch of uploadImages: the files go, whatever was saved about them.
UndoUpload(w) ==
    /\ At(w, "undo")
    /\ files' = files \ Range(job[w].stored) \/ ("erase" \in Faults /\ UNCHANGED files)
    /\ End(w)
    /\ UNCHANGED <<productVars, images, drawn>>

\* syncLegacyImage: the address of the piece follows its face.
SyncLegacyImage(w) ==
    /\ At(w, "face")
    /\ \/ IF DOMAIN images = {} THEN Continue(w, [pc |-> "address", address |-> None])
          ELSE \E i \in Faces(images) : Continue(w, [pc |-> "address", address |-> images[i].url])
       \/ /\ "sync" \in Faults
          /\ IF job[w].then = "undo" THEN Goto(w, "undo") ELSE End(w)
    /\ UNCHANGED <<productVars, imageVars>>

SaveAddress(w) ==
    /\ At(w, "address")
    /\ products' = [products EXCEPT ![Pictured].image = job[w].address]
    /\ IF job[w].then = "erase" THEN Goto(w, "erase") ELSE End(w)
    /\ UNCHANGED <<showcases, imageVars>>

\* updateImage, once update has typed the address into the piece.
ReadPrimary(w) ==
    /\ At(w, "primary")
    /\ IF Primaries(images) = {} THEN Continue(w, [pc |-> "type", image |-> None])
       ELSE \E i \in Primaries(images) : Continue(w, [pc |-> "type", image |-> i, copy |-> images[i]])
    /\ UNCHANGED <<productVars, imageVars>>

TypeAddress(w) ==
    /\ At(w, "type")
    /\ IF job[w].image # None
       THEN /\ SaveImage(job[w].image, [job[w].copy EXCEPT !.url = Typed, !.path = None])
            /\ UNCHANGED drawn
       ELSE \E u \in Uuids \ drawn :
                /\ drawn' = drawn \cup {u}
                /\ SaveImage(u, [path |-> None, url |-> Typed, position |-> 0, primary |-> TRUE])
    /\ End(w)
    /\ UNCHANGED <<productVars, files>>

SetPrimaryImage(w, i) ==
    /\ Start(w, [pc |-> "clear", image |-> i])
    /\ UNCHANGED <<productVars, imageVars>>

ClearPrimary(w) ==
    /\ At(w, "clear")
    /\ images' = [i \in DOMAIN images |-> [images[i] EXCEPT !.primary = FALSE]]
    /\ Goto(w, "mark")
    /\ UNCHANGED <<productVars, files, drawn>>

MarkPrimary(w) ==
    /\ At(w, "mark")
    /\ images' = [i \in DOMAIN images |->
                    IF i = job[w].image THEN [images[i] EXCEPT !.primary = TRUE] ELSE images[i]]
    /\ Goto(w, "face")
    /\ UNCHANGED <<productVars, files, drawn>>

\* The colour of an image, which no one here looks at: what matters is that its row is
\* read and saved.
UpdateImageMetadata(w, i) ==
    /\ Start(w, [pc |-> "metadata", image |-> i, copy |-> images[i]])
    /\ UNCHANGED <<productVars, imageVars>>

SaveMetadata(w) ==
    /\ At(w, "metadata")
    /\ SaveImage(job[w].image, job[w].copy)
    /\ End(w)
    /\ UNCHANGED <<productVars, files, drawn>>

\* An id repeated in the list is accepted: its row gets one of the two positions, and
\* the one left out keeps its own.
ReorderImages(w, s) ==
    /\ Start(w, [pc |-> "reorder", order |-> s])
    /\ UNCHANGED <<productVars, imageVars>>

SavePositions(w) ==
    LET s == job[w].order
    IN  /\ At(w, "reorder")
        /\ \E last \in [Range(s) -> DOMAIN s] :
             /\ \A i \in Range(s) : s[last[i]] = i
             /\ images' = [i \in DOMAIN images |->
                             IF i \in Range(s) THEN [images[i] EXCEPT !.position = last[i] - 1]
                             ELSE images[i]]
        /\ End(w)
        /\ UNCHANGED <<productVars, files, drawn>>

RemoveImage(w, i) ==
    /\ Start(w, [pc |-> "delete", image |-> i, copy |-> images[i], then |-> "erase"])
    /\ UNCHANGED <<productVars, imageVars>>

DeleteImage(w) ==
    /\ At(w, "delete")
    /\ images' = Restrict(images, DOMAIN images \ {job[w].image})
    /\ Goto(w, IF job[w].copy.primary THEN "replace" ELSE "normalize")
    /\ UNCHANGED <<productVars, files, drawn>>

\* Another image becomes the primary one.
FindReplacement(w) ==
    /\ At(w, "replace")
    /\ IF DOMAIN images = {} THEN Goto(w, "normalize")
       ELSE \E i \in Lowest(images) :
                Continue(w, [pc |-> "promote", order |-> <<i>>, row |-> images[i]])
    /\ UNCHANGED <<productVars, imageVars>>

Promote(w) ==
    /\ At(w, "promote")
    /\ SaveImage(job[w].order[1], [job[w].row EXCEPT !.primary = TRUE])
    /\ Goto(w, "normalize")
    /\ UNCHANGED <<productVars, files, drawn>>

NormalizePositions(w) ==
    /\ At(w, "normalize")
    /\ \E s \in Ordered(images) :
         images' = [i \in DOMAIN images |->
                      [images[i] EXCEPT !.position = (CHOOSE k \in DOMAIN s : s[k] = i) - 1]]
    /\ Goto(w, "face")
    /\ UNCHANGED <<productVars, files, drawn>>

EraseFile(w) ==
    /\ At(w, "erase")
    /\ files' = files \ {job[w].copy.path} \/ ("erase" \in Faults /\ UNCHANGED files)
    /\ End(w)
    /\ UNCHANGED <<productVars, images, drawn>>

-----------------------------------------------------------------------------
(* Pieces *)

Highest(S) == CHOOSE n \in S : \A k \in S : k <= n

\* create: the id asked for, if it was never used, or the next one.
Create(w, wanted, cat) ==
    LET used == DOMAIN products
        id   == IF wanted > 0 /\ wanted \notin used THEN wanted ELSE Highest(used \cup {0}) + 1
    IN  /\ id <= MaxId
        /\ Start(w, [pc |-> "create", id |-> id,
                     row |-> [cat |-> cat, active |-> TRUE, stock |-> 1, removed |-> FALSE,
                              bundle |-> 0, image |-> None,
                              position |-> IF used = {} THEN 0
                                           ELSE Highest({products[p].position : p \in used}) + 1]])
        /\ UNCHANGED <<productVars, imageVars>>

\* A save by id: it writes over the piece another create has put there meanwhile.
SaveNew(w) ==
    /\ At(w, "create")
    /\ products' = Over([p \in {job[w].id} |-> job[w].row], products)
    /\ End(w)
    /\ UNCHANGED <<showcases, imageVars>>

\* Mutant: it stays where it was.
PatchedInPlace(row, patch) == Over(patch, row)

\* update: a piece that changes its category leaves the bundle.
Patched(row, patch) ==
    LET new == Over(patch, row)
    IN  [new EXCEPT !.bundle = IF new.cat = row.cat THEN @ ELSE 0]

Update(w, p, patch) ==
    /\ Start(w, [pc |-> "update", id |-> p, copy |-> products[p], row |-> Patched(products[p], patch)])
    /\ UNCHANGED <<productVars, imageVars>>

\* updateImage begins with it, and goes on to the rows of the images.
UpdateImage(w) ==
    /\ Pictured \in Live
    /\ Start(w, [pc |-> "update", id |-> Pictured, copy |-> products[Pictured], then |-> "primary",
                 row |-> Patched(products[Pictured], [image |-> Typed])])
    /\ UNCHANGED <<productVars, imageVars>>

SaveUpdate(w) ==
    /\ At(w, "update")
    /\ products' = [products EXCEPT ![job[w].id] = job[w].row]
    /\ IF job[w].then = "primary" THEN Goto(w, "primary")
       ELSE /\ job' = [job EXCEPT ![w] = Idle]
            /\ settled' = (settled /\ job[w].row.image = job[w].copy.image)
            /\ UNCHANGED requests
    /\ UNCHANGED <<showcases, imageVars>>

\* The row stays for the orders that name it.
RemoveProduct(p) ==
    /\ p \in Live
    /\ products' = [products EXCEPT ![p].removed = TRUE]
    /\ requests < MaxRequests /\ requests' = requests + 1
    /\ settled' = (settled /\ \A w \in Workers : At(w, "idle"))
    /\ UNCHANGED <<showcases, imageVars, job>>

-----------------------------------------------------------------------------
(* What the shop shows *)

MayBundle(p, cat) == Sellable(p) /\ products[p].cat = cat

\* saveBundleSelection, which judges the pieces before its transaction.
SaveBundleSelection(w, bottoms, tops) ==
    /\ \A p \in Range(bottoms) : MayBundle(p, "bottom")
    /\ \A p \in Range(tops) : MayBundle(p, "top")
    /\ Start(w, [pc |-> "bundle", order |-> bottoms, other |-> tops])
    /\ UNCHANGED <<productVars, imageVars>>

Rank(s, p) == IF p \in Range(s) THEN CHOOSE k \in DOMAIN s : s[k] = p ELSE 0

WriteBundle(w) ==
    /\ At(w, "bundle")
    /\ products' = [p \in DOMAIN products |->
                      [products[p] EXCEPT !.bundle = Rank(job[w].order, p) + Rank(job[w].other, p)]]
    /\ End(w)
    /\ UNCHANGED <<showcases, imageVars>>

\* saveCatalogOrder: the pieces not removed, all of them.
SaveCatalogOrder(w, s) ==
    /\ Start(w, [pc |-> "catalogue", order |-> s])
    /\ UNCHANGED <<productVars, imageVars>>

WriteOrder(w) ==
    /\ At(w, "catalogue")
    /\ products' = [p \in DOMAIN products |->
                      IF p \in Range(job[w].order)
                      THEN [products[p] EXCEPT !.position = Rank(job[w].order, p) - 1]
                      ELSE products[p]]
    /\ End(w)
    /\ UNCHANGED <<showcases, imageVars>>

SaveShowcase(w, page, s) ==
    /\ \A p \in Range(s) : Sellable(p)
    /\ Start(w, [pc |-> "showcase", page |-> page, order |-> s])
    /\ UNCHANGED <<productVars, imageVars>>

WriteShowcase(w) ==
    /\ At(w, "showcase")
    /\ showcases' = [showcases EXCEPT ![job[w].page] = job[w].order]
    /\ End(w)
    /\ UNCHANGED <<products, imageVars>>

Before(p, q) ==
    \/ products[p].position < products[q].position
    \/ products[p].position = products[q].position /\ p < q

\* listActive, in the order of the catalogue.
ListActive ==
    CHOOSE s \in SetToSeqs({p \in Live : products[p].active}) :
        \A k \in 1 .. Len(s) - 1 : Before(s[k], s[k + 1])

\* The elements of the list s that are in S, in the order of s.
Kept(s, S) ==
    LET places == CHOOSE t \in SetToSeqs({k \in DOMAIN s : s[k] \in S}) :
                      \A k \in 1 .. Len(t) - 1 : t[k] < t[k + 1]
    IN  [k \in DOMAIN places |-> s[places[k]]]

Foremost(s, n) == SubSeq(s, 1, IF Len(s) < n THEN Len(s) ELSE n)

\* The pieces a page shows by itself: those of its kind first.
KindOf(page) == CASE page = "tops" -> {"top"} [] page = "bottoms" -> {"bottom"} [] OTHER -> Cats

\* Mutant: no other piece fills the page.
DefaultOfKind(page) ==
    LET ofKind == {p \in Live : products[p].cat \in KindOf(page)}
    IN  Foremost(Kept(ListActive, ofKind), PageSize[page])

DefaultShowcase(page) ==
    LET ofKind == {p \in Live : products[p].cat \in KindOf(page)}
    IN  Foremost(Kept(ListActive, ofKind) \o Kept(ListActive, Live \ ofKind), PageSize[page])

\* listShowcases: the choice that is left, or the default when none is.
Shown(page) ==
    LET chosen == Kept(showcases[page], Range(ListActive))
    IN  IF chosen = <<>> THEN DefaultShowcase(page) ELSE chosen

-----------------------------------------------------------------------------
\* Lists without repetition, and the lists of images that pass the check of reorderImages.
Lists(S, n) == {s \in [1 .. n -> S] : IsInjective(s)}
ImageLists == [1 .. Cardinality(DOMAIN images) -> DOMAIN images]

Selections(S) == UNION {Lists(S, n) : n \in 1 .. Cardinality(S)}

ImageStep(w) ==
    \/ \E n \in 1 .. MaxImages : UploadImages(w, n)
    \/ StoreFile(w) \/ InsertImages(w) \/ UndoUpload(w)
    \/ SyncLegacyImage(w) \/ SaveAddress(w)
    \/ UpdateImage(w) \/ ReadPrimary(w) \/ TypeAddress(w)
    \/ \E i \in DOMAIN images : SetPrimaryImage(w, i) \/ UpdateImageMetadata(w, i) \/ RemoveImage(w, i)
    \/ ClearPrimary(w) \/ MarkPrimary(w) \/ SaveMetadata(w)
    \/ \E s \in ImageLists : ReorderImages(w, s)
    \/ SavePositions(w)
    \/ DeleteImage(w) \/ FindReplacement(w) \/ Promote(w) \/ NormalizePositions(w) \/ EraseFile(w)

ProductStep(w) ==
    \/ \E wanted \in 0 .. MaxId, cat \in Cats : Create(w, wanted, cat)
    \/ \E p \in Live, patch \in Patches : Update(w, p, patch)
    \/ SaveNew(w) \/ SaveUpdate(w)
    \/ \E b \in Selections(Live), t \in Selections(Live) : SaveBundleSelection(w, b, t)
    \/ \E s \in Lists(Live, Cardinality(Live)) : SaveCatalogOrder(w, s)
    \/ \E page \in Pages : \E s \in Lists(Live, PageSize[page]) : SaveShowcase(w, page, s)
    \/ WriteBundle(w) \/ WriteOrder(w) \/ WriteShowcase(w)

Next ==
    \/ \E w \in Workers : ImageStep(w) \/ ProductStep(w)
    \/ \E p \in DOMAIN products : RemoveProduct(p)

Spec == Init /\ [][Next]_vars

(* Schedule *)

\* What a request saves, or has judged, has not changed since it was read.  Nothing in
\* the code ensures it.
SavesAreFresh ==
    \A w \in Workers :
        job'[w].pc # job[w].pc =>
            /\ At(w, "create") => job[w].id \notin DOMAIN products
            /\ At(w, "update") => products[job[w].id] = job[w].copy
            /\ At(w, "bundle") =>
                 /\ \A p \in Range(job[w].order) : MayBundle(p, "bottom")
                 /\ \A p \in Range(job[w].other) : MayBundle(p, "top")
            /\ At(w, "metadata") \/ (At(w, "type") /\ job[w].image # None) =>
                 job[w].image \in DOMAIN images /\ images[job[w].image] = job[w].copy
            /\ At(w, "promote") => job[w].order[1] \in DOMAIN images

CalmSpec == Init /\ [][Next /\ SavesAreFresh]_vars

-----------------------------------------------------------------------------
(* Properties *)

TypeOK ==
    /\ \A p \in DOMAIN products : products[p] \in Products
    /\ \A i \in DOMAIN images : images[i] \in Images
    /\ DOMAIN images \cup files \subseteq drawn
    /\ \A k \in Pages : Range(showcases[k]) \subseteq DOMAIN products

\* An image in the panel or in the shop is never a broken one: the file of a row is in
\* the storage, through uploads that fail half-way, removals and addresses typed over it.
FilesBehindRows ==
    \A i \in DOMAIN images : images[i].path # None => images[i].path \in files

\* With no two requests overlapping, a piece with images has one primary image, and the
\* address that orders and messages take from the piece is that image's.
GalleryFace ==
    settled /\ (\A w \in Workers : At(w, "idle")) /\ DOMAIN images # {} =>
        \E i \in DOMAIN images :
            Primaries(images) = {i} /\ products[Pictured].image = images[i].url

\* The bundle page pairs each bottom with one top: two live pieces of a category are never at one
\* place of it, and a piece that moved to a category without a column is at none.
BundleColumns == Paired(products, Live)

\* A page shows no piece twice and none that is removed or switched off, and is empty
\* only when the shop is, whatever was removed after it was chosen.
PagesAreFilled ==
    \A page \in Pages :
        /\ IsInjective(Shown(page))
        /\ \A p \in Range(Shown(page)) : p \in Live /\ products[p].active
        /\ Shown(page) = <<>> => ListActive = <<>>
=============================================================================
