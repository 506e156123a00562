--------------------------- MODULE CatalogueProofs ----------------------------
(***************************************************************************)
(* Theorems about Catalogue, for any pieces, images, requests and pages:   *)
(* the types, the files behind the rows, the face of the gallery, the      *)
(* columns of the bundle page and what the pages show.                     *)
(***************************************************************************)
EXTENDS Catalogue, FiniteSetTheorems, SequenceTheorems, TLAPS

(* Lists of a finite set *)

\* A sequence of the elements of a finite set has every element once.
LEMMA Enumerated ==
  ASSUME NEW S, IsFiniteSet(S), NEW seq \in SetToSeqs(S)
  PROVE  /\ Cardinality(S) \in Nat
         /\ DOMAIN seq = 1 .. Cardinality(S)
         /\ \A i \in DOMAIN seq : seq[i] \in S
         /\ \A i, j \in DOMAIN seq : seq[i] = seq[j] => i = j
         /\ \A x \in S : \E i \in DOMAIN seq : seq[i] = x
  <1>. DEFINE n == Cardinality(S)
  <1>1. n \in Nat
    BY FS_CardinalityType
  <1>2. seq \in [1 .. n -> S] /\ \A i, j \in 1 .. n : i # j => seq[i] # seq[j]
    BY DEF SetToSeqs
  <1>3. seq \in Injection(1 .. n, S)
    BY <1>2 DEF Injection, IsInjective
  <1>4. Cardinality(1 .. n) = n
    BY <1>1, FS_Interval
  <1>5. seq \in Surjection(1 .. n, S)
    BY <1>3, <1>4, FS_Injection
  <1>. QED
    BY <1>1, <1>2, <1>5 DEF Surjection

\* A strict order of S, total, given by what comes before each element.
Orders(below, S) ==
    /\ below \in [S -> SUBSET S]
    /\ \A x \in S : x \notin below[x]
    /\ \A x, y \in S : x \in below[y] => below[x] \subseteq below[y]
    /\ \A x, y \in S : x = y \/ x \in below[y] \/ y \in below[x]

\* A finite set can be listed in such an order: the place of an element is the number of
\* those before it.
LEMMA Listed ==
  ASSUME NEW S, IsFiniteSet(S), NEW below, Orders(below, S)
  PROVE  \E seq \in SetToSeqs(S) :
             \A i, j \in DOMAIN seq : i < j => seq[i] \in below[seq[j]]
  <1>. DEFINE n == Cardinality(S)
              rank == [x \in S |-> Cardinality(below[x]) + 1]
  <1>. USE DEF Orders
  <1>0. n \in Nat
    BY FS_CardinalityType
  <1>1. \A x \in S : /\ below[x] \cup {x} \subseteq S
                    /\ IsFiniteSet(below[x]) /\ Cardinality(below[x]) \in Nat
                    /\ IsFiniteSet(below[x] \cup {x})
                    /\ Cardinality(below[x] \cup {x}) = Cardinality(below[x]) + 1
    <2>. TAKE x \in S
    <2>1. IsFiniteSet(below[x]) /\ Cardinality(below[x]) \in Nat /\ x \notin below[x]
      BY FS_Subset, FS_CardinalityType
    <2>. QED
      BY <2>1, FS_AddElement
  <1>2. rank \in [S -> 1 .. n]
    <2>. SUFFICES ASSUME NEW x \in S PROVE Cardinality(below[x]) + 1 \in 1 .. n
      OBVIOUS
    <2>1. below[x] \cup {x} \subseteq S
      BY <1>1
    <2>2. Cardinality(below[x] \cup {x}) <= n
      BY <2>1, FS_Subset
    <2>3. Cardinality(below[x] \cup {x}) = Cardinality(below[x]) + 1 /\ Cardinality(below[x]) \in Nat
      BY <1>1
    <2>. QED
      BY <1>0, <2>2, <2>3
  <1>3. \A x, y \in S : x \in below[y] => rank[x] < rank[y]
    <2>. SUFFICES ASSUME NEW x \in S, NEW y \in S, x \in below[y]
                  PROVE  rank[x] < rank[y]
      OBVIOUS
    <2>1. below[x] \cup {x} \subseteq below[y]
      OBVIOUS
    <2>2. Cardinality(below[x] \cup {x}) <= Cardinality(below[y])
      BY <1>1, <2>1, FS_Subset
    <2>3. /\ Cardinality(below[x] \cup {x}) = Cardinality(below[x]) + 1
          /\ Cardinality(below[x]) \in Nat /\ Cardinality(below[y]) \in Nat
      BY <1>1
    <2>4. rank[x] = Cardinality(below[x]) + 1 /\ rank[y] = Cardinality(below[y]) + 1
      OBVIOUS
    <2>. QED
      BY <2>2, <2>3, <2>4
  <1>. HIDE DEF rank
  <1>4. rank \in Injection(S, 1 .. n)
    <2>1. \A x, y \in S : rank[x] = rank[y] => x = y
      <3>. SUFFICES ASSUME NEW x \in S, NEW y \in S, rank[x] = rank[y] PROVE x = y
        OBVIOUS
      <3>1. rank[x] \in Nat /\ rank[y] \in Nat
        BY <1>2, <1>0
      <3>2. x = y \/ x \in below[y] \/ y \in below[x]
        OBVIOUS
      <3>. QED
        BY <1>3, <3>1, <3>2
    <2>. QED
      BY <1>2, <2>1 DEF Injection, IsInjective
  <1>5. IsFiniteSet(1 .. n) /\ Cardinality(1 .. n) = n
    BY <1>0, FS_Interval
  <1>6. rank \in Surjection(S, 1 .. n)
    BY <1>4, <1>5, FS_Injection
  <1>7. \A k \in 1 .. n : \E x \in S : rank[x] = k
    BY <1>6 DEF Surjection
  <1>. DEFINE seq == [k \in 1 .. n |-> CHOOSE x \in S : rank[x] = k]
  <1>8. \A k \in 1 .. n : seq[k] \in S /\ rank[seq[k]] = k
    BY <1>7
  <1>9. seq \in [1 .. n -> S] /\ DOMAIN seq = 1 .. n
    BY <1>7
  <1>. HIDE DEF seq
  <1>10. seq \in SetToSeqs(S)
    BY <1>8, <1>9 DEF SetToSeqs
  <1>11. \A i, j \in DOMAIN seq : i < j => seq[i] \in below[seq[j]]
    <2>. SUFFICES ASSUME NEW i \in 1 .. n, NEW j \in 1 .. n, i < j
                  PROVE  seq[i] \in below[seq[j]]
      BY <1>9
    <2>1. ~(rank[seq[j]] < rank[seq[i]]) /\ seq[i] # seq[j]
      BY <1>0, <1>8
    <2>. QED
      BY <1>3, <1>8, <2>1
  <1>. QED
    BY <1>10, <1>11

\* Numbers can be listed upwards.
LEMMA NumbersListed ==
  ASSUME NEW S, IsFiniteSet(S), S \subseteq Nat
  PROVE  \E seq \in SetToSeqs(S) : \A i, j \in DOMAIN seq : i < j => seq[i] < seq[j]
  <1>. DEFINE below == [x \in S |-> {y \in S : y < x}]
  <1>1. \A x, y \in S : y \in below[x] <=> y < x
    OBVIOUS
  <1>2. below \in [S -> SUBSET S]
    OBVIOUS
  <1>. HIDE DEF below
  <1>3. ASSUME NEW x \in S PROVE x \notin below[x]
    <2>1. x \in Nat /\ ~(x < x)
      OBVIOUS
    <2>. QED
      BY <1>1, <2>1
  <1>4. ASSUME NEW x \in S, NEW y \in S, x \in below[y] PROVE below[x] \subseteq below[y]
    <2>. SUFFICES ASSUME NEW z \in below[x] PROVE z \in below[y]
      OBVIOUS
    <2>1. z \in S
      BY <1>2
    <2>2. z \in Nat /\ x \in Nat /\ y \in Nat
      BY <2>1
    <2>3. z < x /\ x < y
      BY <1>1, <1>4, <2>1
    <2>4. z < y
      BY <2>2, <2>3
    <2>. QED
      BY <1>1, <2>1, <2>4
  <1>5. ASSUME NEW x \in S, NEW y \in S PROVE x = y \/ x \in below[y] \/ y \in below[x]
    <2>1. x = y \/ x < y \/ y < x
      OBVIOUS
    <2>. QED
      BY <1>1, <2>1
  <1>6. PICK seq \in SetToSeqs(S) : \A i, j \in DOMAIN seq : i < j => seq[i] \in below[seq[j]]
    <2>1. Orders(below, S)
      BY <1>2, <1>3, <1>4, <1>5 DEF Orders
    <2>. QED
      BY <2>1, Listed
  <1>7. \A i \in DOMAIN seq : seq[i] \in S
    BY Enumerated
  <1>8. \A i, j \in DOMAIN seq : i < j => seq[i] < seq[j]
    BY <1>1, <1>6, <1>7
  <1>. QED
    BY <1>8

-----------------------------------------------------------------------------
(* What the pages show *)

\* The elements of a list that are in a set, each as often as before.
LEMMA KeptElements ==
  ASSUME NEW T, NEW s \in Seq(T), NEW S
  PROVE  /\ Kept(s, S) \in Seq(T)
         /\ Range(Kept(s, S)) = Range(s) \cap S
         /\ IsInjective(s) => IsInjective(Kept(s, S))
  <1>. DEFINE P == {k \in DOMAIN s : s[k] \in S}
              c == Cardinality(P)
              Ascends(t) == \A k \in 1 .. Len(t) - 1 : t[k] < t[k + 1]
              places == CHOOSE t \in SetToSeqs(P) : Ascends(t)
  <1>1. /\ IsFiniteSet(P) /\ P \subseteq Nat /\ c \in Nat
        /\ DOMAIN s = 1 .. Len(s) /\ Len(s) \in Nat
    <2>1. DOMAIN s = 1 .. Len(s) /\ Len(s) \in Nat /\ P \subseteq 1 .. Len(s)
      OBVIOUS
    <2>2. IsFiniteSet(1 .. Len(s))
      BY <2>1, FS_Interval
    <2>. HIDE DEF P
    <2>3. IsFiniteSet(P)
      BY <2>1, <2>2, FS_Subset
    <2>4. c \in Nat
      BY <2>3, FS_CardinalityType
    <2>. QED
      BY <2>1, <2>3, <2>4
  <1>2. Kept(s, S) = [k \in DOMAIN places |-> s[places[k]]]
    BY DEF Kept
  <1>3. \E t \in SetToSeqs(P) : Ascends(t)
    <2>1. PICK t \in SetToSeqs(P) : \A i, j \in DOMAIN t : i < j => t[i] < t[j]
      <3>. HIDE DEF P
      <3>. QED
        BY <1>1, NumbersListed
    <2>2. DOMAIN t = 1 .. c /\ t \in Seq(P) /\ Len(t) = c
      BY <1>1 DEF SetToSeqs
    <2>3. ASSUME NEW k \in 1 .. Len(t) - 1 PROVE t[k] < t[k + 1]
      <3>. HIDE DEF P
      <3>1. k \in DOMAIN t /\ k + 1 \in DOMAIN t /\ k < k + 1
        BY <1>1, <2>2
      <3>. QED
        BY <2>1, <3>1
    <2>. QED
      BY <2>3
  <1>4. places \in SetToSeqs(P)
    <2>. HIDE DEF P, Ascends
    <2>. QED
      BY <1>3
  <1>. HIDE DEF places, P
  <1>5. /\ DOMAIN places = 1 .. c
        /\ \A i \in DOMAIN places : places[i] \in P
        /\ \A i, j \in DOMAIN places : places[i] = places[j] => i = j
        /\ \A x \in P : \E i \in DOMAIN places : places[i] = x
    BY <1>1, <1>4, Enumerated
  <1>6. \A i \in DOMAIN places : places[i] \in DOMAIN s /\ s[places[i]] \in S /\ s[places[i]] \in T
    BY <1>5 DEF P
  <1>7. Kept(s, S) \in [1 .. c -> T]
    BY <1>2, <1>5, <1>6
  <1>8. Kept(s, S) \in Seq(T)
    BY <1>1, <1>7
  <1>9. Range(Kept(s, S)) = Range(s) \cap S
    <2>1. ASSUME NEW x \in Range(s) \cap S PROVE x \in Range(Kept(s, S))
      <3>1. PICK k \in DOMAIN s : s[k] = x
        BY DEF Range
      <3>2. k \in P
        BY <3>1 DEF P
      <3>3. PICK i \in DOMAIN places : places[i] = k
        BY <1>5, <3>2
      <3>. QED
        BY <1>2, <3>1, <3>3 DEF Range
    <2>2. ASSUME NEW x \in Range(Kept(s, S)) PROVE x \in Range(s) \cap S
      BY <1>2, <1>6, <2>2 DEF Range
    <2>. QED
      BY <2>1, <2>2
  <1>10. ASSUME IsInjective(s) PROVE IsInjective(Kept(s, S))
    BY <1>2, <1>5, <1>6, <1>10 DEF IsInjective
  <1>. QED
    BY <1>8, <1>9, <1>10

\* The first n of a list, none of them new and none twice.
LEMMA ForemostElements ==
  ASSUME NEW T, NEW s \in Seq(T), NEW n \in Nat \ {0}
  PROVE  /\ Range(Foremost(s, n)) \subseteq Range(s)
         /\ IsInjective(s) => IsInjective(Foremost(s, n))
         /\ Foremost(s, n) = <<>> => s = <<>>
  <1>. DEFINE m == IF Len(s) < n THEN Len(s) ELSE n
  <1>1. m \in Nat /\ m <= Len(s) /\ DOMAIN s = 1 .. Len(s) /\ Len(s) \in Nat
    OBVIOUS
  <1>2. /\ Foremost(s, n) = SubSeq(s, 1, m)
        /\ Len(SubSeq(s, 1, m)) = m
        /\ \A i \in 1 .. m : SubSeq(s, 1, m)[i] = s[i]
        /\ DOMAIN SubSeq(s, 1, m) = 1 .. m
    BY <1>1, SubSeqProperties DEF Foremost
  <1>3. m = 0 => Len(s) = 0
    BY <1>1
  <1>. HIDE DEF m
  <1>. QED
    BY <1>1, <1>2, <1>3, EmptySeq DEF Range, IsInjective

-----------------------------------------------------------------------------
(* The invariants *)

Uploading == {"store", "rows", "undo"}
Uploads(j) == j.pc \in Uploading \/ j.then = "undo"

\* After DeleteImage, the image of the request is gone.
Removing == {"replace", "promote", "normalize", "face", "address", "erase"}

\* What a request carries, by where it is.
JobType(j) ==
    /\ DOMAIN j = DOMAIN Idle
    /\ Uploads(j) => j.stored \in Seq(Uuids) /\ IsInjective(j.stored)
    /\ j.pc \in {"store", "rows"} => IsFiniteSet(DOMAIN j.seen)
    /\ j.pc \in {"delete", "metadata"} => j.image \in Uuids /\ j.copy \in Images
    /\ j.pc \in {"delete", "replace", "promote", "normalize", "erase"} => j.then = "erase"
    /\ j.then = "erase" => j.image \in Uuids /\ j.copy \in Images
    /\ j.pc \in {"primary", "type"} => j.then = "primary"
    /\ j.pc = "type" => j.image \in Uuids \cup {None} /\ (j.image # None => j.copy \in Images)
    /\ j.pc = "promote" => j.order[1] \in Uuids /\ j.row \in Images
    /\ j.pc = "address" => j.address \in Uuids \cup {None, Typed}
    /\ j.pc = "reorder" => j.order \in Seq(Uuids)
    /\ j.pc = "create" => j.id \in Nat /\ j.row \in Products /\ j.row.bundle = 0
    /\ j.pc = "update" =>
         /\ j.id \in Nat /\ j.copy \in Products /\ j.row \in Products
         /\ j.row.removed = j.copy.removed
         /\ j.row.bundle # 0 => j.row.bundle = j.copy.bundle /\ j.row.cat = j.copy.cat
         /\ j.then = "primary" => j.id = Pictured /\ j.row.image = Typed
    /\ j.pc \in {"bundle", "catalogue", "showcase"} => j.order \in Seq(Nat) /\ IsInjective(j.order)
    /\ j.pc = "bundle" => j.other \in Seq(Nat) /\ IsInjective(j.other)
    /\ j.pc = "showcase" => j.page \in Pages

\* What it names is there, or was: ids of pieces and ids that were drawn.
JobFits(j, ids, uuids) ==
    /\ Uploads(j) => Range(j.stored) \subseteq uuids
    /\ j.image \in uuids \cup {None}
    /\ j.pc = "promote" => j.order[1] \in uuids
    /\ j.pc = "showcase" => Range(j.order) \subseteq ids

Rows ==
    /\ IsFiniteSet(DOMAIN products) /\ DOMAIN products \subseteq Nat
    /\ Pictured \in DOMAIN products
    /\ \A p \in DOMAIN products : products[p] \in Products

Gallery ==
    /\ IsFiniteSet(drawn) /\ drawn \subseteq Uuids
    /\ DOMAIN images \cup files \subseteq drawn
    /\ \A i \in DOMAIN images : images[i] \in Images

Showcases ==
    /\ DOMAIN showcases = Pages
    /\ \A k \in Pages : /\ showcases[k] \in Seq(Nat) /\ IsInjective(showcases[k])
                        /\ Range(showcases[k]) \subseteq DOMAIN products

Jobs ==
    /\ DOMAIN job = Workers
    /\ \A w \in Workers : JobType(job[w]) /\ JobFits(job[w], DOMAIN products, drawn)

Types == Rows /\ Gallery /\ Showcases /\ Jobs

-----------------------------------------------------------------------------
(* Types *)

LEMMA FieldsOfIdle ==
  DOMAIN Idle = {"pc", "id", "row", "seen", "stored", "left", "image", "copy", "address",
                 "order", "other", "page", "then"}
  BY DEF Idle

LEMMA OverFields ==
  ASSUME NEW f, NEW g, DOMAIN f \subseteq DOMAIN g
  PROVE  /\ DOMAIN Over(f, g) = DOMAIN g
         /\ \A x \in DOMAIN f : Over(f, g)[x] = f[x]
         /\ \A x \in DOMAIN g \ DOMAIN f : Over(f, g)[x] = g[x]
  BY DEF Over

LEMMA IdleType == JobType(Idle) /\ \A ids, uuids : JobFits(Idle, ids, uuids)
  BY DEF JobType, JobFits, Uploads, Uploading, Idle

LEMMA JobsStep ==
  ASSUME Jobs, NEW w \in Workers, NEW new, job' = [job EXCEPT ![w] = new], JobType(new),
         JobFits(new, DOMAIN products', drawn'),
         DOMAIN products \subseteq DOMAIN products', drawn \subseteq drawn'
  PROVE  Jobs'
  BY DEF Jobs, JobFits

\* A request begins, and nothing else changes.
LEMMA StartTypes ==
  ASSUME Types, NEW w \in Workers, NEW state, Start(w, state), UNCHANGED <<productVars, imageVars>>,
         JobType(Over(state, Idle)), JobFits(Over(state, Idle), DOMAIN products, drawn)
  PROVE  Types'
  <1>1. Jobs'
    BY JobsStep DEF Types, Start, productVars, imageVars
  <1>2. Rows' /\ Gallery' /\ Showcases'
    BY DEF Types, Rows, Gallery, Showcases, productVars, imageVars
  <1>. QED
    BY <1>1, <1>2 DEF Types

\* A request goes on, having changed rows or files.
LEMMA ContinueTypes ==
  ASSUME Types, NEW w \in Workers, NEW new, job' = [job EXCEPT ![w] = new], JobType(new),
         JobFits(new, DOMAIN products, drawn'), Rows', Gallery', drawn \subseteq drawn',
         DOMAIN products' = DOMAIN products, UNCHANGED showcases
  PROVE  Types'
  <1>1. Jobs'
    BY JobsStep DEF Types
  <1>2. Showcases'
    BY DEF Types, Showcases
  <1>. QED
    BY <1>1, <1>2 DEF Types

LEMMA SameRows == Types /\ UNCHANGED productVars => Rows' /\ DOMAIN products' = DOMAIN products
  BY DEF Types, Rows, productVars

LEMMA SameGallery == Types /\ UNCHANGED imageVars => Gallery'
  BY DEF Types, Gallery, imageVars

LEMMA JobHere ==
  ASSUME Types, NEW w \in Workers
  PROVE  JobType(job[w]) /\ JobFits(job[w], DOMAIN products, drawn)
  BY DEF Types, Jobs

LEMMA ImagesAreFinite ==
  ASSUME Types
  PROVE  IsFiniteSet(DOMAIN images) /\ DOMAIN images \subseteq Uuids
  BY FS_Subset DEF Types, Gallery

LEMMA BeginningTypes ==
  ASSUME Types, NEW w \in Workers,
         \/ \E n \in 1 .. MaxImages : UploadImages(w, n)
         \/ \E i \in DOMAIN images : SetPrimaryImage(w, i) \/ UpdateImageMetadata(w, i) \/ RemoveImage(w, i)
         \/ \E s \in ImageLists : ReorderImages(w, s)
  PROVE  Types'
  <1>. USE DEF productVars, imageVars
  <1>0. /\ IsFiniteSet(DOMAIN images) /\ DOMAIN images \subseteq Uuids /\ DOMAIN images \subseteq drawn
        /\ \A i \in DOMAIN images : images[i] \in Images
    BY ImagesAreFinite DEF Types, Gallery
  <1>1. ASSUME NEW n \in 1 .. MaxImages, UploadImages(w, n)
        PROVE  Types'
    <2>1. n \in Nat /\ IsInjective(<<>>) /\ <<>> \in Seq(Uuids) /\ Range(<<>>) = {}
      BY CatalogueAssumption DEF IsInjective, Range
    <2>2. JobType(Over([pc |-> "store", left |-> n, seen |-> images], Idle))
          /\ JobFits(Over([pc |-> "store", left |-> n, seen |-> images], Idle), DOMAIN products, drawn)
      BY <1>0, <2>1 DEF JobType, JobFits, Uploads, Uploading, Over, Idle
    <2>. QED
      BY <1>1, <2>2, StartTypes DEF UploadImages
  <1>2. ASSUME NEW i \in DOMAIN images, SetPrimaryImage(w, i)
        PROVE  Types'
    <2>1. JobType(Over([pc |-> "clear", image |-> i], Idle))
          /\ JobFits(Over([pc |-> "clear", image |-> i], Idle), DOMAIN products, drawn)
      BY <1>0 DEF JobType, JobFits, Uploads, Uploading, Over, Idle
    <2>. QED
      BY <1>2, <2>1, StartTypes DEF SetPrimaryImage
  <1>3. ASSUME NEW i \in DOMAIN images, UpdateImageMetadata(w, i)
        PROVE  Types'
    <2>1. JobType(Over([pc |-> "metadata", image |-> i, copy |-> images[i]], Idle))
          /\ JobFits(Over([pc |-> "metadata", image |-> i, copy |-> images[i]], Idle), DOMAIN products, drawn)
      BY <1>0 DEF JobType, JobFits, Uploads, Uploading, Over, Idle
    <2>. QED
      BY <1>3, <2>1, StartTypes DEF UpdateImageMetadata
  <1>4. ASSUME NEW i \in DOMAIN images, RemoveImage(w, i)
        PROVE  Types'
    <2>1. JobType(Over([pc |-> "delete", image |-> i, copy |-> images[i], then |-> "erase"], Idle))
          /\ JobFits(Over([pc |-> "delete", image |-> i, copy |-> images[i], then |-> "erase"], Idle), DOMAIN products, drawn)
      BY <1>0 DEF JobType, JobFits, Uploads, Uploading, Over, Idle
    <2>. QED
      BY <1>4, <2>1, StartTypes DEF RemoveImage
  <1>5. ASSUME NEW s \in ImageLists, ReorderImages(w, s)
        PROVE  Types'
    <2>1. s \in Seq(Uuids)
      BY <1>0, FS_CardinalityType DEF ImageLists
    <2>2. JobType(Over([pc |-> "reorder", order |-> s], Idle))
          /\ JobFits(Over([pc |-> "reorder", order |-> s], Idle), DOMAIN products, drawn)
      BY <2>1 DEF JobType, JobFits, Uploads, Uploading, Over, Idle
    <2>. QED
      BY <1>5, <2>2, StartTypes DEF ReorderImages
  <1>. QED
    BY <1>1, <1>2, <1>3, <1>4, <1>5

LEMMA StoreFileTypes ==
  ASSUME Types, NEW w \in Workers, StoreFile(w)
  PROVE  Types'
  <1>. DEFINE j == job[w]
  <1>1. /\ JobType(j) /\ JobFits(j, DOMAIN products, drawn) /\ j.pc = "store"
        /\ j.stored \in Seq(Uuids) /\ IsInjective(j.stored) /\ Range(j.stored) \subseteq drawn
        /\ IsFiniteSet(DOMAIN j.seen)
    BY JobHere DEF StoreFile, At, JobType, JobFits, Uploads, Uploading
  <1>2. Rows' /\ DOMAIN products' = DOMAIN products /\ UNCHANGED showcases
    BY SameRows DEF StoreFile, productVars
  <1>3. ASSUME NEW u \in Uuids \ drawn, drawn' = drawn \cup {u}, files' = files \cup {u},
               Continue(w, [stored |-> Append(j.stored, u), left |-> j.left - 1,
                            pc |-> IF j.left = 1 THEN "rows" ELSE "store"])
        PROVE  Types'
    <2>. DEFINE more == Append(j.stored, u)
                new == Over([stored |-> more, left |-> j.left - 1,
                             pc |-> IF j.left = 1 THEN "rows" ELSE "store"], j)
    <2>1. more \in Seq(Uuids) /\ Range(more) \subseteq drawn \cup {u} /\ IsInjective(more)
      <3>1. /\ more \in Seq(Uuids) /\ DOMAIN more = 1 .. Len(j.stored) + 1
            /\ more[Len(j.stored) + 1] = u /\ Len(j.stored) \in Nat
            /\ \A i \in 1 .. Len(j.stored) : i \in DOMAIN j.stored /\ more[i] = j.stored[i]
        BY <1>1
      <3>2. \A i \in 1 .. Len(j.stored) : more[i] \in drawn
        BY <1>1, <3>1 DEF Range
      <3>. HIDE DEF more, j
      <3>3. \A i \in DOMAIN more : i = Len(j.stored) + 1 \/ i \in 1 .. Len(j.stored)
        BY <3>1
      <3>. QED
        BY <1>1, <1>3, <3>1, <3>2, <3>3 DEF Range, IsInjective
    <2>2. JobType(new) /\ JobFits(new, DOMAIN products, drawn')
      <3>. HIDE DEF more, j
      <3>1. new.pc \in {"rows", "store"} /\ new.stored = more /\ DOMAIN new = DOMAIN Idle
            /\ new.then = j.then /\ new.image = j.image /\ new.seen = j.seen /\ new.copy = j.copy
        BY <1>1 DEF JobType, Over, Idle
      <3>. HIDE DEF new
      <3>. QED
        BY <1>1, <1>3, <2>1, <3>1 DEF JobType, JobFits, Uploads, Uploading, Over, Idle
    <2>3. Gallery'
      BY <1>3, FS_AddElement DEF StoreFile, Types, Gallery
    <2>. QED
      BY <1>2, <1>3, <2>2, <2>3, ContinueTypes DEF Continue
  <1>4. ASSUME Goto(w, "undo"), UNCHANGED <<files, drawn>>
        PROVE  Types'
    <2>1. JobType(Over([pc |-> "undo"], j)) /\ JobFits(Over([pc |-> "undo"], j), DOMAIN products, drawn')
      <3>. HIDE DEF j
      <3>. QED
        BY <1>1, <1>4 DEF JobType, JobFits, Uploads, Uploading, Over, Idle
    <2>2. Gallery'
      BY <1>4, SameGallery DEF StoreFile, imageVars
    <2>. QED
      BY <1>2, <1>4, <2>1, <2>2, ContinueTypes DEF Goto, Continue
  <1>. QED
    BY <1>3, <1>4 DEF StoreFile

\* The rows of an upload are rows, one for each file.
LEMMA NewImagesType ==
  ASSUME NEW stored \in Seq(Uuids), NEW seen, IsFiniteSet(DOMAIN seen)
  PROVE  /\ DOMAIN NewImages(stored, seen) = Range(stored)
         /\ \A u \in Range(stored) : NewImages(stored, seen)[u] \in Images
  <1>1. Cardinality(DOMAIN seen) \in Nat
    BY FS_CardinalityType
  <1>2. ASSUME NEW u \in Range(stored)
        PROVE  NewImages(stored, seen)[u] \in Images
    <2>. DEFINE k == CHOOSE j \in DOMAIN stored : stored[j] = u
    <2>1. k \in DOMAIN stored /\ stored[k] = u
      BY DEF Range
    <2>2. k \in Nat /\ k >= 1 /\ u \in Uuids
      BY <2>1
    <2>. HIDE DEF k
    <2>3. Cardinality(DOMAIN seen) + k - 1 \in Nat
      BY <1>1, <2>2
    <2>4. NewImages(stored, seen)[u]
            = [path |-> u, url |-> u, position |-> Cardinality(DOMAIN seen) + k - 1,
               primary |-> Primaries(seen) = {} /\ k = 1]
      BY DEF NewImages, k
    <2>. QED
      BY <2>2, <2>3, <2>4 DEF Images
  <1>. QED
    BY <1>2 DEF NewImages

\* A row written over the gallery, at an id that was drawn.
LEMMA SavedImageType ==
  ASSUME Types, NEW i \in drawn', NEW row \in Images, SaveImage(i, row),
         drawn \subseteq drawn', drawn' \subseteq Uuids, IsFiniteSet(drawn'), files' \subseteq drawn'
  PROVE  Gallery'
  BY DEF Types, Gallery, SaveImage, Over

\* A gallery with the same ids, or fewer, whose rows are rows.
LEMMA ChangedImagesType ==
  ASSUME Types, DOMAIN images' \subseteq DOMAIN images,
         \A i \in DOMAIN images' : images'[i] \in Images,
         files' \subseteq files, drawn' = drawn
  PROVE  Gallery'
  BY DEF Types, Gallery

\* Where a request goes on to without anything new.
LEMMA GotoType ==
  ASSUME NEW j, JobType(j), NEW ids, NEW uuids, JobFits(j, ids, uuids),
         NEW to \in {"undo", "mark", "face", "replace", "normalize", "erase", "primary"},
         to = "undo" => Uploads(j),
         to \in {"replace", "normalize", "erase"} => j.then = "erase",
         to = "primary" => j.then = "primary"
  PROVE  JobType(Over([pc |-> to], j)) /\ JobFits(Over([pc |-> to], j), ids, uuids)
  <1>. DEFINE new == Over([pc |-> to], j)
  <1>1. /\ new.pc = to /\ DOMAIN new = DOMAIN Idle /\ new.then = j.then /\ new.image = j.image
        /\ new.copy = j.copy /\ new.stored = j.stored
    BY DEF JobType, Over, Idle
  <1>. HIDE DEF new
  <1>2. /\ to \notin {"store", "rows", "delete", "metadata", "promote", "type", "address",
                      "reorder", "create", "update", "bundle", "catalogue", "showcase"}
        /\ Uploads(new) => Uploads(j)
    BY <1>1 DEF Uploads, Uploading
  <1>3. JobType(new)
    BY <1>1, <1>2 DEF JobType
  <1>4. JobFits(new, ids, uuids)
    BY <1>1, <1>2 DEF JobFits
  <1>. QED
    BY <1>3, <1>4 DEF new

LEMMA InsertImagesTypes ==
  ASSUME Types, NEW w \in Workers, InsertImages(w)
  PROVE  Types'
  <1>. DEFINE j == job[w]
  <1>1. /\ JobType(j) /\ JobFits(j, DOMAIN products, drawn) /\ j.pc = "rows" /\ Uploads(j)
        /\ j.stored \in Seq(Uuids) /\ IsInjective(j.stored) /\ Range(j.stored) \subseteq drawn
        /\ IsFiniteSet(DOMAIN j.seen)
    BY JobHere DEF InsertImages, At, JobType, JobFits, Uploads, Uploading
  <1>2. Rows' /\ DOMAIN products' = DOMAIN products /\ UNCHANGED showcases
    BY SameRows DEF InsertImages, productVars
  <1>3. CASE images' = Over(NewImages(j.stored, j.seen), images)
             /\ Continue(w, [pc |-> "face", then |-> "undo"])
    <2>. DEFINE new == Over([pc |-> "face", then |-> "undo"], j)
    <2>1. JobType(new) /\ JobFits(new, DOMAIN products, drawn)
      <3>. HIDE DEF j
      <3>1. /\ new.pc = "face" /\ new.then = "undo" /\ DOMAIN new = DOMAIN Idle
            /\ new.stored = j.stored /\ new.image = j.image
        BY <1>1 DEF JobType, Over, Idle
      <3>. HIDE DEF new
      <3>. QED
        BY <1>1, <3>1 DEF JobType, JobFits, Uploads, Uploading
    <2>2. Gallery'
      <3>1. DOMAIN images' = Range(j.stored) \cup DOMAIN images
        BY <1>1, <1>3, NewImagesType DEF Over
      <3>2. \A i \in DOMAIN images' : images'[i] \in Images
        BY <1>1, <1>3, NewImagesType DEF Over, Types, Gallery
      <3>. QED
        BY <1>1, <3>1, <3>2 DEF InsertImages, Types, Gallery
    <2>. QED
      BY <1>2, <1>3, <2>1, <2>2, ContinueTypes DEF Continue, InsertImages
  <1>4. CASE Goto(w, "undo") /\ UNCHANGED images
    <2>1. JobType(Over([pc |-> "undo"], j)) /\ JobFits(Over([pc |-> "undo"], j), DOMAIN products, drawn)
      BY <1>1, GotoType
    <2>2. Gallery'
      BY <1>4, SameGallery DEF InsertImages, imageVars
    <2>. QED
      BY <1>2, <1>4, <2>1, <2>2, ContinueTypes DEF Goto, Continue, InsertImages
  <1>. QED
    BY <1>3, <1>4 DEF InsertImages

\* A request ends.
LEMMA EndTypes ==
  ASSUME Types, NEW w \in Workers, job' = [job EXCEPT ![w] = Idle], Rows', Gallery',
         drawn \subseteq drawn', DOMAIN products' = DOMAIN products, UNCHANGED showcases
  PROVE  Types'
  BY IdleType, ContinueTypes

LEMMA SyncTypes ==
  ASSUME Types, NEW w \in Workers, SyncLegacyImage(w)
  PROVE  Types'
  <1>. DEFINE j == job[w]
  <1>1. JobType(j) /\ JobFits(j, DOMAIN products, drawn) /\ j.pc = "face"
    BY JobHere DEF SyncLegacyImage, At
  <1>2. /\ Rows' /\ DOMAIN products' = DOMAIN products /\ UNCHANGED showcases
        /\ Gallery' /\ drawn' = drawn
    BY SameRows, SameGallery DEF SyncLegacyImage, productVars, imageVars
  <1>3. ASSUME NEW a \in Uuids \cup {None, Typed}, Continue(w, [pc |-> "address", address |-> a])
        PROVE  Types'
    <2>. DEFINE new == Over([pc |-> "address", address |-> a], j)
    <2>1. /\ new.pc = "address" /\ new.address = a /\ DOMAIN new = DOMAIN Idle
          /\ new.then = j.then /\ new.stored = j.stored /\ new.image = j.image /\ new.copy = j.copy
      <3>. HIDE DEF j
      <3>. QED
        BY <1>1 DEF JobType, Over, Idle
    <2>2. JobType(new) /\ JobFits(new, DOMAIN products, drawn)
      <3>. HIDE DEF j, new
      <3>. QED
        BY <1>1, <2>1 DEF JobType, JobFits, Uploads, Uploading
    <2>. QED
      BY <1>2, <1>3, <2>2, ContinueTypes DEF Continue
  <1>4. CASE DOMAIN images = {} /\ Continue(w, [pc |-> "address", address |-> None])
    BY <1>3, <1>4
  <1>5. CASE \E i \in Faces(images) : Continue(w, [pc |-> "address", address |-> images[i].url])
    <2>1. PICK i \in Faces(images) : Continue(w, [pc |-> "address", address |-> images[i].url])
      BY <1>5
    <2>2. i \in DOMAIN images
      BY DEF Faces, Primaries, Lowest
    <2>3. images[i].url \in Uuids \cup {None, Typed}
      BY <2>2 DEF Types, Gallery, Images
    <2>. QED
      BY <1>3, <2>1, <2>3
  <1>6. CASE j.then = "undo" /\ Goto(w, "undo")
    <2>1. Uploads(j)
      BY <1>6 DEF Uploads
    <2>2. JobType(Over([pc |-> "undo"], j)) /\ JobFits(Over([pc |-> "undo"], j), DOMAIN products, drawn)
      BY <1>1, <2>1, GotoType
    <2>. QED
      BY <1>2, <1>6, <2>2, ContinueTypes DEF Goto, Continue
  <1>7. CASE End(w)
    BY <1>2, <1>7, EndTypes DEF End
  <1>. QED
    BY <1>4, <1>5, <1>6, <1>7 DEF SyncLegacyImage

LEMMA SaveAddressTypes ==
  ASSUME Types, NEW w \in Workers, SaveAddress(w)
  PROVE  Types'
  <1>1. /\ JobType(job[w]) /\ JobFits(job[w], DOMAIN products, drawn)
        /\ job[w].address \in Uuids \cup {None, Typed}
    BY JobHere DEF SaveAddress, At, JobType
  <1>2. Rows' /\ DOMAIN products' = DOMAIN products
    BY <1>1 DEF SaveAddress, Types, Rows, Products
  <1>3. Gallery' /\ drawn' = drawn /\ UNCHANGED showcases
    BY SameGallery DEF SaveAddress, imageVars
  <1>4. CASE job[w].then = "erase" /\ Goto(w, "erase")
    <2>1. JobType(Over([pc |-> "erase"], job[w]))
          /\ JobFits(Over([pc |-> "erase"], job[w]), DOMAIN products, drawn)
      BY <1>1, <1>4, GotoType
    <2>. QED
      BY <1>2, <1>3, <1>4, <2>1, ContinueTypes DEF Goto, Continue
  <1>5. CASE End(w)
    BY <1>2, <1>3, <1>5, EndTypes DEF End
  <1>. QED
    BY <1>4, <1>5 DEF SaveAddress

LEMMA TypeAddressTypes ==
  ASSUME Types, NEW w \in Workers, TypeAddress(w)
  PROVE  Types'
  <1>1. /\ job[w].image \in drawn \cup {None}
        /\ job[w].image # None => job[w].copy \in Images
    BY JobHere DEF TypeAddress, At, JobType, JobFits
  <1>2. Rows' /\ DOMAIN products' = DOMAIN products /\ UNCHANGED showcases
    BY SameRows DEF TypeAddress, productVars
  <1>3. Gallery' /\ drawn \subseteq drawn'
    <2>1. CASE job[w].image # None
      <3>1. [job[w].copy EXCEPT !.url = Typed, !.path = None] \in Images
        BY <1>1, <2>1 DEF Images
      <3>. QED
        BY <1>1, <2>1, <3>1, SavedImageType DEF TypeAddress, Types, Gallery
    <2>2. CASE job[w].image = None
      <3>1. PICK u \in Uuids \ drawn :
               /\ drawn' = drawn \cup {u}
               /\ SaveImage(u, [path |-> None, url |-> Typed, position |-> 0, primary |-> TRUE])
        BY <2>2 DEF TypeAddress
      <3>2. [path |-> None, url |-> Typed, position |-> 0, primary |-> TRUE] \in Images
        BY DEF Images
      <3>3. IsFiniteSet(drawn') /\ drawn' \subseteq Uuids /\ files' \subseteq drawn'
        BY <3>1, FS_AddElement DEF TypeAddress, Types, Gallery
      <3>. QED
        BY <3>1, <3>2, <3>3, SavedImageType
    <2>. QED
      BY <2>1, <2>2
  <1>. QED
    BY <1>2, <1>3, EndTypes DEF TypeAddress, End

LEMMA ReadPrimaryTypes ==
  ASSUME Types, NEW w \in Workers, ReadPrimary(w)
  PROVE  Types'
  <1>. DEFINE j == job[w]
  <1>1. JobType(j) /\ JobFits(j, DOMAIN products, drawn)
    BY JobHere
  <1>2. /\ Rows' /\ DOMAIN products' = DOMAIN products /\ UNCHANGED showcases
        /\ Gallery' /\ drawn' = drawn
    BY SameRows, SameGallery DEF ReadPrimary, productVars, imageVars
  <1>3. CASE Primaries(images) = {} /\ Continue(w, [pc |-> "type", image |-> None])
    <2>. DEFINE new == Over([pc |-> "type", image |-> None], j)
    <2>1. /\ new.pc = "type" /\ new.image = None /\ DOMAIN new = DOMAIN Idle
          /\ new.then = j.then /\ new.stored = j.stored
      <3>. HIDE DEF j
      <3>. QED
        BY <1>1 DEF JobType, Over, Idle
    <2>2. j.then = "primary"
      BY JobHere DEF ReadPrimary, At, JobType
    <2>3. JobType(new) /\ JobFits(new, DOMAIN products, drawn)
      <3>. HIDE DEF j, new
      <3>. QED
        BY <1>1, <2>1, <2>2 DEF JobType, JobFits, Uploads, Uploading
    <2>. QED
      BY <1>2, <1>3, <2>3, ContinueTypes DEF Continue
  <1>4. ASSUME NEW i \in Primaries(images),
               Continue(w, [pc |-> "type", image |-> i, copy |-> images[i]])
        PROVE  Types'
    <2>. DEFINE new == Over([pc |-> "type", image |-> i, copy |-> images[i]], j)
    <2>1. /\ new.pc = "type" /\ new.image = i /\ new.copy = images[i] /\ DOMAIN new = DOMAIN Idle
          /\ new.then = j.then /\ new.stored = j.stored
      <3>. HIDE DEF j
      <3>. QED
        BY <1>1 DEF JobType, Over, Idle
    <2>2. i \in drawn /\ i \in Uuids /\ images[i] \in Images /\ j.then = "primary"
      BY JobHere DEF Primaries, Types, Gallery, ReadPrimary, At, JobType
    <2>3. JobType(new) /\ JobFits(new, DOMAIN products, drawn)
      <3>. HIDE DEF j, new
      <3>. QED
        BY <1>1, <2>1, <2>2 DEF JobType, JobFits, Uploads, Uploading
    <2>. QED
      BY <1>2, <1>4, <2>3, ContinueTypes DEF Continue
  <1>. QED
    BY <1>3, <1>4 DEF ReadPrimary

\* Steps that change rows of images and leave their ids.
LEMMA MarkingTypes ==
  ASSUME Types, NEW w \in Workers, ClearPrimary(w) \/ MarkPrimary(w) \/ SaveMetadata(w) \/ SavePositions(w)
  PROVE  Types'
  <1>1. JobType(job[w]) /\ JobFits(job[w], DOMAIN products, drawn)
    BY JobHere
  <1>2. /\ Rows' /\ DOMAIN products' = DOMAIN products /\ UNCHANGED showcases
        /\ files' = files /\ drawn' = drawn
    BY SameRows DEF ClearPrimary, MarkPrimary, SaveMetadata, SavePositions, productVars
  <1>3. /\ JobType(Over([pc |-> "mark"], job[w])) /\ JobFits(Over([pc |-> "mark"], job[w]), DOMAIN products, drawn)
        /\ JobType(Over([pc |-> "face"], job[w])) /\ JobFits(Over([pc |-> "face"], job[w]), DOMAIN products, drawn)
    BY <1>1, GotoType
  <1>4. CASE ClearPrimary(w)
    <2>1. Gallery'
      BY <1>2, <1>4, ChangedImagesType DEF ClearPrimary, Types, Gallery, Images
    <2>. QED
      BY <1>2, <1>3, <1>4, <2>1, ContinueTypes DEF ClearPrimary, Goto, Continue
  <1>5. CASE MarkPrimary(w)
    <2>1. Gallery'
      BY <1>2, <1>5, ChangedImagesType DEF MarkPrimary, Types, Gallery, Images
    <2>. QED
      BY <1>2, <1>3, <1>5, <2>1, ContinueTypes DEF MarkPrimary, Goto, Continue
  <1>6. CASE SaveMetadata(w)
    <2>1. job[w].image \in drawn /\ job[w].copy \in Images
      BY <1>1, <1>6, CatalogueAssumption DEF SaveMetadata, At, JobType, JobFits
    <2>2. Gallery'
      BY <1>2, <1>6, <2>1, SavedImageType DEF SaveMetadata, Types, Gallery
    <2>. QED
      BY <1>2, <1>6, <2>2, EndTypes DEF SaveMetadata, End
  <1>7. CASE SavePositions(w)
    <2>. DEFINE s == job[w].order
    <2>1. s \in Seq(Uuids)
      BY <1>1, <1>7 DEF SavePositions, At, JobType
    <2>2. PICK last \in [Range(s) -> DOMAIN s] :
             images' = [i \in DOMAIN images |->
                          IF i \in Range(s) THEN [images[i] EXCEPT !.position = last[i] - 1]
                          ELSE images[i]]
      BY <1>7 DEF SavePositions
    <2>3. \A i \in Range(s) : last[i] - 1 \in Nat
      <3>1. DOMAIN s = 1 .. Len(s)
        BY <2>1
      <3>. HIDE DEF s
      <3>. QED
        BY <2>2, <3>1
    <2>. HIDE DEF s
    <2>4. Gallery'
      BY <1>2, <2>2, <2>3, ChangedImagesType DEF Types, Gallery, Images
    <2>. QED
      BY <1>2, <1>7, <2>4, EndTypes DEF SavePositions, End
  <1>. QED
    BY <1>4, <1>5, <1>6, <1>7

LEMMA RemovingTypes ==
  ASSUME Types, NEW w \in Workers,
         DeleteImage(w) \/ FindReplacement(w) \/ Promote(w) \/ NormalizePositions(w)
         \/ EraseFile(w) \/ UndoUpload(w)
  PROVE  Types'
  <1>1. JobType(job[w]) /\ JobFits(job[w], DOMAIN products, drawn)
    BY JobHere
  <1>2. /\ Rows' /\ DOMAIN products' = DOMAIN products /\ UNCHANGED showcases /\ drawn' = drawn
    BY SameRows DEF DeleteImage, FindReplacement, Promote, NormalizePositions, EraseFile,
                    UndoUpload, productVars, imageVars
  <1>3. ASSUME NEW to \in {"replace", "normalize", "face"}, job[w].then = "erase"
        PROVE  JobType(Over([pc |-> to], job[w])) /\ JobFits(Over([pc |-> to], job[w]), DOMAIN products, drawn)
    BY <1>1, <1>3, GotoType
  <1>4. CASE DeleteImage(w)
    <2>1. Gallery'
      BY <1>2, <1>4, ChangedImagesType DEF DeleteImage, Restrict, Types, Gallery
    <2>2. job[w].then = "erase"
      BY <1>1, <1>4 DEF DeleteImage, At, JobType
    <2>. QED
      BY <1>2, <1>3, <1>4, <2>1, <2>2, ContinueTypes DEF DeleteImage, Goto, Continue
  <1>5. CASE FindReplacement(w)
    <2>1. Gallery' /\ job[w].then = "erase"
      BY <1>1, <1>5, SameGallery DEF FindReplacement, At, JobType
    <2>2. CASE Goto(w, "normalize")
      BY <1>2, <1>3, <2>1, <2>2, ContinueTypes DEF Goto, Continue
    <2>3. CASE \E i \in Lowest(images) : Continue(w, [pc |-> "promote", order |-> <<i>>, row |-> images[i]])
      <3>1. PICK i \in Lowest(images) : Continue(w, [pc |-> "promote", order |-> <<i>>, row |-> images[i]])
        BY <2>3
      <3>. DEFINE new == Over([pc |-> "promote", order |-> <<i>>, row |-> images[i]], job[w])
      <3>2. /\ new.pc = "promote" /\ new.order = <<i>> /\ new.row = images[i] /\ DOMAIN new = DOMAIN Idle
            /\ new.then = job[w].then /\ new.stored = job[w].stored
            /\ new.image = job[w].image /\ new.copy = job[w].copy
        BY <1>1 DEF JobType, Over, Idle
      <3>3. i \in drawn /\ i \in Uuids /\ images[i] \in Images /\ new.order[1] = i
        BY <3>2 DEF Lowest, Types, Gallery
      <3>. HIDE DEF new
      <3>4. JobType(new) /\ JobFits(new, DOMAIN products, drawn)
        BY <1>1, <2>1, <3>2, <3>3 DEF JobType, JobFits, Uploads, Uploading
      <3>. QED
        BY <1>2, <2>1, <3>1, <3>4, ContinueTypes DEF Continue, new
    <2>. QED
      BY <1>5, <2>2, <2>3 DEF FindReplacement
  <1>6. CASE Promote(w)
    <2>1. job[w].order[1] \in drawn /\ job[w].row \in Images /\ job[w].then = "erase"
      BY <1>1, <1>6 DEF Promote, At, JobType, JobFits
    <2>2. [job[w].row EXCEPT !.primary = TRUE] \in Images
      BY <2>1 DEF Images
    <2>3. Gallery'
      BY <1>2, <1>6, <2>1, <2>2, SavedImageType DEF Promote, Types, Gallery
    <2>. QED
      BY <1>2, <1>3, <1>6, <2>1, <2>3, ContinueTypes DEF Promote, Goto, Continue
  <1>7. CASE NormalizePositions(w)
    <2>1. PICK s \in Ordered(images) :
             images' = [i \in DOMAIN images |->
                          [images[i] EXCEPT !.position = (CHOOSE k \in DOMAIN s : s[k] = i) - 1]]
      BY <1>7 DEF NormalizePositions
    <2>. DEFINE place(i) == CHOOSE k \in DOMAIN s : s[k] = i
    <2>2. \A i \in DOMAIN images : place(i) - 1 \in Nat
      <3>1. s \in SetToSeqs(DOMAIN images)
        BY DEF Ordered
      <3>2. /\ DOMAIN s = 1 .. Cardinality(DOMAIN images) /\ Cardinality(DOMAIN images) \in Nat
            /\ \A i \in DOMAIN images : \E k \in DOMAIN s : s[k] = i
        BY <3>1, ImagesAreFinite, Enumerated
      <3>3. \A i \in DOMAIN images : place(i) \in DOMAIN s
        BY <3>2
      <3>4. \A k \in DOMAIN s : k - 1 \in Nat
        BY <3>2
      <3>. HIDE DEF place
      <3>. QED
        BY <3>3, <3>4
    <2>. HIDE DEF place
    <2>5. images' = [i \in DOMAIN images |-> [images[i] EXCEPT !.position = place(i) - 1]]
      BY <2>1 DEF place
    <2>3. Gallery'
      BY <1>2, <2>2, <2>5, ChangedImagesType, <1>7 DEF NormalizePositions, Types, Gallery, Images
    <2>4. job[w].then = "erase"
      BY <1>1, <1>7 DEF NormalizePositions, At, JobType
    <2>. QED
      BY <1>2, <1>3, <1>7, <2>3, <2>4, ContinueTypes DEF NormalizePositions, Goto, Continue
  <1>8. CASE EraseFile(w)
    <2>1. Gallery'
      BY <1>2, <1>8 DEF EraseFile, Types, Gallery
    <2>. QED
      BY <1>2, <1>8, <2>1, EndTypes DEF EraseFile, End
  <1>9. CASE UndoUpload(w)
    <2>1. Gallery'
      BY <1>2, <1>9 DEF UndoUpload, Types, Gallery
    <2>. QED
      BY <1>2, <1>9, <2>1, EndTypes DEF UndoUpload, End
  <1>. QED
    BY <1>4, <1>5, <1>6, <1>7, <1>8, <1>9

-----------------------------------------------------------------------------
(* Types of the pieces *)

\* The rank of a piece in a list is a place of it, or none.
LEMMA RankPlaces ==
  ASSUME NEW s \in Seq(Nat), NEW p
  PROVE  /\ Rank(s, p) \in Nat
         /\ p \in Range(s) <=> Rank(s, p) # 0
         /\ p \in Range(s) => Rank(s, p) \in DOMAIN s /\ s[Rank(s, p)] = p
  <1>1. DOMAIN s = 1 .. Len(s) /\ Len(s) \in Nat
    OBVIOUS
  <1>2. CASE p \in Range(s)
    <2>1. \E k \in DOMAIN s : s[k] = p
      BY <1>2 DEF Range
    <2>. DEFINE k == CHOOSE m \in DOMAIN s : s[m] = p
    <2>2. k \in DOMAIN s /\ s[k] = p
      BY <2>1
    <2>3. Rank(s, p) = k
      BY <1>2 DEF Rank
    <2>. HIDE DEF k
    <2>. QED
      BY <1>1, <1>2, <2>2, <2>3
  <1>3. CASE p \notin Range(s)
    BY <1>3 DEF Rank
  <1>. QED
    BY <1>2, <1>3

\* A finite set of numbers has a highest one.
LEMMA HighestIsThere ==
  ASSUME NEW S, IsFiniteSet(S), S \subseteq Nat, S # {}
  PROVE  Highest(S) \in S /\ \A k \in S : k <= Highest(S)
  <1>. DEFINE n == Cardinality(S)
  <1>2. n \in Nat /\ n # 0
    BY FS_CardinalityType, FS_EmptySet
  <1>5. PICK seq \in SetToSeqs(S) : \A i, j \in DOMAIN seq : i < j => seq[i] < seq[j]
    BY NumbersListed
  <1>6. /\ DOMAIN seq = 1 .. n /\ \A i \in DOMAIN seq : seq[i] \in S
        /\ \A x \in S : \E i \in DOMAIN seq : seq[i] = x
    BY Enumerated
  <1>. HIDE DEF n
  <1>7. n \in DOMAIN seq /\ \A i \in DOMAIN seq : i < n \/ i = n
    BY <1>2, <1>6
  <1>8. \A x \in S : x <= seq[n]
    <2>. TAKE x \in S
    <2>1. PICK i \in DOMAIN seq : seq[i] = x
      BY <1>6
    <2>2. i = n \/ x < seq[n]
      BY <1>5, <1>7, <2>1
    <2>3. x \in Nat /\ seq[n] \in Nat
      BY <1>6, <1>7
    <2>. QED
      BY <2>1, <2>2, <2>3
  <1>9. \E m \in S : \A k \in S : k <= m
    BY <1>6, <1>7, <1>8
  <1>. QED
    BY <1>9 DEF Highest

\* What a patch makes of a row, as update has it: nothing of the bundle is left when the
\* category changes.
LEMMA PatchedType ==
  ASSUME NEW row \in Products, NEW patch,
         DOMAIN patch \subseteq {"cat", "active", "stock", "image"},
         "cat" \in DOMAIN patch => patch["cat"] \in Cats,
         "active" \in DOMAIN patch => patch["active"] \in BOOLEAN,
         "stock" \in DOMAIN patch => patch["stock"] \in Nat,
         "image" \in DOMAIN patch => patch["image"] \in {None, Typed}
  PROVE  /\ Patched(row, patch) \in Products
         /\ Patched(row, patch).removed = row.removed
         /\ Patched(row, patch).bundle # 0 =>
              Patched(row, patch).bundle = row.bundle /\ Patched(row, patch).cat = row.cat
         /\ "image" \in DOMAIN patch => Patched(row, patch).image = patch["image"]
  <1>. DEFINE new == Over(patch, row)
  <1>1. DOMAIN row = {"cat", "active", "stock", "removed", "bundle", "position", "image"}
    BY DEF Products
  <1>2. new \in Products /\ new.removed = row.removed /\ new.bundle = row.bundle
        /\ ("image" \in DOMAIN patch => new.image = patch["image"])
    <2>1. new = [cat |-> new.cat, active |-> new.active, stock |-> new.stock,
                 removed |-> new.removed, bundle |-> new.bundle, position |-> new.position,
                 image |-> new.image]
      BY <1>1 DEF Over
    <2>2. /\ new.cat = IF "cat" \in DOMAIN patch THEN patch["cat"] ELSE row.cat
          /\ new.active = IF "active" \in DOMAIN patch THEN patch["active"] ELSE row.active
          /\ new.stock = IF "stock" \in DOMAIN patch THEN patch["stock"] ELSE row.stock
          /\ new.image = IF "image" \in DOMAIN patch THEN patch["image"] ELSE row.image
          /\ new.removed = row.removed /\ new.bundle = row.bundle /\ new.position = row.position
      BY <1>1 DEF Over
    <2>. HIDE DEF new
    <2>3. /\ new.cat \in Cats /\ new.active \in BOOLEAN /\ new.stock \in Nat
          /\ new.image \in Uuids \cup {None, Typed} /\ new.removed \in BOOLEAN
          /\ new.bundle \in Nat /\ new.position \in Nat
      BY <2>2 DEF Products
    <2>. QED
      BY <2>1, <2>2, <2>3 DEF Products
  <1>. HIDE DEF new
  <1>3. Patched(row, patch) = [new EXCEPT !.bundle = IF new.cat = row.cat THEN @ ELSE 0]
    BY DEF Patched, new
  <1>4. row.bundle \in Nat
    BY DEF Products
  <1>. QED
    BY <1>2, <1>3, <1>4 DEF Products

LEMMA CreateTypes ==
  ASSUME Types, NEW w \in Workers, NEW wanted \in 0 .. MaxId, NEW cat \in Cats, Create(w, wanted, cat)
  PROVE  Types'
  <1>. DEFINE used == DOMAIN products
              id   == IF wanted > 0 /\ wanted \notin used THEN wanted ELSE Highest(used \cup {0}) + 1
              at   == IF used = {} THEN 0 ELSE Highest({products[p].position : p \in used}) + 1
              row  == [cat |-> cat, active |-> TRUE, stock |-> 1, removed |-> FALSE,
                       bundle |-> 0, image |-> None, position |-> at]
  <1>1. Start(w, [pc |-> "create", id |-> id, row |-> row]) /\ UNCHANGED <<productVars, imageVars>>
    BY DEF Create
  <1>2. id \in Nat
    <2>1. IsFiniteSet(used \cup {0}) /\ used \cup {0} \subseteq Nat
      BY FS_AddElement DEF Types, Rows
    <2>2. Highest(used \cup {0}) \in Nat
      BY <2>1, HighestIsThere
    <2>. QED
      BY <2>2, CatalogueAssumption
  <1>3. at \in Nat
    <2>. DEFINE places == {products[p].position : p \in used}
    <2>0. at = IF used = {} THEN 0 ELSE Highest(places) + 1
      OBVIOUS
    <2>1. IsFiniteSet(places)
      <3>1. [p \in used |-> products[p].position] \in Surjection(used, places)
        BY DEF Surjection
      <3>. QED
        BY <3>1, FS_Surjection DEF Types, Rows
    <2>2. places \subseteq Nat /\ (used # {} => places # {})
      BY DEF Types, Rows, Products
    <2>. HIDE DEF places, at
    <2>3. used # {} => Highest(places) \in Nat
      BY <2>1, <2>2, HighestIsThere
    <2>4. used # {} => Highest(places) + 1 \in Nat
      BY <2>3
    <2>. QED
      BY <2>0, <2>4
  <1>. HIDE DEF id, at
  <1>4. row \in Products
    BY <1>3 DEF Products
  <1>5. row.bundle = 0
    OBVIOUS
  <1>. HIDE DEF row
  <1>6. /\ JobType(Over([pc |-> "create", id |-> id, row |-> row], Idle))
        /\ JobFits(Over([pc |-> "create", id |-> id, row |-> row], Idle), DOMAIN products, drawn)
    BY <1>2, <1>4, <1>5 DEF JobType, JobFits, Uploads, Uploading, Over, Idle
  <1>. QED
    BY <1>1, <1>6, StartTypes

\* The lists that the panel sends name pieces that are there, each once.
LEMMA ListsOfPieces ==
  ASSUME Types, NEW n \in Nat, NEW s \in Lists(Live, n)
  PROVE  s \in Seq(Nat) /\ IsInjective(s) /\ Range(s) \subseteq DOMAIN products
  <1>1. s \in [1 .. n -> Live] /\ IsInjective(s)
    BY DEF Lists
  <1>2. Live \subseteq DOMAIN products /\ Live \subseteq Nat
    BY DEF Live, Types, Rows
  <1>3. s \in [1 .. n -> Nat]
    BY <1>1, <1>2
  <1>4. Range(s) \subseteq DOMAIN products
    BY <1>1, <1>2 DEF Range
  <1>. QED
    BY <1>1, <1>3, <1>4

LEMMA LiveIsFinite ==
  ASSUME Types
  PROVE  Live \subseteq DOMAIN products /\ IsFiniteSet(Live) /\ Cardinality(Live) \in Nat
  BY FS_Subset, FS_CardinalityType DEF Live, Types, Rows

LEMMA SelectionsOfPieces ==
  ASSUME Types, NEW s \in Selections(Live)
  PROVE  s \in Seq(Nat) /\ IsInjective(s) /\ Range(s) \subseteq DOMAIN products
  <1>1. PICK n \in 1 .. Cardinality(Live) : s \in Lists(Live, n)
    BY DEF Selections
  <1>2. n \in Nat
    BY LiveIsFinite
  <1>. QED
    BY <1>1, <1>2, ListsOfPieces

LEMMA AskingTypes ==
  ASSUME Types, NEW w \in Workers,
         \/ \E p \in Live, patch \in Patches : Update(w, p, patch)
         \/ UpdateImage(w)
         \/ \E b \in Selections(Live), t \in Selections(Live) : SaveBundleSelection(w, b, t)
         \/ \E s \in Lists(Live, Cardinality(Live)) : SaveCatalogOrder(w, s)
         \/ \E page \in Pages : \E s \in Lists(Live, PageSize[page]) : SaveShowcase(w, page, s)
  PROVE  Types'
  <1>0. \A p \in Live : p \in Nat /\ products[p] \in Products
    BY DEF Live, Types, Rows
  <1>1. ASSUME NEW p \in Live, NEW patch \in Patches, Update(w, p, patch)
        PROVE  Types'
    <2>. DEFINE row == Patched(products[p], patch)
                new == Over([pc |-> "update", id |-> p, copy |-> products[p], row |-> row], Idle)
    <2>1. /\ row \in Products /\ row.removed = products[p].removed
          /\ row.bundle # 0 => row.bundle = products[p].bundle /\ row.cat = products[p].cat
      BY <1>0, PatchedType, CatalogueAssumption
    <2>. HIDE DEF row
    <2>2. JobType(new) /\ JobFits(new, DOMAIN products, drawn)
      BY <1>0, <2>1 DEF JobType, JobFits, Uploads, Uploading, Over, Idle
    <2>. QED
      BY <1>1, <2>2, StartTypes DEF Update, row
  <1>2. ASSUME UpdateImage(w)
        PROVE  Types'
    <2>. DEFINE row == Patched(products[Pictured], [image |-> Typed])
                new == Over([pc |-> "update", id |-> Pictured, copy |-> products[Pictured],
                             then |-> "primary", row |-> row], Idle)
    <2>0. Pictured \in Live
      BY <1>2 DEF UpdateImage
    <2>1. /\ row \in Products /\ row.removed = products[Pictured].removed /\ row.image = Typed
          /\ row.bundle # 0 => row.bundle = products[Pictured].bundle /\ row.cat = products[Pictured].cat
      <3>1. products[Pictured] \in Products
        BY <1>0, <2>0
      <3>2. DOMAIN [image |-> Typed] = {"image"} /\ [image |-> Typed]["image"] = Typed
        OBVIOUS
      <3>. QED
        BY <3>1, <3>2, PatchedType
    <2>. HIDE DEF row
    <2>2. JobType(new) /\ JobFits(new, DOMAIN products, drawn)
      BY <1>0, <2>0, <2>1 DEF JobType, JobFits, Uploads, Uploading, Over, Idle
    <2>. QED
      BY <1>2, <2>2, StartTypes DEF UpdateImage, row
  <1>3. ASSUME NEW b \in Selections(Live), NEW t \in Selections(Live), SaveBundleSelection(w, b, t)
        PROVE  Types'
    <2>. DEFINE new == Over([pc |-> "bundle", order |-> b, other |-> t], Idle)
    <2>1. b \in Seq(Nat) /\ IsInjective(b) /\ t \in Seq(Nat) /\ IsInjective(t)
      BY SelectionsOfPieces
    <2>2. JobType(new) /\ JobFits(new, DOMAIN products, drawn)
      BY <2>1 DEF JobType, JobFits, Uploads, Uploading, Over, Idle
    <2>. QED
      BY <1>3, <2>2, StartTypes DEF SaveBundleSelection
  <1>4. ASSUME NEW s \in Lists(Live, Cardinality(Live)), SaveCatalogOrder(w, s)
        PROVE  Types'
    <2>. DEFINE new == Over([pc |-> "catalogue", order |-> s], Idle)
    <2>1. s \in Seq(Nat) /\ IsInjective(s)
      BY ListsOfPieces, LiveIsFinite
    <2>2. JobType(new) /\ JobFits(new, DOMAIN products, drawn)
      BY <2>1 DEF JobType, JobFits, Uploads, Uploading, Over, Idle
    <2>. QED
      BY <1>4, <2>2, StartTypes DEF SaveCatalogOrder
  <1>5. ASSUME NEW page \in Pages, NEW s \in Lists(Live, PageSize[page]), SaveShowcase(w, page, s)
        PROVE  Types'
    <2>. DEFINE new == Over([pc |-> "showcase", page |-> page, order |-> s], Idle)
    <2>1. s \in Seq(Nat) /\ IsInjective(s) /\ Range(s) \subseteq DOMAIN products
      BY ListsOfPieces, CatalogueAssumption
    <2>2. JobType(new) /\ JobFits(new, DOMAIN products, drawn)
      BY <2>1 DEF JobType, JobFits, Uploads, Uploading, Over, Idle
    <2>. QED
      BY <1>5, <2>2, StartTypes DEF SaveShowcase
  <1>. QED
    BY <1>1, <1>2, <1>3, <1>4, <1>5

\* Steps that write pieces by id, and leave who they are.
LEMMA WritingTypes ==
  ASSUME Types, NEW w \in Workers,
         SaveNew(w) \/ SaveUpdate(w) \/ WriteBundle(w) \/ WriteOrder(w) \/ WriteShowcase(w)
  PROVE  Types'
  <1>. DEFINE j == job[w]
  <1>1. JobType(j) /\ JobFits(j, DOMAIN products, drawn)
    BY JobHere
  <1>2. Gallery' /\ drawn' = drawn
    BY SameGallery DEF SaveNew, SaveUpdate, WriteBundle, WriteOrder, WriteShowcase, imageVars
  <1>3. CASE SaveNew(w)
    <2>1. j.id \in Nat /\ j.row \in Products
      BY <1>1, <1>3 DEF SaveNew, At, JobType
    <2>2. DOMAIN products' = DOMAIN products \cup {j.id}
      BY <1>3 DEF SaveNew, Over
    <2>3. \A p \in DOMAIN products' : products'[p] \in Products
      BY <1>3, <2>1 DEF SaveNew, Over, Types, Rows
    <2>4. Rows'
      BY <2>1, <2>2, <2>3, FS_AddElement DEF Types, Rows
    <2>5. Jobs'
      BY <1>2, <1>3, <2>2, IdleType, JobsStep DEF SaveNew, End, Types
    <2>6. Showcases'
      BY <1>3, <2>2 DEF SaveNew, Types, Showcases
    <2>. QED
      BY <1>2, <2>4, <2>5, <2>6 DEF Types
  <1>4. CASE SaveUpdate(w)
    <2>1. j.row \in Products /\ j.pc = "update"
      BY <1>1, <1>4 DEF SaveUpdate, At, JobType
    <2>2. Rows' /\ DOMAIN products' = DOMAIN products
      BY <1>4, <2>1 DEF SaveUpdate, Types, Rows
    <2>3. CASE j.then = "primary" /\ Goto(w, "primary")
      <3>1. JobType(Over([pc |-> "primary"], j)) /\ JobFits(Over([pc |-> "primary"], j), DOMAIN products, drawn)
        BY <1>1, <2>3, GotoType
      <3>. QED
        BY <1>2, <1>4, <2>2, <2>3, <3>1, ContinueTypes DEF SaveUpdate, Goto, Continue
    <2>4. CASE job' = [job EXCEPT ![w] = Idle]
      BY <1>2, <1>4, <2>2, <2>4, EndTypes DEF SaveUpdate
    <2>. QED
      BY <1>4, <2>3, <2>4 DEF SaveUpdate
  <1>5. CASE WriteBundle(w)
    <2>1. j.order \in Seq(Nat) /\ j.other \in Seq(Nat)
      BY <1>1, <1>5 DEF WriteBundle, At, JobType
    <2>2. \A p : Rank(j.order, p) + Rank(j.other, p) \in Nat
      <3>1. \A p : Rank(j.order, p) \in Nat /\ Rank(j.other, p) \in Nat
        BY <2>1, RankPlaces
      <3>. QED
        BY <3>1
    <2>. HIDE DEF j
    <2>3. Rows' /\ DOMAIN products' = DOMAIN products
      BY <1>5, <2>2 DEF WriteBundle, Types, Rows, Products, j
    <2>. QED
      BY <1>2, <1>5, <2>3, EndTypes DEF WriteBundle, End
  <1>6. CASE WriteOrder(w)
    <2>1. j.order \in Seq(Nat)
      BY <1>1, <1>6 DEF WriteOrder, At, JobType
    <2>2. \A p \in Range(j.order) : Rank(j.order, p) - 1 \in Nat
      <3>1. \A p \in Range(j.order) : Rank(j.order, p) \in Nat /\ Rank(j.order, p) # 0
        BY <2>1, RankPlaces
      <3>. QED
        BY <3>1
    <2>. HIDE DEF j
    <2>3. Rows' /\ DOMAIN products' = DOMAIN products
      BY <1>6, <2>2 DEF WriteOrder, Types, Rows, Products, j
    <2>. QED
      BY <1>2, <1>6, <2>3, EndTypes DEF WriteOrder, End
  <1>7. CASE WriteShowcase(w)
    <2>1. /\ j.order \in Seq(Nat) /\ IsInjective(j.order) /\ j.page \in Pages
          /\ Range(j.order) \subseteq DOMAIN products
      BY <1>1, <1>7 DEF WriteShowcase, At, JobType, JobFits
    <2>2. Rows' /\ products' = products
      BY <1>7 DEF WriteShowcase, Types, Rows
    <2>3. Showcases'
      BY <1>7, <2>1, <2>2 DEF WriteShowcase, Types, Showcases
    <2>4. Jobs'
      BY <1>2, <1>7, <2>2, IdleType, JobsStep DEF WriteShowcase, End, Types
    <2>. QED
      BY <1>2, <2>2, <2>3, <2>4 DEF Types
  <1>. QED
    BY <1>3, <1>4, <1>5, <1>6, <1>7

LEMMA RemoveProductTypes ==
  ASSUME Types, NEW p \in DOMAIN products, RemoveProduct(p)
  PROVE  Types'
  <1>1. Rows' /\ DOMAIN products' = DOMAIN products
    BY DEF RemoveProduct, Types, Rows, Products
  <1>2. Gallery' /\ drawn' = drawn
    BY SameGallery DEF RemoveProduct, imageVars
  <1>. QED
    BY <1>1, <1>2 DEF RemoveProduct, Types, Showcases, Jobs

LEMMA TypesStep == Types /\ [Next]_vars => Types'
  <1>. SUFFICES ASSUME Types, [Next]_vars PROVE Types'
    OBVIOUS
  <1>1. ASSUME NEW w \in Workers, ImageStep(w)
        PROVE  Types'
    <2>1. CASE \/ \E n \in 1 .. MaxImages : UploadImages(w, n)
               \/ \E i \in DOMAIN images : SetPrimaryImage(w, i) \/ UpdateImageMetadata(w, i) \/ RemoveImage(w, i)
               \/ \E s \in ImageLists : ReorderImages(w, s)
      BY <2>1, BeginningTypes
    <2>2. CASE UpdateImage(w)
      BY <2>2, AskingTypes
    <2>. QED
      BY <1>1, <2>1, <2>2, StoreFileTypes, InsertImagesTypes, RemovingTypes, SyncTypes,
         SaveAddressTypes, ReadPrimaryTypes, TypeAddressTypes, MarkingTypes DEF ImageStep
  <1>2. ASSUME NEW w \in Workers, ProductStep(w)
        PROVE  Types'
    <2>1. CASE \/ \E p \in Live, patch \in Patches : Update(w, p, patch)
               \/ \E b \in Selections(Live), t \in Selections(Live) : SaveBundleSelection(w, b, t)
               \/ \E s \in Lists(Live, Cardinality(Live)) : SaveCatalogOrder(w, s)
               \/ \E page \in Pages : \E s \in Lists(Live, PageSize[page]) : SaveShowcase(w, page, s)
      BY <2>1, AskingTypes
    <2>2. CASE \E wanted \in 0 .. MaxId, cat \in Cats : Create(w, wanted, cat)
      BY <2>2, CreateTypes
    <2>. QED
      BY <1>2, <2>1, <2>2, WritingTypes DEF ProductStep
  <1>3. CASE UNCHANGED vars
    BY <1>3 DEF vars, Types, Rows, Gallery, Showcases, Jobs
  <1>. QED
    BY <1>1, <1>2, <1>3, RemoveProductTypes DEF Next

LEMMA TypesInit == Init => Types
  <1>. SUFFICES ASSUME Init PROVE Types
    OBVIOUS
  <1>1. Rows
    BY CatalogueAssumption DEF Init, Rows
  <1>2. Gallery
    BY FS_EmptySet DEF Init, Gallery
  <1>3. Showcases
    <2>1. <<>> \in Seq(Nat) /\ IsInjective(<<>>) /\ Range(<<>>) = {}
      BY DEF IsInjective, Range
    <2>. QED
      BY <2>1 DEF Init, Showcases
  <1>4. Jobs
    BY IdleType DEF Init, Jobs
  <1>. QED
    BY <1>1, <1>2, <1>3, <1>4 DEF Types

-----------------------------------------------------------------------------
(* The pages *)

\* The catalogue lists every piece that is there and active, once.
LEMMA CatalogueLists ==
  ASSUME Types
  PROVE  /\ ListActive \in Seq(Live) /\ IsInjective(ListActive)
         /\ Range(ListActive) = {p \in Live : products[p].active}
  <1>. DEFINE S == {p \in Live : products[p].active}
              InOrder(s) == \A k \in 1 .. Len(s) - 1 : Before(s[k], s[k + 1])
              below == [p \in S |-> {q \in S : Before(q, p)}]
              n == Cardinality(S)
  <1>1. IsFiniteSet(S) /\ S \subseteq Live /\ n \in Nat
    BY LiveIsFinite, FS_Subset, FS_CardinalityType
  <1>2. \A p \in S : p \in Nat /\ products[p].position \in Nat
    BY DEF Live, Types, Rows, Products
  <1>3. ListActive = CHOOSE s \in SetToSeqs(S) : InOrder(s)
    BY DEF ListActive
  <1>. HIDE DEF S
  <1>4. Orders(below, S)
    <2>1. \A p \in S : p \notin below[p]
      BY <1>2 DEF Before
    <2>2. ASSUME NEW p \in S, NEW q \in S, p \in below[q]
          PROVE  below[p] \subseteq below[q]
      <3>. SUFFICES ASSUME NEW r \in S, Before(r, p) PROVE Before(r, q)
        OBVIOUS
      <3>1. Before(p, q)
        BY <2>2
      <3>. QED
        BY <1>2, <3>1 DEF Before
    <2>3. \A p, q \in S : p = q \/ p \in below[q] \/ q \in below[p]
      BY <1>2 DEF Before
    <2>. QED
      BY <2>1, <2>2, <2>3 DEF Orders
  <1>5. \E s \in SetToSeqs(S) : InOrder(s)
    <2>1. PICK s \in SetToSeqs(S) : \A i, j \in DOMAIN s : i < j => s[i] \in below[s[j]]
      BY <1>1, <1>4, Listed
    <2>2. DOMAIN s = 1 .. n /\ Len(s) = n /\ \A i \in DOMAIN s : s[i] \in S
      <3>1. s \in [1 .. n -> S]
        BY DEF SetToSeqs
      <3>. QED
        BY <1>1, <3>1
    <2>3. ASSUME NEW k \in 1 .. Len(s) - 1 PROVE Before(s[k], s[k + 1])
      <3>1. k \in DOMAIN s /\ k + 1 \in DOMAIN s /\ k < k + 1
        BY <1>1, <2>2
      <3>. QED
        BY <2>1, <2>2, <3>1
    <2>. QED
      BY <2>3
  <1>. HIDE DEF InOrder
  <1>6. ListActive \in SetToSeqs(S)
    BY <1>3, <1>5
  <1>7. /\ DOMAIN ListActive = 1 .. n
        /\ \A i \in DOMAIN ListActive : ListActive[i] \in S
        /\ \A i, j \in DOMAIN ListActive : ListActive[i] = ListActive[j] => i = j
        /\ \A x \in S : \E i \in DOMAIN ListActive : ListActive[i] = x
    BY <1>1, <1>6, Enumerated
  <1>8. ListActive \in [1 .. n -> S]
    BY <1>6 DEF SetToSeqs
  <1>9. ListActive \in Seq(Live)
    BY <1>1, <1>8
  <1>10. IsInjective(ListActive) /\ Range(ListActive) = S
    BY <1>7 DEF IsInjective, Range
  <1>. QED
    BY <1>9, <1>10 DEF S

\* Two lists without an element in common, one after the other.
LEMMA Joined ==
  ASSUME NEW T, NEW s \in Seq(T), NEW t \in Seq(T)
  PROVE  /\ s \o t \in Seq(T) /\ Range(s \o t) = Range(s) \cup Range(t)
         /\ IsInjective(s) /\ IsInjective(t) /\ Range(s) \cap Range(t) = {} => IsInjective(s \o t)
  <1>. DEFINE m == Len(s)
              n == Len(t)
              st == s \o t
  <1>1. /\ st \in Seq(T) /\ DOMAIN st = 1 .. m + n /\ m \in Nat /\ n \in Nat
        /\ DOMAIN s = 1 .. m /\ DOMAIN t = 1 .. n
        /\ \A i \in 1 .. m : st[i] = s[i]
        /\ \A i \in m + 1 .. m + n : st[i] = t[i - m]
    BY ConcatProperties
  <1>. HIDE DEF m, n, st
  <1>2. \A i \in DOMAIN st : (i \in DOMAIN s /\ st[i] = s[i]) \/ (i - m \in DOMAIN t /\ st[i] = t[i - m])
    BY <1>1
  <1>3. Range(st) = Range(s) \cup Range(t)
    <2>1. Range(st) \subseteq Range(s) \cup Range(t)
      BY <1>2 DEF Range
    <2>2. \A i \in DOMAIN s : i \in DOMAIN st /\ st[i] = s[i]
      BY <1>1
    <2>3. \A i \in DOMAIN t : m + i \in DOMAIN st /\ st[m + i] = t[i]
      BY <1>1
    <2>. QED
      BY <2>1, <2>2, <2>3 DEF Range
  <1>4. ASSUME IsInjective(s), IsInjective(t), Range(s) \cap Range(t) = {}
        PROVE  IsInjective(st)
    <2>1. \A i \in DOMAIN s, j \in DOMAIN t : s[i] # t[j]
      BY <1>4 DEF Range
    <2>. SUFFICES ASSUME NEW a \in DOMAIN st, NEW b \in DOMAIN st, st[a] = st[b]
                  PROVE  a = b
      BY DEF IsInjective
    <2>2. CASE a \in DOMAIN s /\ b \in DOMAIN s
      BY <1>1, <1>4, <2>2 DEF IsInjective
    <2>3. CASE a \notin DOMAIN s /\ b \notin DOMAIN s
      <3>1. a - m \in DOMAIN t /\ b - m \in DOMAIN t /\ t[a - m] = t[b - m]
        BY <1>2, <2>3
      <3>2. a - m = b - m
        BY <1>4, <3>1 DEF IsInjective
      <3>3. a \in Nat /\ b \in Nat /\ m \in Nat
        BY <1>1
      <3>. QED
        BY <3>2, <3>3, SMT
    <2>4. ASSUME NEW x \in DOMAIN s, NEW y \in DOMAIN st, y \notin DOMAIN s
          PROVE  st[x] # st[y]
      <3>1. st[x] = s[x]
        BY <1>1
      <3>2. y - m \in DOMAIN t /\ st[y] = t[y - m]
        BY <1>2, <2>4
      <3>. QED
        BY <2>1, <3>1, <3>2
    <2>. QED
      BY <2>2, <2>3, <2>4
  <1>. QED
    BY <1>1, <1>3, <1>4 DEF st

\* listShowcases and defaultShowcase, over any rows that are rows.
LEMMA PagesFromTypes == Types => PagesAreFilled
  <1>. SUFFICES ASSUME Types, NEW page \in Pages
                PROVE  /\ IsInjective(Shown(page))
                       /\ \A p \in Range(Shown(page)) : p \in Live /\ products[p].active
                       /\ Shown(page) = <<>> => ListActive = <<>>
    BY DEF PagesAreFilled
  <1>. DEFINE chosen == Kept(showcases[page], Range(ListActive))
              ofKind == {p \in Live : products[p].cat \in KindOf(page)}
              first  == Kept(ListActive, ofKind)
              second == Kept(ListActive, Live \ ofKind)
              size   == PageSize[page]
  <1>1. /\ ListActive \in Seq(Live) /\ IsInjective(ListActive)
        /\ Range(ListActive) \subseteq Live
        /\ \A p \in Range(ListActive) : products[p].active
    BY CatalogueLists
  <1>2. size \in Nat \ {0}
    BY CatalogueAssumption
  <1>3. IsInjective(chosen) /\ Range(chosen) \subseteq Range(ListActive)
    <2>1. showcases[page] \in Seq(Nat) /\ IsInjective(showcases[page])
      BY DEF Types, Showcases
    <2>. QED
      BY <2>1, KeptElements
  <1>4. /\ first \in Seq(Live) /\ IsInjective(first)
        /\ Range(first) = Range(ListActive) \cap ofKind
    BY <1>1, KeptElements
  <1>5. /\ second \in Seq(Live) /\ IsInjective(second)
        /\ Range(second) = Range(ListActive) \cap (Live \ ofKind)
    BY <1>1, KeptElements
  <1>. HIDE DEF first, second, ofKind, chosen, size
  <1>6. /\ first \o second \in Seq(Live) /\ IsInjective(first \o second)
        /\ Range(first \o second) = Range(first) \cup Range(second)
    <2>1. Range(first) \cap Range(second) = {}
      BY <1>4, <1>5
    <2>. QED
      BY <1>4, <1>5, <2>1, Joined
  <1>7. Range(first \o second) = Range(ListActive)
    BY <1>1, <1>4, <1>5, <1>6
  <1>8. DefaultShowcase(page) = Foremost(first \o second, size)
    BY DEF DefaultShowcase, first, second, ofKind, size
  <1>9. /\ IsInjective(DefaultShowcase(page))
        /\ Range(DefaultShowcase(page)) \subseteq Range(ListActive)
        /\ DefaultShowcase(page) = <<>> => first \o second = <<>>
    BY <1>2, <1>6, <1>7, <1>8, ForemostElements
  <1>10. first \o second = <<>> => ListActive = <<>>
    <2>. SUFFICES ASSUME first \o second = <<>> PROVE ListActive = <<>>
      OBVIOUS
    <2>1. Range(ListActive) = {}
      BY <1>7 DEF Range
    <2>2. Len(ListActive) \in Nat /\ DOMAIN ListActive = 1 .. Len(ListActive)
      BY <1>1
    <2>3. DOMAIN ListActive = {}
      BY <2>1 DEF Range
    <2>. QED
      BY <1>1, <2>2, <2>3, EmptySeq
  <1>11. Shown(page) = IF chosen = <<>> THEN DefaultShowcase(page) ELSE chosen
    BY DEF Shown, chosen
  <1>. QED
    BY <1>1, <1>3, <1>9, <1>10, <1>11

-----------------------------------------------------------------------------
(* The columns of the bundle *)

\* A step after which each piece of the shop is out of the bundle, or where it was.
LEMMA PairedStays ==
  ASSUME BundleColumns,
         \A p \in Live' :
            \/ products'[p].bundle = 0
            \/ /\ p \in Live
               /\ products'[p].bundle = products[p].bundle /\ products'[p].cat = products[p].cat
  PROVE  BundleColumns'
  <1>. SUFFICES ASSUME NEW p \in Live', products'[p].bundle > 0
                PROVE  /\ products'[p].cat # "other"
                       /\ \A q \in Live' \ {p} : products'[q].cat = products'[p].cat =>
                                                   products'[q].bundle # products'[p].bundle
    BY DEF BundleColumns, Paired
  <1>1. products'[p].bundle # 0
    OBVIOUS
  <1>2. p \in Live /\ products'[p].bundle = products[p].bundle /\ products'[p].cat = products[p].cat
    BY <1>1
  <1>3. products[p].bundle > 0
    BY <1>2
  <1>4. /\ products[p].cat # "other"
        /\ \A q \in Live \ {p} : products[q].cat = products[p].cat => products[q].bundle # products[p].bundle
    BY <1>2, <1>3 DEF BundleColumns, Paired
  <1>. QED
    BY <1>1, <1>2, <1>4

\* No two elements of a list have the same rank in it.
LEMMA RanksDiffer ==
  ASSUME NEW s \in Seq(Nat), NEW p \in Range(s), NEW q \in Range(s), Rank(s, p) = Rank(s, q)
  PROVE  p = q
  BY RankPlaces

LEMMA BundleWritten ==
  ASSUME Types, NEW w \in Workers, WriteBundle(w), SavesAreFresh
  PROVE  BundleColumns'
  <1>. DEFINE s == job[w].order
              t == job[w].other
  <1>1. s \in Seq(Nat) /\ t \in Seq(Nat) /\ job[w].pc = "bundle" /\ job' = [job EXCEPT ![w] = Idle]
    BY JobHere DEF WriteBundle, At, End, JobType
  <1>2. job'[w].pc # job[w].pc
    BY <1>1 DEF Idle, Types, Jobs
  <1>3. /\ \A p \in Range(s) : products[p].cat = "bottom"
        /\ \A p \in Range(t) : products[p].cat = "top"
    BY <1>1, <1>2 DEF SavesAreFresh, At, MayBundle
  <1>4. /\ DOMAIN products' = DOMAIN products
        /\ \A p \in DOMAIN products : /\ products'[p].cat = products[p].cat
                                      /\ products'[p].bundle = Rank(s, p) + Rank(t, p)
    <2>. HIDE DEF s, t
    <2>. QED
      BY DEF WriteBundle, Types, Rows, Products, s, t
  <1>5. \A p : Rank(s, p) \in Nat /\ Rank(t, p) \in Nat
    BY <1>1, RankPlaces
  <1>6. \A p : (Rank(s, p) # 0 <=> p \in Range(s)) /\ (Rank(t, p) # 0 <=> p \in Range(t))
    BY <1>1, RankPlaces
  <1>7. \A p, q : /\ p \in Range(s) /\ q \in Range(s) /\ Rank(s, p) = Rank(s, q) => p = q
                  /\ p \in Range(t) /\ q \in Range(t) /\ Rank(t, p) = Rank(t, q) => p = q
    BY <1>1, RanksDiffer
  <1>. HIDE DEF s, t
  <1>. SUFFICES ASSUME NEW p \in DOMAIN products, products'[p].bundle > 0
                PROVE  /\ products'[p].cat # "other"
                       /\ \A q \in DOMAIN products \ {p} :
                            products'[q].cat = products'[p].cat => products'[q].bundle # products'[p].bundle
    BY <1>4 DEF BundleColumns, Paired, Live
  <1>8. \/ p \in Range(s) /\ products[p].cat = "bottom" /\ Rank(t, p) = 0
        \/ p \in Range(t) /\ products[p].cat = "top" /\ Rank(s, p) = 0
    <2>1. Rank(s, p) # 0 \/ Rank(t, p) # 0
      BY <1>4, <1>5
    <2>. QED
      BY <1>3, <1>6, <2>1
  <1>9. ASSUME NEW q \in DOMAIN products \ {p}, products'[q].cat = products'[p].cat,
               products'[q].bundle = products'[p].bundle
        PROVE  FALSE
    <2>1. Rank(s, q) + Rank(t, q) = Rank(s, p) + Rank(t, p) /\ products[q].cat = products[p].cat
      BY <1>4, <1>9
    <2>2. Rank(s, q) + Rank(t, q) # 0
      BY <1>4, <2>1
    <2>3. Rank(s, q) # 0 \/ Rank(t, q) # 0
      BY <1>5, <2>2
    <2>4. CASE p \in Range(s) /\ products[p].cat = "bottom" /\ Rank(t, p) = 0
      <3>1. q \in Range(s) /\ Rank(t, q) = 0
        BY <1>3, <1>6, <2>1, <2>3, <2>4
      <3>2. Rank(s, q) = Rank(s, p)
        BY <1>5, <2>1, <2>4, <3>1
      <3>. QED
        BY <1>7, <1>9, <2>4, <3>1, <3>2
    <2>5. CASE p \in Range(t) /\ products[p].cat = "top" /\ Rank(s, p) = 0
      <3>1. q \in Range(t) /\ Rank(s, q) = 0
        BY <1>3, <1>6, <2>1, <2>3, <2>5
      <3>2. Rank(t, q) = Rank(t, p)
        BY <1>5, <2>1, <2>5, <3>1
      <3>. QED
        BY <1>7, <1>9, <2>5, <3>1, <3>2
    <2>. QED
      BY <1>8, <2>4, <2>5
  <1>. QED
    BY <1>4, <1>8, <1>9

LEMMA BundleStep == Types /\ BundleColumns /\ [Next /\ SavesAreFresh]_vars => BundleColumns'
  <1>. SUFFICES ASSUME Types, BundleColumns, [Next /\ SavesAreFresh]_vars PROVE BundleColumns'
    OBVIOUS
  <1>0. \A p \in DOMAIN products : products[p] \in Products
    BY DEF Types, Rows
  <1>1. CASE UNCHANGED products
    BY <1>1, PairedStays DEF Live
  <1>2. ASSUME NEW w \in Workers, SaveAddress(w)
        PROVE  BundleColumns'
    BY <1>0, <1>2, PairedStays DEF SaveAddress, Live, Products
  <1>3. ASSUME NEW w \in Workers, SaveNew(w)
        PROVE  BundleColumns'
    <2>1. job[w].row.bundle = 0
      BY <1>3, JobHere DEF SaveNew, At, JobType
    <2>2. /\ DOMAIN products' = DOMAIN products \cup {job[w].id}
          /\ products'[job[w].id] = job[w].row
          /\ \A p \in DOMAIN products \ {job[w].id} : products'[p] = products[p]
      BY <1>3 DEF SaveNew, Over
    <2>. QED
      BY <2>1, <2>2, PairedStays DEF Live
  <1>4. ASSUME NEW w \in Workers, SaveUpdate(w), SavesAreFresh
        PROVE  BundleColumns'
    <2>. DEFINE j == job[w]
    <2>1. /\ JobType(j) /\ j.pc = "update" /\ job[w].row.removed = job[w].copy.removed
          /\ j.row.bundle # 0 => j.row.bundle = j.copy.bundle /\ j.row.cat = j.copy.cat
      BY <1>4, JobHere DEF SaveUpdate, At, JobType
    <2>2. job'[w].pc # job[w].pc
      <3>1. Over([pc |-> "primary"], j).pc = "primary"
        BY DEF Over
      <3>2. job' = [job EXCEPT ![w] = Over([pc |-> "primary"], j)] \/ job' = [job EXCEPT ![w] = Idle]
        BY <1>4 DEF SaveUpdate, Goto, Continue
      <3>. QED
        BY <2>1, <3>1, <3>2 DEF Idle, Types, Jobs
    <2>3. products[j.id] = j.copy
      BY <1>4, <2>1, <2>2 DEF SavesAreFresh, At
    <2>. HIDE DEF j
    <2>4. /\ DOMAIN products' = DOMAIN products
          /\ \A p \in DOMAIN products : products'[p] = IF p = j.id THEN j.row ELSE products[p]
      BY <1>4 DEF SaveUpdate, j
    <2>. QED
      BY <2>1, <2>3, <2>4, PairedStays DEF Live, j
  <1>5. ASSUME NEW w \in Workers, WriteOrder(w)
        PROVE  BundleColumns'
    <2>1. /\ DOMAIN products' = DOMAIN products
          /\ \A p \in DOMAIN products : /\ products'[p].cat = products[p].cat
                                        /\ products'[p].bundle = products[p].bundle
                                        /\ products'[p].removed = products[p].removed
      BY <1>0, <1>5 DEF WriteOrder, Products
    <2>. QED
      BY <2>1, PairedStays DEF Live
  <1>6. ASSUME NEW p \in DOMAIN products, RemoveProduct(p)
        PROVE  BundleColumns'
    <2>1. /\ DOMAIN products' = DOMAIN products
          /\ \A q \in DOMAIN products : /\ products'[q].cat = products[q].cat
                                        /\ products'[q].bundle = products[q].bundle
                                        /\ products'[q].removed \/ ~products[q].removed
      BY <1>0, <1>6 DEF RemoveProduct, Products
    <2>2. Live' \subseteq Live
      <3>1. products'[p].removed
        BY <1>0, <1>6 DEF RemoveProduct, Products
      <3>2. \A q \in DOMAIN products \ {p} : products'[q] = products[q]
        BY <1>6 DEF RemoveProduct
      <3>. QED
        BY <2>1, <3>1, <3>2 DEF Live
    <2>. QED
      BY <2>1, <2>2, PairedStays DEF Live
  <1>7. ASSUME NEW w \in Workers, WriteBundle(w), SavesAreFresh
        PROVE  BundleColumns'
    BY <1>7, BundleWritten
  <1>8. ASSUME NEW w \in Workers, ImageStep(w)
        PROVE  UNCHANGED products \/ SaveAddress(w)
    BY <1>8 DEF ImageStep, UploadImages, StoreFile, InsertImages, UndoUpload, SyncLegacyImage,
       UpdateImage, ReadPrimary, TypeAddress, SetPrimaryImage, UpdateImageMetadata, RemoveImage,
       ClearPrimary, MarkPrimary, SaveMetadata, ReorderImages, SavePositions, DeleteImage,
       FindReplacement, Promote, NormalizePositions, EraseFile, productVars
  <1>9. ASSUME NEW w \in Workers, ProductStep(w)
        PROVE  UNCHANGED products \/ SaveNew(w) \/ SaveUpdate(w) \/ WriteBundle(w) \/ WriteOrder(w)
    BY <1>9 DEF ProductStep, Create, Update, SaveBundleSelection, SaveCatalogOrder, SaveShowcase,
       WriteShowcase, productVars
  <1>10. CASE UNCHANGED vars
    BY <1>1, <1>10 DEF vars
  <1>. QED
    BY <1>1, <1>2, <1>3, <1>4, <1>5, <1>6, <1>7, <1>8, <1>9, <1>10 DEF Next

-----------------------------------------------------------------------------
(* The files behind the rows *)

\* The files of an upload that no row names yet, and the images that a removal has to do with.
Pending(j) == IF j.pc \in Uploading THEN Range(j.stored) ELSE {}
Marked(j) == (IF j.then = "erase" THEN {j.image} ELSE {})
               \cup (IF j.pc = "promote" THEN {j.order[1]} ELSE {})

RowsBehind(rows, stock) ==
    \A i \in DOMAIN rows : rows[i].path \in {None, i} /\ (rows[i].path # None => i \in stock)

\* The files that a request has stored are there and have no row; the image that a removal
\* took has none, so that its file may go; and the row that takes its place has its file.
JobFiles(j, rows, stock) ==
    /\ j.pc \in {"store", "rows"} => Range(j.stored) \subseteq stock
    /\ Pending(j) \cap DOMAIN rows = {}
    /\ j.then = "erase" => /\ j.copy.path \in {None, j.image}
                           /\ j.pc # "delete" => j.image \notin DOMAIN rows
    /\ j.pc = "promote" =>
         /\ j.row.path \in {None, j.order[1]}
         /\ j.row.path # None /\ j.order[1] \in DOMAIN rows => j.order[1] \in stock

Files ==
    /\ RowsBehind(images, files)
    /\ \A w \in Workers : JobFiles(job[w], images, files)
    /\ \A v, w \in Workers : /\ Pending(job[v]) \cap Marked(job[w]) = {}
                             /\ v # w => Pending(job[v]) \cap Pending(job[w]) = {}

\* What a request has pending or marked was drawn.
LEMMA FilesAreDrawn ==
  ASSUME Types, NEW w \in Workers
  PROVE  Pending(job[w]) \subseteq drawn /\ Marked(job[w]) \subseteq drawn
  <1>1. JobType(job[w]) /\ JobFits(job[w], DOMAIN products, drawn)
    BY JobHere
  <1>2. Pending(job[w]) \subseteq drawn
    BY <1>1 DEF Pending, JobFits, Uploads
  <1>3. job[w].then = "erase" => job[w].image \in drawn
    BY <1>1, CatalogueAssumption DEF JobType, JobFits
  <1>4. job[w].pc = "promote" => job[w].order[1] \in drawn
    BY <1>1 DEF JobFits
  <1>. QED
    BY <1>2, <1>3, <1>4 DEF Marked

\* A step of a request, seen from the others: the rows it adds are of its own files, or
\* of ids not drawn before, and the files it erases are its own or of the image it removes.
LEMMA FilesStay ==
  ASSUME Types, Files, NEW w \in Workers, NEW new, job' = [job EXCEPT ![w] = new],
         RowsBehind(images', files'), JobFiles(new, images', files'),
         Pending(new) \cap drawn \subseteq Pending(job[w]),
         Marked(new) \subseteq Marked(job[w]) \cup DOMAIN images,
         \A i \in DOMAIN images' \ DOMAIN images : i \in Pending(job[w]) \/ i \notin drawn,
         \A f \in files \ files' : /\ f \notin DOMAIN images'
                                   /\ f \in Pending(job[w]) \cup Marked(job[w])
  PROVE  Files'
  <1>1. /\ \A v \in Workers : Pending(job[v]) \subseteq drawn /\ Marked(job[v]) \subseteq drawn
        /\ DOMAIN images \subseteq drawn /\ DOMAIN job = Workers
    BY FilesAreDrawn DEF Types, Gallery, Jobs
  <1>2. \A v \in Workers : job'[v] = IF v = w THEN new ELSE job[v]
    BY <1>1
  <1>3. \A v, u \in Workers : /\ Pending(job[v]) \cap Marked(job[u]) = {}
                              /\ v # u => Pending(job[v]) \cap Pending(job[u]) = {}
    BY DEF Files
  <1>4. \A v \in Workers : Pending(job[v]) \cap DOMAIN images = {}
    BY DEF Files, JobFiles
  <1>5. ASSUME NEW v \in Workers, v # w
        PROVE  JobFiles(job[v], images', files')
    <2>. DEFINE j == job[v]
    <2>1. JobFiles(j, images, files)
      BY DEF Files
    <2>2. \A i \in DOMAIN images' : i \in DOMAIN images \/ (i \notin Pending(j) /\ i \notin Marked(j))
      BY <1>1, <1>3, <1>5
    <2>3. \A f \in files : f \in files' \/ (f \notin DOMAIN images' /\ f \notin Pending(j))
      BY <1>3, <1>5
    <2>. HIDE DEF j
    <2>4. j.pc \in {"store", "rows"} => Range(j.stored) \subseteq files'
      BY <2>1, <2>3 DEF JobFiles, Pending, Uploading
    <2>5. Pending(j) \cap DOMAIN images' = {}
      BY <2>1, <2>2 DEF JobFiles
    <2>6. j.then = "erase" => /\ j.copy.path \in {None, j.image}
                              /\ j.pc # "delete" => j.image \notin DOMAIN images'
      BY <2>1, <2>2 DEF JobFiles, Marked
    <2>7. j.pc = "promote" =>
            /\ j.row.path \in {None, j.order[1]}
            /\ j.row.path # None /\ j.order[1] \in DOMAIN images' => j.order[1] \in files'
      BY <2>1, <2>2, <2>3 DEF JobFiles, Marked
    <2>. QED
      BY <2>4, <2>5, <2>6, <2>7 DEF JobFiles, j
  <1>6. \A v \in Workers : JobFiles(job'[v], images', files')
    BY <1>2, <1>5
  <1>7. ASSUME NEW v \in Workers, NEW u \in Workers
        PROVE  /\ Pending(job'[v]) \cap Marked(job'[u]) = {}
               /\ v # u => Pending(job'[v]) \cap Pending(job'[u]) = {}
    <2>1. \A x \in Workers : /\ Pending(job'[x]) \cap drawn \subseteq Pending(job[x])
                             /\ Marked(job'[x]) \subseteq Marked(job[x]) \cup DOMAIN images
                             /\ x # w => Pending(job'[x]) \subseteq drawn
      BY <1>1, <1>2
    <2>2. Marked(job'[u]) \subseteq drawn
      BY <1>1, <2>1
    <2>. QED
      BY <1>3, <1>4, <2>1, <2>2
  <1>. QED
    BY <1>6, <1>7 DEF Files

\* Two requests that differ in where they are.
LEMMA GotoFields ==
  ASSUME NEW j, DOMAIN j = DOMAIN Idle, NEW to
  PROVE  LET new == Over([pc |-> to], j)
         IN  /\ new.pc = to /\ new.then = j.then /\ new.image = j.image
             /\ new.copy = j.copy /\ new.stored = j.stored /\ new.order = j.order
             /\ new.row = j.row /\ new.address = j.address /\ new.id = j.id
  BY DEF Over, Idle

\* A request goes on with the same files, over a gallery that lost rows or none.
LEMMA GotoFiles ==
  ASSUME Types, Files, NEW w \in Workers, NEW to, Goto(w, to), UNCHANGED files,
         RowsBehind(images', files), DOMAIN images' \subseteq DOMAIN images,
         to \notin {"promote", "delete", "store", "rows"},
         to = "undo" => job[w].pc \in Uploading,
         job[w].pc = "delete" => job[w].image \notin DOMAIN images'
  PROVE  Files'
  <1>. DEFINE j == job[w]
              new == Over([pc |-> to], j)
  <1>1. JobFiles(j, images, files) /\ DOMAIN j = DOMAIN Idle /\ job' = [job EXCEPT ![w] = new]
    BY JobHere DEF Files, JobType, Goto, Continue
  <1>2. /\ new.pc = to /\ new.then = j.then /\ new.image = j.image
        /\ new.copy = j.copy /\ new.stored = j.stored
    BY <1>1, GotoFields
  <1>. HIDE DEF new
  <1>3. Pending(new) \subseteq Pending(j) /\ Marked(new) \subseteq Marked(j)
    BY <1>2 DEF Pending, Marked, Uploading
  <1>4. JobFiles(new, images', files')
    BY <1>1, <1>2, <1>3 DEF JobFiles
  <1>. QED
    BY <1>1, <1>3, <1>4, FilesStay

\* A request ends.
LEMMA EndFiles ==
  ASSUME Types, Files, NEW w \in Workers, job' = [job EXCEPT ![w] = Idle],
         RowsBehind(images', files'),
         \A i \in DOMAIN images' \ DOMAIN images : i \in Pending(job[w]) \/ i \notin drawn,
         \A f \in files \ files' : /\ f \notin DOMAIN images'
                                   /\ f \in Pending(job[w]) \cup Marked(job[w])
  PROVE  Files'
  <1>1. Pending(Idle) = {} /\ Marked(Idle) = {} /\ JobFiles(Idle, images', files')
    BY DEF Pending, Marked, JobFiles, Uploading, Idle
  <1>. QED
    BY <1>1, FilesStay

\* A request begins with no file, and the image it will remove is there.
LEMMA StartFiles ==
  ASSUME Types, Files, NEW w \in Workers, NEW state, Start(w, state), UNCHANGED imageVars,
         DOMAIN state \subseteq DOMAIN Idle, "pc" \in DOMAIN state, "stored" \notin DOMAIN state,
         state["pc"] \notin {"promote", "rows", "undo"},
         "then" \in DOMAIN state =>
            \/ state["then"] # "erase"
            \/ /\ state["pc"] = "delete" /\ {"image", "copy"} \subseteq DOMAIN state
               /\ state["image"] \in DOMAIN images /\ state["copy"] = images[state["image"]]
  PROVE  Files'
  <1>. DEFINE new == Over(state, Idle)
  <1>1. /\ new.pc = state["pc"] /\ new.stored = <<>>
        /\ new.then = "erase" => /\ new.pc = "delete" /\ new.image \in DOMAIN images
                                 /\ new.copy = images[new.image]
    BY DEF Over, Idle
  <1>. HIDE DEF new
  <1>2. Range(<<>>) = {}
    BY DEF Range
  <1>3. Pending(new) = {} /\ Marked(new) \subseteq DOMAIN images
    BY <1>1, <1>2 DEF Pending, Marked
  <1>4. RowsBehind(images, files) /\ images' = images /\ files' = files
    BY DEF Files, imageVars
  <1>5. JobFiles(new, images', files')
    BY <1>1, <1>2, <1>3, <1>4 DEF JobFiles, RowsBehind
  <1>. QED
    BY <1>3, <1>4, <1>5, FilesStay DEF Start, new

LEMMA BeginningFiles ==
  ASSUME Types, Files, NEW w \in Workers,
         \/ \E n \in 1 .. MaxImages : UploadImages(w, n)
         \/ \E i \in DOMAIN images : SetPrimaryImage(w, i) \/ UpdateImageMetadata(w, i) \/ RemoveImage(w, i)
         \/ \E s \in ImageLists : ReorderImages(w, s)
         \/ UpdateImage(w)
         \/ \E wanted \in 0 .. MaxId, cat \in Cats : Create(w, wanted, cat)
         \/ \E p \in Live, patch \in Patches : Update(w, p, patch)
         \/ \E b \in Selections(Live), t \in Selections(Live) : SaveBundleSelection(w, b, t)
         \/ \E s \in Lists(Live, Cardinality(Live)) : SaveCatalogOrder(w, s)
         \/ \E page \in Pages : \E s \in Lists(Live, PageSize[page]) : SaveShowcase(w, page, s)
  PROVE  Files'
  <1>. USE FieldsOfIdle
  <1>1. ASSUME NEW n \in 1 .. MaxImages, UploadImages(w, n)
        PROVE  Files'
    BY <1>1, StartFiles DEF UploadImages
  <1>2. ASSUME NEW i \in DOMAIN images, SetPrimaryImage(w, i)
        PROVE  Files'
    BY <1>2, StartFiles DEF SetPrimaryImage
  <1>3. ASSUME NEW i \in DOMAIN images, UpdateImageMetadata(w, i)
        PROVE  Files'
    BY <1>3, StartFiles DEF UpdateImageMetadata
  <1>4. ASSUME NEW i \in DOMAIN images, RemoveImage(w, i)
        PROVE  Files'
    BY <1>4, StartFiles DEF RemoveImage
  <1>5. ASSUME NEW s \in ImageLists, ReorderImages(w, s)
        PROVE  Files'
    BY <1>5, StartFiles DEF ReorderImages
  <1>6. ASSUME UpdateImage(w)
        PROVE  Files'
    <2>. DEFINE row == Patched(products[Pictured], [image |-> Typed])
    <2>1. Start(w, [pc |-> "update", id |-> Pictured, copy |-> products[Pictured],
                    then |-> "primary", row |-> row])
      BY <1>6 DEF UpdateImage
    <2>. HIDE DEF row
    <2>. QED
      BY <1>6, <2>1, StartFiles DEF UpdateImage
  <1>7. ASSUME NEW wanted \in 0 .. MaxId, NEW cat \in Cats, Create(w, wanted, cat)
        PROVE  Files'
    <2>1. PICK id, row : Start(w, [pc |-> "create", id |-> id, row |-> row])
      BY <1>7 DEF Create
    <2>. QED
      BY <1>7, <2>1, StartFiles DEF Create
  <1>8. ASSUME NEW p \in Live, NEW patch \in Patches, Update(w, p, patch)
        PROVE  Files'
    <2>1. PICK row : Start(w, [pc |-> "update", id |-> p, copy |-> products[p], row |-> row])
      BY <1>8 DEF Update
    <2>. QED
      BY <1>8, <2>1, StartFiles DEF Update
  <1>9. ASSUME NEW b, NEW t, SaveBundleSelection(w, b, t)
        PROVE  Files'
    BY <1>9, StartFiles DEF SaveBundleSelection
  <1>10. ASSUME NEW s, SaveCatalogOrder(w, s)
         PROVE  Files'
    BY <1>10, StartFiles DEF SaveCatalogOrder
  <1>11. ASSUME NEW page, NEW s, SaveShowcase(w, page, s)
         PROVE  Files'
    BY <1>11, StartFiles DEF SaveShowcase
  <1>. QED
    BY <1>1, <1>2, <1>3, <1>4, <1>5, <1>6, <1>7, <1>8, <1>9, <1>10, <1>11

LEMMA StoreFileFiles ==
  ASSUME Types, Files, NEW w \in Workers, StoreFile(w)
  PROVE  Files'
  <1>. DEFINE j == job[w]
  <1>1. /\ JobType(j) /\ JobFits(j, DOMAIN products, drawn) /\ j.pc = "store"
        /\ j.stored \in Seq(Uuids) /\ DOMAIN j = DOMAIN Idle
        /\ JobFiles(j, images, files) /\ RowsBehind(images, files) /\ images' = images
    BY JobHere DEF StoreFile, At, JobType, Uploads, Uploading, Files
  <1>2. ASSUME NEW u \in Uuids \ drawn, files' = files \cup {u},
               Continue(w, [stored |-> Append(j.stored, u), left |-> j.left - 1,
                            pc |-> IF j.left = 1 THEN "rows" ELSE "store"])
        PROVE  Files'
    <2>. DEFINE more == Append(j.stored, u)
                new == Over([stored |-> more, left |-> j.left - 1,
                             pc |-> IF j.left = 1 THEN "rows" ELSE "store"], j)
    <2>1. Range(more) \subseteq Range(j.stored) \cup {u}
      <3>1. /\ DOMAIN more = 1 .. Len(j.stored) + 1 /\ Len(j.stored) \in Nat
            /\ more[Len(j.stored) + 1] = u
            /\ \A i \in 1 .. Len(j.stored) : i \in DOMAIN j.stored /\ more[i] = j.stored[i]
        BY <1>1
      <3>. HIDE DEF more, j
      <3>2. \A i \in DOMAIN more : i = Len(j.stored) + 1 \/ i \in 1 .. Len(j.stored)
        BY <3>1
      <3>. QED
        BY <3>1, <3>2 DEF Range
    <2>. HIDE DEF more
    <2>2. new.pc \in {"rows", "store"} /\ new.stored = more /\ new.then = j.then
          /\ new.image = j.image /\ new.copy = j.copy
      BY <1>1 DEF Over, Idle
    <2>3. job' = [job EXCEPT ![w] = new]
      BY <1>2 DEF Continue, more
    <2>. HIDE DEF new
    <2>4. Pending(j) = Range(j.stored) /\ Pending(new) = Range(more)
      BY <1>1, <2>2 DEF Pending, Uploading
    <2>5. Marked(new) \subseteq Marked(j)
      BY <2>2 DEF Marked
    <2>6. u \notin DOMAIN images
      BY DEF Types, Gallery
    <2>7. RowsBehind(images', files')
      BY <1>1, <1>2 DEF RowsBehind
    <2>8. JobFiles(new, images', files')
      BY <1>1, <1>2, <2>1, <2>2, <2>4, <2>6 DEF JobFiles
    <2>. HIDE DEF j
    <2>. QED
      BY <1>1, <1>2, <2>1, <2>3, <2>4, <2>5, <2>7, <2>8, FilesStay DEF j
  <1>3. ASSUME Goto(w, "undo"), UNCHANGED files
        PROVE  Files'
    BY <1>1, <1>3, GotoFiles DEF Uploading
  <1>. QED
    BY <1>2, <1>3 DEF StoreFile

LEMMA InsertImagesFiles ==
  ASSUME Types, Files, NEW w \in Workers, InsertImages(w)
  PROVE  Files'
  <1>. DEFINE j == job[w]
  <1>1. /\ JobType(j) /\ j.pc = "rows" /\ DOMAIN j = DOMAIN Idle
        /\ JobFiles(j, images, files) /\ RowsBehind(images, files) /\ files' = files
    BY JobHere DEF InsertImages, At, JobType, Files
  <1>2. ASSUME images' = Over(NewImages(j.stored, j.seen), images),
               Continue(w, [pc |-> "face", then |-> "undo"])
        PROVE  Files'
    <2>. DEFINE new == Over([pc |-> "face", then |-> "undo"], j)
    <2>1. new.pc = "face" /\ new.then = "undo" /\ job' = [job EXCEPT ![w] = new]
      BY <1>1, <1>2 DEF Over, Idle, Continue
    <2>. HIDE DEF new
    <2>2. Pending(new) = {} /\ Marked(new) = {} /\ Pending(j) = Range(j.stored)
      BY <1>1, <2>1 DEF Pending, Marked, Uploading
    <2>3. /\ DOMAIN images' = Range(j.stored) \cup DOMAIN images
          /\ \A i \in Range(j.stored) : images'[i].path = i
          /\ \A i \in DOMAIN images \ Range(j.stored) : images'[i] = images[i]
      BY <1>2 DEF Over, NewImages
    <2>4. RowsBehind(images', files')
      BY <1>1, <2>3 DEF RowsBehind, JobFiles
    <2>5. JobFiles(new, images', files')
      BY <2>1, <2>2 DEF JobFiles
    <2>. QED
      BY <1>1, <2>1, <2>2, <2>3, <2>4, <2>5, FilesStay
  <1>3. ASSUME Goto(w, "undo"), UNCHANGED images
        PROVE  Files'
    BY <1>1, <1>3, GotoFiles DEF Uploading
  <1>. QED
    BY <1>2, <1>3 DEF InsertImages

LEMMA FaceFiles ==
  ASSUME Types, Files, "sync" \notin Faults, NEW w \in Workers, SyncLegacyImage(w) \/ SaveAddress(w)
  PROVE  Files'
  <1>. DEFINE j == job[w]
  <1>1. /\ DOMAIN j = DOMAIN Idle /\ JobFiles(j, images, files) /\ RowsBehind(images, files)
        /\ images' = images /\ files' = files /\ j.pc \in {"face", "address"}
    BY JobHere DEF SyncLegacyImage, SaveAddress, At, JobType, Files, imageVars
  <1>2. ASSUME NEW a, Continue(w, [pc |-> "address", address |-> a])
        PROVE  Files'
    <2>. DEFINE new == Over([pc |-> "address", address |-> a], j)
    <2>1. /\ new.pc = "address" /\ new.then = j.then /\ new.image = j.image
          /\ new.copy = j.copy /\ job' = [job EXCEPT ![w] = new]
      BY <1>1, <1>2 DEF Over, Idle, Continue
    <2>. HIDE DEF new
    <2>2. Pending(new) = {} /\ Marked(new) \subseteq Marked(j)
      BY <2>1 DEF Pending, Marked, Uploading
    <2>3. JobFiles(new, images', files')
      BY <1>1, <2>1, <2>2 DEF JobFiles
    <2>. QED
      BY <1>1, <2>1, <2>2, <2>3, FilesStay
  <1>3. CASE Goto(w, "erase")
    BY <1>1, <1>3, GotoFiles
  <1>4. CASE End(w)
    BY <1>1, <1>4, EndFiles DEF End
  <1>. QED
    BY <1>2, <1>3, <1>4 DEF SyncLegacyImage, SaveAddress

LEMMA TypingFiles ==
  ASSUME Types, Files, SavesAreFresh, NEW w \in Workers, ReadPrimary(w) \/ TypeAddress(w)
  PROVE  Files'
  <1>. DEFINE j == job[w]
  <1>1. /\ DOMAIN j = DOMAIN Idle /\ JobFiles(j, images, files) /\ RowsBehind(images, files)
        /\ files' = files /\ j.pc \in {"primary", "type"} /\ j.then = "primary"
    BY JobHere DEF ReadPrimary, TypeAddress, At, JobType, Files, imageVars
  <1>2. ASSUME ReadPrimary(w)
        PROVE  Files'
    <2>1. PICK i, copy : Continue(w, [pc |-> "type", image |-> i])
                         \/ Continue(w, [pc |-> "type", image |-> i, copy |-> copy])
      BY <1>2 DEF ReadPrimary
    <2>2. PICK new : /\ job' = [job EXCEPT ![w] = new]
                     /\ new.pc = "type" /\ new.then = "primary"
      <3>1. Over([pc |-> "type", image |-> i], j).pc = "type"
            /\ Over([pc |-> "type", image |-> i], j).then = "primary"
        BY <1>1 DEF Over, Idle
      <3>2. Over([pc |-> "type", image |-> i, copy |-> copy], j).pc = "type"
            /\ Over([pc |-> "type", image |-> i, copy |-> copy], j).then = "primary"
        BY <1>1 DEF Over, Idle
      <3>. QED
        BY <2>1, <3>1, <3>2 DEF Continue
    <2>3. Pending(new) = {} /\ Marked(new) = {} /\ JobFiles(new, images', files')
      BY <2>2 DEF Pending, Marked, JobFiles, Uploading
    <2>. QED
      BY <1>1, <1>2, <2>2, <2>3, FilesStay DEF ReadPrimary, imageVars
  <1>3. ASSUME TypeAddress(w)
        PROVE  Files'
    <2>1. job' = [job EXCEPT ![w] = Idle] /\ j.pc = "type"
      BY <1>3 DEF TypeAddress, End, At
    <2>2. job'[w].pc # job[w].pc
      BY <2>1 DEF Idle, Types, Jobs
    <2>3. ASSUME NEW i, NEW row, SaveImage(i, row), row.path = None,
                 i \in DOMAIN images \/ i \notin drawn
          PROVE  Files'
      <3>1. /\ DOMAIN images' = DOMAIN images \cup {i} /\ images'[i].path = None
            /\ \A k \in DOMAIN images \ {i} : images'[k] = images[k]
        BY <2>3 DEF SaveImage, Over
      <3>2. RowsBehind(images', files')
        BY <1>1, <3>1 DEF RowsBehind
      <3>. QED
        BY <1>1, <2>1, <2>3, <3>1, <3>2, EndFiles
    <2>4. CASE j.image # None
      <3>1. j.image \in DOMAIN images /\ j.copy \in Images
        BY <2>1, <2>2, <2>4, JobHere DEF SavesAreFresh, At, JobType
      <3>2. [j.copy EXCEPT !.url = Typed, !.path = None].path = None
        BY <3>1 DEF Images
      <3>. QED
        BY <1>3, <2>3, <2>4, <3>1, <3>2 DEF TypeAddress
    <2>5. CASE j.image = None
      BY <1>3, <2>3, <2>5 DEF TypeAddress
    <2>. QED
      BY <2>4, <2>5
  <1>. QED
    BY <1>2, <1>3

LEMMA MarkingFiles ==
  ASSUME Types, Files, SavesAreFresh, NEW w \in Workers,
         ClearPrimary(w) \/ MarkPrimary(w) \/ SaveMetadata(w) \/ SavePositions(w)
  PROVE  Files'
  <1>0. \A i \in DOMAIN images : images[i] \in Images
    BY DEF Types, Gallery
  <1>1. RowsBehind(images, files) /\ files' = files
    BY DEF Files, ClearPrimary, MarkPrimary, SaveMetadata, SavePositions
  <1>2. CASE ClearPrimary(w)
    <2>1. RowsBehind(images', files) /\ DOMAIN images' = DOMAIN images
      BY <1>0, <1>1, <1>2 DEF ClearPrimary, RowsBehind, Images
    <2>. QED
      BY <1>1, <1>2, <2>1, GotoFiles DEF ClearPrimary, At
  <1>3. CASE MarkPrimary(w)
    <2>1. RowsBehind(images', files) /\ DOMAIN images' = DOMAIN images
      BY <1>0, <1>1, <1>3 DEF MarkPrimary, RowsBehind, Images
    <2>. QED
      BY <1>1, <1>3, <2>1, GotoFiles DEF MarkPrimary, At
  <1>4. CASE SaveMetadata(w)
    <2>1. job[w].pc = "metadata" /\ job' = [job EXCEPT ![w] = Idle]
      BY <1>4 DEF SaveMetadata, At, End
    <2>2. job'[w].pc # job[w].pc
      BY <2>1 DEF Idle, Types, Jobs
    <2>3. job[w].image \in DOMAIN images /\ images[job[w].image] = job[w].copy
      BY <2>1, <2>2 DEF SavesAreFresh, At
    <2>4. DOMAIN images' = DOMAIN images /\ \A i \in DOMAIN images : images'[i] = images[i]
      BY <1>4, <2>3 DEF SaveMetadata, SaveImage, Over
    <2>5. RowsBehind(images', files)
      BY <1>1, <2>4 DEF RowsBehind
    <2>. QED
      BY <1>1, <2>1, <2>4, <2>5, EndFiles
  <1>5. CASE SavePositions(w)
    <2>. DEFINE s == job[w].order
    <2>1. PICK last : images' = [i \in DOMAIN images |->
                          IF i \in Range(s) THEN [images[i] EXCEPT !.position = last[i] - 1]
                          ELSE images[i]]
      BY <1>5 DEF SavePositions
    <2>. HIDE DEF s
    <2>2. RowsBehind(images', files) /\ DOMAIN images' = DOMAIN images
      BY <1>0, <1>1, <2>1 DEF RowsBehind, Images
    <2>. QED
      BY <1>1, <1>5, <2>2, EndFiles DEF SavePositions, End
  <1>. QED
    BY <1>2, <1>3, <1>4, <1>5

LEMMA RemovingFiles ==
  ASSUME Types, Files, SavesAreFresh, NEW w \in Workers,
         DeleteImage(w) \/ FindReplacement(w) \/ Promote(w) \/ NormalizePositions(w)
         \/ EraseFile(w) \/ UndoUpload(w)
  PROVE  Files'
  <1>. DEFINE j == job[w]
  <1>0. /\ \A i \in DOMAIN images : images[i] \in Images
        /\ files \subseteq Uuids
    BY DEF Types, Gallery
  <1>1. /\ JobType(j) /\ DOMAIN j = DOMAIN Idle
        /\ JobFiles(j, images, files) /\ RowsBehind(images, files)
    BY JobHere DEF JobType, Files
  <1>2. CASE DeleteImage(w)
    <2>1. /\ DOMAIN images' = DOMAIN images \ {j.image}
          /\ \A i \in DOMAIN images' : images'[i] = images[i]
      BY <1>2 DEF DeleteImage, Restrict
    <2>2. RowsBehind(images', files)
      BY <1>1, <2>1 DEF RowsBehind
    <2>3. Goto(w, "replace") \/ Goto(w, "normalize")
      BY <1>2 DEF DeleteImage
    <2>. QED
      BY <1>2, <2>1, <2>2, <2>3, GotoFiles DEF DeleteImage
  <1>3. CASE FindReplacement(w)
    <2>0. images' = images /\ files' = files /\ j.pc = "replace"
      BY <1>3 DEF FindReplacement, At, imageVars
    <2>1. CASE Goto(w, "normalize")
      BY <1>1, <2>0, <2>1, GotoFiles
    <2>2. ASSUME NEW i \in Lowest(images),
                 Continue(w, [pc |-> "promote", order |-> <<i>>, row |-> images[i]])
          PROVE  Files'
      <3>. DEFINE new == Over([pc |-> "promote", order |-> <<i>>, row |-> images[i]], j)
      <3>1. /\ new.pc = "promote" /\ new.order = <<i>> /\ new.row = images[i]
            /\ new.then = j.then /\ new.image = j.image /\ new.copy = j.copy
            /\ job' = [job EXCEPT ![w] = new]
        BY <1>1, <2>2 DEF Over, Idle, Continue
      <3>2. i \in DOMAIN images /\ new.order[1] = i
        BY <3>1 DEF Lowest
      <3>. HIDE DEF new
      <3>3. Pending(new) = {} /\ Marked(new) \subseteq Marked(j) \cup DOMAIN images
        BY <3>1, <3>2 DEF Pending, Marked, Uploading
      <3>4. JobFiles(new, images', files')
        BY <1>1, <2>0, <3>1, <3>2, <3>3 DEF JobFiles, RowsBehind
      <3>. QED
        BY <1>1, <2>0, <3>1, <3>3, <3>4, FilesStay
    <2>. QED
      BY <1>3, <2>1, <2>2 DEF FindReplacement
  <1>4. CASE Promote(w)
    <2>. DEFINE i == j.order[1]
                row == [j.row EXCEPT !.primary = TRUE]
    <2>1. j.pc = "promote" /\ job' = [job EXCEPT ![w] = Over([pc |-> "normalize"], j)] /\ files' = files
      BY <1>4 DEF Promote, At, Goto, Continue
    <2>2. job'[w].pc # job[w].pc
      <3>1. Over([pc |-> "normalize"], j).pc = "normalize"
        BY DEF Over
      <3>. QED
        BY <2>1, <3>1 DEF Types, Jobs
    <2>3. i \in DOMAIN images
      BY <2>1, <2>2 DEF SavesAreFresh, At
    <2>4. row.path = j.row.path
      BY <1>1, <2>1 DEF JobType, Images
    <2>5. images' = Over([k \in {i} |-> row], images)
      BY <1>4 DEF Promote, SaveImage
    <2>6. row.path \in {None, i} /\ (row.path # None => i \in files)
      BY <1>1, <2>1, <2>3, <2>4 DEF JobFiles
    <2>. HIDE DEF row, i
    <2>7. /\ DOMAIN images' = DOMAIN images /\ images'[i] = row
          /\ \A k \in DOMAIN images \ {i} : images'[k] = images[k]
      BY <2>3, <2>5 DEF Over
    <2>8. RowsBehind(images', files)
      BY <1>1, <2>6, <2>7 DEF RowsBehind
    <2>. QED
      BY <1>4, <2>1, <2>7, <2>8, GotoFiles DEF Promote
  <1>5. CASE NormalizePositions(w)
    <2>1. PICK s : images' = [i \in DOMAIN images |->
                      [images[i] EXCEPT !.position = (CHOOSE k \in DOMAIN s : s[k] = i) - 1]]
      BY <1>5 DEF NormalizePositions
    <2>2. RowsBehind(images', files) /\ DOMAIN images' = DOMAIN images
      <3>1. DOMAIN images' = DOMAIN images
        BY <2>1
      <3>2. \A i \in DOMAIN images : images'[i].path = images[i].path
        BY <1>0, <2>1 DEF Images
      <3>. QED
        BY <1>1, <3>1, <3>2 DEF RowsBehind
    <2>. QED
      BY <1>5, <2>2, GotoFiles DEF NormalizePositions, At
  <1>6. CASE EraseFile(w)
    <2>1. /\ j.then = "erase" /\ j.pc = "erase" /\ images' = images
          /\ job' = [job EXCEPT ![w] = Idle]
      BY <1>1, <1>6 DEF EraseFile, At, JobType, End
    <2>2. j.copy.path \in {None, j.image} /\ j.image \notin DOMAIN images /\ j.image \in Marked(j)
      BY <1>1, <2>1 DEF JobFiles, Marked
    <2>3. files' = files \ {j.copy.path} \/ files' = files
      BY <1>6 DEF EraseFile
    <2>4. \A f \in files \ files' : f = j.image
      BY <1>0, <2>2, <2>3, CatalogueAssumption
    <2>5. RowsBehind(images', files')
      BY <1>1, <2>1, <2>2, <2>4 DEF RowsBehind
    <2>. QED
      BY <2>1, <2>2, <2>4, <2>5, EndFiles
  <1>7. CASE UndoUpload(w)
    <2>1. /\ j.pc = "undo" /\ images' = images /\ job' = [job EXCEPT ![w] = Idle]
          /\ files' = files \ Range(j.stored) \/ files' = files
      BY <1>7 DEF UndoUpload, At, End
    <2>2. Pending(j) = Range(j.stored) /\ Pending(j) \cap DOMAIN images = {}
      BY <1>1, <2>1 DEF Pending, Uploading, JobFiles
    <2>3. \A f \in files \ files' : f \in Pending(j) /\ f \notin DOMAIN images
      BY <2>1, <2>2
    <2>4. RowsBehind(images', files')
      BY <1>1, <2>1, <2>3 DEF RowsBehind
    <2>. QED
      BY <2>1, <2>3, <2>4, EndFiles
  <1>. QED
    BY <1>2, <1>3, <1>4, <1>5, <1>6, <1>7

LEMMA WritingFiles ==
  ASSUME Types, Files, NEW w \in Workers,
         SaveNew(w) \/ SaveUpdate(w) \/ WriteBundle(w) \/ WriteOrder(w) \/ WriteShowcase(w)
  PROVE  Files'
  <1>1. images' = images /\ files' = files /\ RowsBehind(images, files)
    BY DEF SaveNew, SaveUpdate, WriteBundle, WriteOrder, WriteShowcase, imageVars, Files
  <1>2. CASE job' = [job EXCEPT ![w] = Idle]
    BY <1>1, <1>2, EndFiles
  <1>3. CASE SaveUpdate(w) /\ Goto(w, "primary")
    BY <1>1, <1>3, GotoFiles DEF SaveUpdate, At
  <1>. QED
    BY <1>2, <1>3 DEF SaveNew, SaveUpdate, WriteBundle, WriteOrder, WriteShowcase, End

LEMMA FilesStep ==
  ASSUME "sync" \notin Faults
  PROVE  Types /\ Files /\ [Next /\ SavesAreFresh]_vars => Files'
  <1>. SUFFICES ASSUME Types, Files, [Next /\ SavesAreFresh]_vars PROVE Files'
    OBVIOUS
  <1>1. ASSUME NEW w \in Workers, ImageStep(w), SavesAreFresh
        PROVE  Files'
    <2>1. CASE \/ \E n \in 1 .. MaxImages : UploadImages(w, n)
               \/ \E i \in DOMAIN images : SetPrimaryImage(w, i) \/ UpdateImageMetadata(w, i) \/ RemoveImage(w, i)
               \/ \E s \in ImageLists : ReorderImages(w, s)
               \/ UpdateImage(w)
      BY <2>1, BeginningFiles
    <2>. QED
      BY <1>1, <2>1, StoreFileFiles, InsertImagesFiles, FaceFiles, TypingFiles, MarkingFiles,
         RemovingFiles DEF ImageStep
  <1>2. ASSUME NEW w \in Workers, ProductStep(w)
        PROVE  Files'
    <2>1. CASE \/ \E wanted \in 0 .. MaxId, cat \in Cats : Create(w, wanted, cat)
               \/ \E p \in Live, patch \in Patches : Update(w, p, patch)
               \/ \E b \in Selections(Live), t \in Selections(Live) : SaveBundleSelection(w, b, t)
               \/ \E s \in Lists(Live, Cardinality(Live)) : SaveCatalogOrder(w, s)
               \/ \E page \in Pages : \E s \in Lists(Live, PageSize[page]) : SaveShowcase(w, page, s)
      BY <2>1, BeginningFiles
    <2>. QED
      BY <1>2, <2>1, WritingFiles DEF ProductStep
  <1>3. CASE UNCHANGED <<images, files, job>>
    BY <1>3 DEF Files
  <1>. QED
    BY <1>1, <1>2, <1>3 DEF Next, RemoveProduct, vars, imageVars

LEMMA FilesInit == Init => Files
  <1>. SUFFICES ASSUME Init PROVE Files
    OBVIOUS
  <1>1. \A w \in Workers : job[w] = Idle
    BY DEF Init
  <1>2. Pending(Idle) = {} /\ Marked(Idle) = {} /\ JobFiles(Idle, images, files)
    BY DEF Pending, Marked, JobFiles, Uploading, Idle
  <1>3. RowsBehind(images, files)
    BY DEF Init, RowsBehind
  <1>. QED
    BY <1>1, <1>2, <1>3 DEF Files

-----------------------------------------------------------------------------
(* The face of the gallery *)

OnePrimary(rows) == DOMAIN rows # {} => \E i \in DOMAIN rows : Primaries(rows) = {i}
Facing(rows, address) == \A i \in Primaries(rows) : address = rows[i].url
Faced(rows, address) == OnePrimary(rows) /\ Facing(rows, address)

\* What the gallery and the address of the piece are while one request is under way.
Pose(j, rows, address) ==
    /\ j.pc \in {"store", "rows", "undo", "metadata", "reorder", "delete", "erase",
                 "create", "update", "bundle", "catalogue", "showcase"} =>
         Faced(rows, address)
    /\ j.pc \in {"face", "address", "normalize", "primary"} => OnePrimary(rows)
    /\ j.pc \in {"mark", "replace", "promote"} => Primaries(rows) = {}
    /\ j.pc \in {"store", "rows"} => j.seen = rows
    /\ j.pc = "address" => Facing(rows, j.address)
    /\ j.pc \in {"primary", "type"} => address = Typed
    /\ j.pc = "type" =>
         IF j.image = None THEN DOMAIN rows = {}
         ELSE Primaries(rows) = {j.image} /\ j.copy = rows[j.image]
    /\ j.pc \in {"clear", "mark", "delete"} => j.image \in DOMAIN rows
    /\ j.pc = "delete" => j.copy = rows[j.image]
    /\ j.pc = "promote" => j.order[1] \in DOMAIN rows /\ j.row = rows[j.order[1]]

\* Settled, one request at most is under way, and the gallery is as it left it.
Posed ==
    settled =>
        /\ (\A w \in Workers : At(w, "idle")) => Faced(images, products[Pictured].image)
        /\ \A w \in Workers : ~At(w, "idle") =>
             /\ \A v \in Workers \ {w} : At(v, "idle")
             /\ Pose(job[w], images, products[Pictured].image)

LEMMA PosedStays ==
  ASSUME Types, Posed, NEW w \in Workers, ~At(w, "idle"), settled' => settled,
         NEW new, job' = [job EXCEPT ![w] = new],
         settled' /\ Pose(job[w], images, products[Pictured].image) =>
            IF new.pc = "idle" THEN Faced(images', products'[Pictured].image)
            ELSE Pose(new, images', products'[Pictured].image)
  PROVE  Posed'
  <1>. SUFFICES ASSUME settled'
                PROVE  /\ (\A v \in Workers : At(v, "idle")') => Faced(images', products'[Pictured].image)
                       /\ \A v \in Workers : ~At(v, "idle")' =>
                            /\ \A u \in Workers \ {v} : At(u, "idle")'
                            /\ Pose(job'[v], images', products'[Pictured].image)
    BY DEF Posed, At
  <1>1. /\ \A v \in Workers \ {w} : At(v, "idle")
        /\ Pose(job[w], images, products[Pictured].image)
    BY DEF Posed
  <1>2. \A v \in Workers : job'[v] = IF v = w THEN new ELSE job[v]
    BY DEF Types, Jobs
  <1>. QED
    BY <1>1, <1>2 DEF At

\* A request begins, when the gallery is as it should be.
LEMMA StartPosed ==
  ASSUME Types, Posed, NEW w \in Workers, NEW state, Start(w, state), UNCHANGED <<productVars, imageVars>>,
         Over(state, Idle).pc # "idle",
         Faced(images, products[Pictured].image) => Pose(Over(state, Idle), images, products[Pictured].image)
  PROVE  Posed'
  <1>. DEFINE new == Over(state, Idle)
  <1>1. /\ job' = [job EXCEPT ![w] = new] /\ images' = images /\ products' = products
        /\ settled' = (settled /\ \A v \in Workers : At(v, "idle"))
    BY DEF Start, productVars, imageVars
  <1>2. \A v \in Workers : job'[v] = IF v = w THEN new ELSE job[v]
    BY <1>1 DEF Types, Jobs
  <1>3. settled' => /\ Faced(images, products[Pictured].image)
                    /\ \A v \in Workers : At(v, "idle")
    BY <1>1 DEF Posed
  <1>. HIDE DEF new
  <1>. QED
    BY <1>1, <1>2, <1>3 DEF Posed, At, new

LEMMA BeginningPosed ==
  ASSUME Types, Posed, NEW w \in Workers,
         \/ \E n \in 1 .. MaxImages : UploadImages(w, n)
         \/ \E i \in DOMAIN images : SetPrimaryImage(w, i) \/ UpdateImageMetadata(w, i) \/ RemoveImage(w, i)
         \/ \E s \in ImageLists : ReorderImages(w, s)
         \/ UpdateImage(w)
         \/ \E wanted \in 0 .. MaxId, cat \in Cats : Create(w, wanted, cat)
         \/ \E p \in Live, patch \in Patches : Update(w, p, patch)
         \/ \E b \in Selections(Live), t \in Selections(Live) : SaveBundleSelection(w, b, t)
         \/ \E s \in Lists(Live, Cardinality(Live)) : SaveCatalogOrder(w, s)
         \/ \E page \in Pages : \E s \in Lists(Live, PageSize[page]) : SaveShowcase(w, page, s)
  PROVE  Posed'
  <1>. USE DEF Pose
  <1>1. ASSUME NEW n \in 1 .. MaxImages, UploadImages(w, n)
        PROVE  Posed'
    <2>. DEFINE state == [pc |-> "store", left |-> n, seen |-> images]
    <2>1. Over(state, Idle).pc = "store" /\ Over(state, Idle).seen = images
      BY DEF Over, Idle
    <2>2. Start(w, state) /\ UNCHANGED <<productVars, imageVars>>
      BY <1>1 DEF UploadImages
    <2>. HIDE DEF state
    <2>. QED
      BY <2>1, <2>2, StartPosed
  <1>2. ASSUME NEW i \in DOMAIN images, SetPrimaryImage(w, i)
        PROVE  Posed'
    <2>. DEFINE state == [pc |-> "clear", image |-> i]
    <2>1. Over(state, Idle).pc = "clear" /\ Over(state, Idle).image = i
      BY DEF Over, Idle
    <2>2. Start(w, state) /\ UNCHANGED <<productVars, imageVars>>
      BY <1>2 DEF SetPrimaryImage
    <2>. HIDE DEF state
    <2>. QED
      BY <2>1, <2>2, StartPosed
  <1>3. ASSUME NEW i \in DOMAIN images, RemoveImage(w, i)
        PROVE  Posed'
    <2>. DEFINE state == [pc |-> "delete", image |-> i, copy |-> images[i], then |-> "erase"]
    <2>1. Over(state, Idle).pc = "delete" /\ Over(state, Idle).image = i /\ Over(state, Idle).copy = images[i]
      BY DEF Over, Idle
    <2>2. Start(w, state) /\ UNCHANGED <<productVars, imageVars>>
      BY <1>3 DEF RemoveImage
    <2>. HIDE DEF state
    <2>. QED
      BY <2>1, <2>2, StartPosed
  <1>4. ASSUME NEW state, Start(w, state), UNCHANGED <<productVars, imageVars>>, "pc" \in DOMAIN state,
               state["pc"] \in {"metadata", "reorder", "create", "update", "bundle", "catalogue", "showcase"}
        PROVE  Posed'
    <2>1. Over(state, Idle).pc = state["pc"]
      BY <1>4 DEF Over, Idle
    <2>. QED
      BY <1>4, <2>1, StartPosed
  <1>5. CASE \/ \E i \in DOMAIN images : UpdateImageMetadata(w, i)
             \/ \E s \in ImageLists : ReorderImages(w, s)
    BY <1>4, <1>5 DEF UpdateImageMetadata, ReorderImages
  <1>6. CASE UpdateImage(w)
    <2>1. PICK row : Start(w, [pc |-> "update", id |-> Pictured, copy |-> products[Pictured],
                               then |-> "primary", row |-> row])
      BY <1>6 DEF UpdateImage
    <2>. QED
      BY <1>4, <1>6, <2>1 DEF UpdateImage
  <1>7. ASSUME NEW wanted \in 0 .. MaxId, NEW cat \in Cats, Create(w, wanted, cat)
        PROVE  Posed'
    <2>1. PICK id, row : Start(w, [pc |-> "create", id |-> id, row |-> row])
      BY <1>7 DEF Create
    <2>. QED
      BY <1>4, <1>7, <2>1 DEF Create
  <1>8. ASSUME NEW p \in Live, NEW patch \in Patches, Update(w, p, patch)
        PROVE  Posed'
    <2>1. PICK row : Start(w, [pc |-> "update", id |-> p, copy |-> products[p], row |-> row])
      BY <1>8 DEF Update
    <2>. QED
      BY <1>4, <1>8, <2>1 DEF Update
  <1>9. ASSUME NEW b, NEW t, SaveBundleSelection(w, b, t)
        PROVE  Posed'
    BY <1>4, <1>9 DEF SaveBundleSelection
  <1>10. ASSUME NEW s, SaveCatalogOrder(w, s)
         PROVE  Posed'
    BY <1>4, <1>10 DEF SaveCatalogOrder
  <1>11. ASSUME NEW page, NEW s, SaveShowcase(w, page, s)
         PROVE  Posed'
    BY <1>4, <1>11 DEF SaveShowcase
  <1>. QED
    BY <1>1, <1>2, <1>3, <1>5, <1>6, <1>7, <1>8, <1>9, <1>10, <1>11

\* Two galleries with the same marks and addresses.
LEMMA SameFace ==
  ASSUME NEW rows, NEW others, DOMAIN others = DOMAIN rows,
         \A i \in DOMAIN rows : others[i].primary = rows[i].primary /\ others[i].url = rows[i].url
  PROVE  /\ Primaries(others) = Primaries(rows)
         /\ OnePrimary(rows) => OnePrimary(others)
         /\ \A a : Facing(rows, a) => Facing(others, a)
  <1>1. Primaries(others) = Primaries(rows)
    BY DEF Primaries
  <1>. QED
    BY <1>1 DEF OnePrimary, Facing, Primaries

\* A request goes on, over the same gallery or not, without anything new.
LEMMA GotoPosed ==
  ASSUME Types, Posed, NEW w \in Workers, NEW to, Goto(w, to), to # "idle", ~At(w, "idle"),
         settled' /\ Pose(job[w], images, products[Pictured].image) =>
            Pose(Over([pc |-> to], job[w]), images', products'[Pictured].image)
  PROVE  Posed'
  <1>. DEFINE new == Over([pc |-> to], job[w])
  <1>1. new.pc = to
    BY DEF Over
  <1>2. job' = [job EXCEPT ![w] = new] /\ settled' = settled
    BY DEF Goto, Continue
  <1>. HIDE DEF new
  <1>. QED
    BY <1>1, <1>2, PosedStays DEF new

LEMMA EndPosed ==
  ASSUME Types, Posed, NEW w \in Workers, job' = [job EXCEPT ![w] = Idle], settled' => settled,
         ~At(w, "idle"),
         settled' /\ Pose(job[w], images, products[Pictured].image) =>
            Faced(images', products'[Pictured].image)
  PROVE  Posed'
  <1>1. Idle.pc = "idle"
    BY DEF Idle
  <1>. QED
    BY <1>1, PosedStays

LEMMA UploadPosed ==
  ASSUME Types, Files, Posed, NEW w \in Workers, StoreFile(w) \/ InsertImages(w) \/ UndoUpload(w)
  PROVE  Posed'
  <1>. DEFINE j == job[w]
              face == products[Pictured].image
  <1>1. /\ JobType(j) /\ JobFiles(j, images, files) /\ products' = products
        /\ j.pc \in {"store", "rows", "undo"} /\ ~At(w, "idle") /\ DOMAIN j = DOMAIN Idle
    BY JobHere DEF StoreFile, InsertImages, UndoUpload, At, Files, productVars, JobType
  <1>2. ASSUME Goto(w, "undo"), images' = images
        PROVE  Posed'
    <2>1. Over([pc |-> "undo"], j).pc = "undo"
      BY DEF Over
    <2>2. Pose(j, images, face) => Pose(Over([pc |-> "undo"], j), images, face)
      BY <1>1, <2>1 DEF Pose
    <2>. QED
      BY <1>1, <1>2, <2>2, GotoPosed
  <1>3. ASSUME StoreFile(w),
               NEW u, Continue(w, [stored |-> Append(j.stored, u), left |-> j.left - 1,
                                   pc |-> IF j.left = 1 THEN "rows" ELSE "store"])
        PROVE  Posed'
    <2>. DEFINE new == Over([stored |-> Append(j.stored, u), left |-> j.left - 1,
                             pc |-> IF j.left = 1 THEN "rows" ELSE "store"], j)
    <2>1. new.pc \in {"rows", "store"} /\ new.seen = j.seen
      BY <1>1 DEF Over, Idle
    <2>2. job' = [job EXCEPT ![w] = new] /\ settled' = settled /\ images' = images
      BY <1>3 DEF Continue, StoreFile
    <2>3. j.pc = "store"
      BY <1>3 DEF StoreFile, At
    <2>. HIDE DEF new, j
    <2>4. Pose(j, images, face) => Pose(new, images, face)
      BY <2>1, <2>3 DEF Pose
    <2>. QED
      BY <1>1, <2>1, <2>2, <2>4, PosedStays DEF j
  <1>4. ASSUME InsertImages(w), images' = Over(NewImages(j.stored, j.seen), images),
               Continue(w, [pc |-> "face", then |-> "undo"])
        PROVE  Posed'
    <2>. DEFINE new == Over([pc |-> "face", then |-> "undo"], j)
                added == NewImages(j.stored, j.seen)
    <2>1. new.pc = "face" /\ job' = [job EXCEPT ![w] = new] /\ settled' = settled
      BY <1>4 DEF Continue, Over
    <2>2. j.pc = "rows" /\ j.stored \in Seq(Uuids)
      BY <1>1, <1>4 DEF InsertImages, At, JobType, Uploads, Uploading
    <2>3. DOMAIN added = Range(j.stored) /\ Range(j.stored) \cap DOMAIN images = {}
      BY <1>1, <2>2 DEF NewImages, JobFiles, Pending, Uploading
    <2>. HIDE DEF new
    <2>4. ASSUME Pose(j, images, face)
          PROVE  OnePrimary(images')
      <3>1. OnePrimary(images) /\ j.seen = images
        BY <2>2, <2>4 DEF Pose, Faced
      <3>2. Primaries(images') = Primaries(images) \cup Primaries(added)
        BY <1>4, <2>3 DEF Over, Primaries
      <3>3. CASE DOMAIN images # {}
        <4>1. PICK i \in DOMAIN images : Primaries(images) = {i}
          BY <3>1, <3>3 DEF OnePrimary
        <4>2. Primaries(added) = {}
          BY <3>1, <4>1 DEF Primaries, NewImages
        <4>3. i \in DOMAIN images'
          BY <1>4 DEF Over
        <4>. QED
          BY <3>2, <4>1, <4>2, <4>3 DEF OnePrimary
      <3>4. CASE DOMAIN images = {}
        <4>1. Primaries(images) = {} /\ DOMAIN images' = Range(j.stored)
          BY <1>4, <2>3, <3>4 DEF Over, Primaries
        <4>. SUFFICES ASSUME Range(j.stored) # {}
                      PROVE  \E i \in DOMAIN images' : Primaries(added) = {i}
          BY <3>2, <4>1 DEF OnePrimary
        <4>. DEFINE first == j.stored[1]
                    place(u) == CHOOSE k \in DOMAIN j.stored : j.stored[k] = u
        <4>2. 1 \in DOMAIN j.stored /\ first \in Range(j.stored)
          <5>1. DOMAIN j.stored = 1 .. Len(j.stored) /\ Len(j.stored) \in Nat
            BY <2>2
          <5>2. DOMAIN j.stored # {}
            BY DEF Range
          <5>. QED
            BY <5>1, <5>2 DEF Range
        <4>3. \A u \in Range(j.stored) : place(u) \in DOMAIN j.stored /\ j.stored[place(u)] = u
          BY DEF Range
        <4>4. \A u \in Range(j.stored) : added[u].primary = (place(u) = 1)
          BY <3>1, <4>1 DEF NewImages
        <4>. HIDE DEF place, added
        <4>5. \A u \in Range(j.stored) : place(u) = 1 => u = first
          BY <4>3
        <4>6. IsInjective(j.stored)
          BY <1>1, <2>2 DEF JobType, Uploads, Uploading
        <4>7. place(first) = 1
          BY <4>2, <4>3, <4>6 DEF IsInjective
        <4>8. Primaries(added) = {first}
          BY <2>3, <4>2, <4>4, <4>5, <4>7 DEF Primaries
        <4>. QED
          BY <4>1, <4>2, <4>8
      <3>. QED
        BY <3>3, <3>4
    <2>5. Pose(j, images, face) => Pose(new, images', face)
      BY <2>1, <2>4 DEF Pose
    <2>. QED
      BY <1>1, <2>1, <2>5, PosedStays
  <1>5. ASSUME UndoUpload(w)
        PROVE  Posed'
    <2>1. j.pc = "undo" /\ images' = images /\ job' = [job EXCEPT ![w] = Idle] /\ settled' = settled
      BY <1>5 DEF UndoUpload, At, End
    <2>2. Pose(j, images, face) => Faced(images, face)
      BY <2>1 DEF Pose
    <2>. QED
      BY <1>1, <2>1, <2>2, EndPosed
  <1>. QED
    BY <1>2, <1>3, <1>4, <1>5 DEF StoreFile, InsertImages

LEMMA FacePosed ==
  ASSUME Types, Posed, "sync" \notin Faults, NEW w \in Workers, SyncLegacyImage(w) \/ SaveAddress(w)
  PROVE  Posed'
  <1>. DEFINE j == job[w]
              face == products[Pictured].image
  <1>1. DOMAIN j = DOMAIN Idle /\ images' = images /\ ~At(w, "idle")
    BY JobHere DEF SyncLegacyImage, SaveAddress, At, JobType, imageVars
  <1>2. ASSUME SyncLegacyImage(w), NEW a, Continue(w, [pc |-> "address", address |-> a]),
               OnePrimary(images) => Facing(images, a)
        PROVE  Posed'
    <2>. DEFINE new == Over([pc |-> "address", address |-> a], j)
    <2>1. /\ new.pc = "address" /\ new.address = a
          /\ job' = [job EXCEPT ![w] = new] /\ settled' = settled /\ products' = products
      BY <1>2 DEF Over, Continue, SyncLegacyImage, productVars
    <2>. HIDE DEF new
    <2>2. Pose(j, images, face) => Pose(new, images, face)
      BY <1>2, <2>1 DEF Pose, SyncLegacyImage, At
    <2>. QED
      BY <1>1, <2>1, <2>2, PosedStays
  <1>3. CASE SyncLegacyImage(w)
    <2>1. CASE DOMAIN images = {} /\ Continue(w, [pc |-> "address", address |-> None])
      <3>1. Facing(images, None)
        BY <2>1 DEF Facing, Primaries
      <3>. QED
        BY <1>2, <1>3, <2>1, <3>1
    <2>2. ASSUME NEW i \in Faces(images), Continue(w, [pc |-> "address", address |-> images[i].url])
          PROVE  Posed'
      <3>1. OnePrimary(images) => Facing(images, images[i].url)
        <4>. SUFFICES ASSUME OnePrimary(images) PROVE Facing(images, images[i].url)
          OBVIOUS
        <4>1. i \in DOMAIN images
          BY DEF Faces, Primaries, Lowest
        <4>2. PICK k \in DOMAIN images : Primaries(images) = {k}
          BY <4>1 DEF OnePrimary
        <4>3. i = k
          BY <4>2 DEF Faces
        <4>. QED
          BY <4>2, <4>3 DEF Facing
      <3>. QED
        BY <1>2, <1>3, <2>2, <3>1
    <2>. QED
      BY <1>3, <2>1, <2>2 DEF SyncLegacyImage
  <1>4. CASE SaveAddress(w)
    <2>1. j.pc = "address" /\ products'[Pictured].image = j.address
      <3>1. Pictured \in DOMAIN products /\ products[Pictured] \in Products
        BY DEF Types, Rows
      <3>. QED
        BY <1>4, <3>1 DEF SaveAddress, At, Products
    <2>2. Pose(j, images, face) => Faced(images, j.address)
      BY <2>1 DEF Pose, Faced
    <2>3. CASE Goto(w, "erase")
      <3>1. Over([pc |-> "erase"], j).pc = "erase"
        BY DEF Over
      <3>2. Pose(j, images, face) => Pose(Over([pc |-> "erase"], j), images, j.address)
        BY <2>2, <3>1 DEF Pose
      <3>. QED
        BY <1>1, <2>1, <2>3, <3>2, GotoPosed
    <2>4. CASE End(w)
      BY <1>1, <2>1, <2>2, <2>4, EndPosed DEF End
    <2>. QED
      BY <1>4, <2>3, <2>4 DEF SaveAddress
  <1>. QED
    BY <1>3, <1>4

LEMMA TypingPosed ==
  ASSUME Types, Posed, NEW w \in Workers, ReadPrimary(w) \/ TypeAddress(w)
  PROVE  Posed'
  <1>. DEFINE j == job[w]
              face == products[Pictured].image
  <1>1. /\ DOMAIN j = DOMAIN Idle /\ JobType(j) /\ products' = products /\ ~At(w, "idle")
        /\ \A i \in DOMAIN images : images[i] \in Images /\ i # None
    BY JobHere, CatalogueAssumption DEF ReadPrimary, TypeAddress, At, JobType, productVars, Types, Gallery
  <1>2. ASSUME ReadPrimary(w)
        PROVE  Posed'
    <2>0. images' = images /\ j.pc = "primary"
      BY <1>2 DEF ReadPrimary, imageVars, At
    <2>1. CASE Primaries(images) = {} /\ Continue(w, [pc |-> "type", image |-> None])
      <3>. DEFINE new == Over([pc |-> "type", image |-> None], j)
      <3>1. new.pc = "type" /\ new.image = None /\ job' = [job EXCEPT ![w] = new] /\ settled' = settled
        BY <1>1, <2>1 DEF Over, Idle, Continue
      <3>. HIDE DEF new
      <3>2. Pose(j, images, face) => Pose(new, images, face)
        BY <2>0, <2>1, <3>1 DEF Pose, OnePrimary
      <3>. QED
        BY <1>1, <2>0, <3>1, <3>2, PosedStays
    <2>2. ASSUME NEW i \in Primaries(images), Continue(w, [pc |-> "type", image |-> i, copy |-> images[i]])
          PROVE  Posed'
      <3>. DEFINE new == Over([pc |-> "type", image |-> i, copy |-> images[i]], j)
      <3>1. /\ new.pc = "type" /\ new.image = i /\ new.copy = images[i]
            /\ job' = [job EXCEPT ![w] = new] /\ settled' = settled
        BY <1>1, <2>2 DEF Over, Idle, Continue
      <3>. HIDE DEF new
      <3>2. i \in DOMAIN images /\ i # None
        BY <1>1 DEF Primaries
      <3>3. OnePrimary(images) => Primaries(images) = {i}
        BY <3>2 DEF OnePrimary
      <3>4. Pose(j, images, face) => Pose(new, images, face)
        BY <2>0, <3>1, <3>2, <3>3 DEF Pose
      <3>. QED
        BY <1>1, <2>0, <3>1, <3>4, PosedStays
    <2>. QED
      BY <1>2, <2>1, <2>2 DEF ReadPrimary
  <1>3. ASSUME TypeAddress(w)
        PROVE  Posed'
    <2>1. job' = [job EXCEPT ![w] = Idle] /\ j.pc = "type" /\ settled' = settled
      BY <1>3 DEF TypeAddress, End, At
    <2>2. ASSUME Pose(j, images, face), NEW i, NEW row, SaveImage(i, row), row.primary, row.url = Typed,
                 Primaries(images) \subseteq {i}
          PROVE  Faced(images', face)
      <3>1. /\ DOMAIN images' = DOMAIN images \cup {i} /\ images'[i] = row
            /\ \A k \in DOMAIN images \ {i} : images'[k] = images[k]
        BY <2>2 DEF SaveImage, Over
      <3>2. Primaries(images') = {i}
        BY <2>2, <3>1 DEF Primaries
      <3>. QED
        BY <2>1, <2>2, <3>1, <3>2 DEF Pose, Faced, OnePrimary, Facing
    <2>3. ASSUME Pose(j, images, face)
          PROVE  Faced(images', face)
      <3>1. CASE j.image # None
        <4>1. Primaries(images) = {j.image} /\ j.copy = images[j.image]
          BY <2>1, <2>3, <3>1 DEF Pose
        <4>2. j.copy \in Images /\ j.copy.primary
          BY <1>1, <4>1 DEF Primaries
        <4>. DEFINE row == [j.copy EXCEPT !.url = Typed, !.path = None]
        <4>3. row.primary /\ row.url = Typed
          BY <4>2 DEF Images
        <4>4. SaveImage(j.image, row)
          BY <1>3, <3>1 DEF TypeAddress
        <4>. HIDE DEF row
        <4>. QED
          BY <2>2, <2>3, <4>1, <4>3, <4>4
      <3>2. CASE j.image = None
        <4>1. Primaries(images) = {}
          BY <2>1, <2>3, <3>2 DEF Pose, Primaries
        <4>2. PICK u : SaveImage(u, [path |-> None, url |-> Typed, position |-> 0, primary |-> TRUE])
          BY <1>3, <3>2 DEF TypeAddress
        <4>. QED
          BY <2>2, <2>3, <4>1, <4>2
      <3>. QED
        BY <3>1, <3>2
    <2>. QED
      BY <1>1, <2>1, <2>3, EndPosed
  <1>. QED
    BY <1>2, <1>3

LEMMA MarkingPosed ==
  ASSUME Types, Posed, SavesAreFresh, NEW w \in Workers,
         ClearPrimary(w) \/ MarkPrimary(w) \/ SaveMetadata(w) \/ SavePositions(w)
  PROVE  Posed'
  <1>. DEFINE j == job[w]
              face == products[Pictured].image
  <1>1. /\ DOMAIN j = DOMAIN Idle /\ products' = products /\ ~At(w, "idle")
        /\ \A i \in DOMAIN images : images[i] \in Images
    BY JobHere DEF ClearPrimary, MarkPrimary, SaveMetadata, SavePositions, At, JobType, productVars,
                   Types, Gallery
  <1>2. CASE ClearPrimary(w)
    <2>1. DOMAIN images' = DOMAIN images /\ \A i \in DOMAIN images : images'[i].primary = FALSE
      BY <1>1, <1>2 DEF ClearPrimary, Images
    <2>2. Primaries(images') = {}
      BY <2>1 DEF Primaries
    <2>3. Over([pc |-> "mark"], j).pc = "mark" /\ Over([pc |-> "mark"], j).image = j.image
      BY <1>1, GotoFields
    <2>4. Pose(j, images, face) => Pose(Over([pc |-> "mark"], j), images', face)
      BY <1>2, <2>1, <2>2, <2>3 DEF Pose, ClearPrimary, At
    <2>. QED
      BY <1>1, <1>2, <2>4, GotoPosed DEF ClearPrimary
  <1>3. CASE MarkPrimary(w)
    <2>1. /\ DOMAIN images' = DOMAIN images
          /\ \A i \in DOMAIN images : images'[i].primary = (i = j.image \/ images[i].primary)
      BY <1>1, <1>3 DEF MarkPrimary, Images
    <2>2. Over([pc |-> "face"], j).pc = "face"
      BY DEF Over
    <2>3. ASSUME Pose(j, images, face)
          PROVE  OnePrimary(images')
      <3>1. Primaries(images) = {} /\ j.image \in DOMAIN images
        BY <1>3, <2>3 DEF Pose, MarkPrimary, At
      <3>2. Primaries(images') = {j.image}
        BY <2>1, <3>1 DEF Primaries
      <3>. QED
        BY <2>1, <3>1, <3>2 DEF OnePrimary
    <2>4. Pose(j, images, face) => Pose(Over([pc |-> "face"], j), images', face)
      BY <2>2, <2>3 DEF Pose
    <2>. QED
      BY <1>1, <1>3, <2>4, GotoPosed DEF MarkPrimary
  <1>4. CASE SaveMetadata(w)
    <2>1. j.pc = "metadata" /\ job' = [job EXCEPT ![w] = Idle] /\ settled' = settled
      BY <1>4 DEF SaveMetadata, At, End
    <2>2. job'[w].pc # job[w].pc
      BY <2>1 DEF Idle, Types, Jobs
    <2>3. j.image \in DOMAIN images /\ images[j.image] = j.copy
      BY <2>1, <2>2 DEF SavesAreFresh, At
    <2>4. DOMAIN images' = DOMAIN images /\ \A i \in DOMAIN images : images'[i] = images[i]
      BY <1>4, <2>3 DEF SaveMetadata, SaveImage, Over
    <2>5. Pose(j, images, face) => Faced(images', face)
      BY <2>1, <2>4, SameFace DEF Pose, Faced
    <2>. QED
      BY <1>1, <2>1, <2>5, EndPosed
  <1>5. CASE SavePositions(w)
    <2>. DEFINE s == j.order
    <2>1. PICK last : images' = [i \in DOMAIN images |->
                          IF i \in Range(s) THEN [images[i] EXCEPT !.position = last[i] - 1]
                          ELSE images[i]]
      BY <1>5 DEF SavePositions
    <2>. HIDE DEF s
    <2>2. /\ DOMAIN images' = DOMAIN images
          /\ \A i \in DOMAIN images : images'[i].primary = images[i].primary /\ images'[i].url = images[i].url
      BY <1>1, <2>1 DEF Images
    <2>3. Pose(j, images, face) => Faced(images', face)
      BY <1>5, <2>2, SameFace DEF Pose, Faced, SavePositions, At
    <2>. QED
      BY <1>1, <1>5, <2>3, EndPosed DEF SavePositions, End
  <1>. QED
    BY <1>2, <1>3, <1>4, <1>5

LEMMA RemovingPosed ==
  ASSUME Types, Posed, NEW w \in Workers,
         DeleteImage(w) \/ FindReplacement(w) \/ Promote(w) \/ NormalizePositions(w) \/ EraseFile(w)
  PROVE  Posed'
  <1>. DEFINE j == job[w]
              face == products[Pictured].image
  <1>1. /\ DOMAIN j = DOMAIN Idle /\ products' = products /\ ~At(w, "idle")
        /\ \A i \in DOMAIN images : images[i] \in Images
    BY JobHere DEF DeleteImage, FindReplacement, Promote, NormalizePositions, EraseFile, At, JobType,
                   productVars, Types, Gallery
  <1>2. \A to : Over([pc |-> to], j).pc = to
    BY DEF Over
  <1>3. CASE DeleteImage(w)
    <2>1. /\ j.pc = "delete" /\ DOMAIN images' = DOMAIN images \ {j.image}
          /\ \A i \in DOMAIN images' : images'[i] = images[i]
          /\ Goto(w, IF j.copy.primary THEN "replace" ELSE "normalize")
      BY <1>3 DEF DeleteImage, Restrict, At
    <2>2. ASSUME Pose(j, images, face)
          PROVE  IF j.copy.primary THEN Primaries(images') = {} ELSE OnePrimary(images')
      <3>1. /\ j.image \in DOMAIN images /\ j.copy = images[j.image] /\ OnePrimary(images)
        BY <2>1, <2>2 DEF Pose, Faced
      <3>2. PICK i \in DOMAIN images : Primaries(images) = {i}
        BY <3>1 DEF OnePrimary
      <3>3. Primaries(images') = Primaries(images) \ {j.image}
        BY <2>1 DEF Primaries
      <3>4. j.copy.primary <=> i = j.image
        BY <3>1, <3>2 DEF Primaries
      <3>. QED
        BY <2>1, <3>2, <3>3, <3>4 DEF OnePrimary
    <2>3. Pose(j, images, face) =>
            Pose(Over([pc |-> IF j.copy.primary THEN "replace" ELSE "normalize"], j), images', face)
      BY <1>2, <2>2 DEF Pose
    <2>. QED
      BY <1>1, <2>1, <2>3, GotoPosed
  <1>4. CASE FindReplacement(w)
    <2>0. images' = images /\ j.pc = "replace"
      BY <1>4 DEF FindReplacement, At, imageVars
    <2>1. CASE DOMAIN images = {} /\ Goto(w, "normalize")
      <3>1. Pose(j, images, face) => Pose(Over([pc |-> "normalize"], j), images, face)
        BY <1>2, <2>1 DEF Pose, OnePrimary
      <3>. QED
        BY <1>1, <2>0, <2>1, <3>1, GotoPosed
    <2>2. ASSUME NEW i \in Lowest(images),
                 Continue(w, [pc |-> "promote", order |-> <<i>>, row |-> images[i]])
          PROVE  Posed'
      <3>. DEFINE new == Over([pc |-> "promote", order |-> <<i>>, row |-> images[i]], j)
      <3>1. /\ new.pc = "promote" /\ new.order = <<i>> /\ new.row = images[i]
            /\ job' = [job EXCEPT ![w] = new] /\ settled' = settled
        BY <1>1, <2>2 DEF Over, Idle, Continue
      <3>2. i \in DOMAIN images /\ new.order[1] = i
        BY <3>1 DEF Lowest
      <3>. HIDE DEF new
      <3>3. Pose(j, images, face) => Pose(new, images, face)
        BY <2>0, <3>1, <3>2 DEF Pose
      <3>. QED
        BY <1>1, <2>0, <3>1, <3>3, PosedStays
    <2>. QED
      BY <1>4, <2>1, <2>2 DEF FindReplacement
  <1>5. CASE Promote(w)
    <2>. DEFINE i == j.order[1]
                row == [j.row EXCEPT !.primary = TRUE]
    <2>1. j.pc = "promote" /\ images' = Over([k \in {i} |-> row], images)
      BY <1>5 DEF Promote, At, SaveImage
    <2>2. ASSUME Pose(j, images, face)
          PROVE  OnePrimary(images')
      <3>1. i \in DOMAIN images /\ j.row = images[i] /\ Primaries(images) = {}
        BY <2>1, <2>2 DEF Pose
      <3>2. row.primary
        BY <1>1, <3>1 DEF Images
      <3>. HIDE DEF row, i
      <3>3. /\ DOMAIN images' = DOMAIN images /\ images'[i] = row
            /\ \A k \in DOMAIN images \ {i} : images'[k] = images[k]
        BY <2>1, <3>1 DEF Over
      <3>4. Primaries(images') = {i}
        BY <3>1, <3>2, <3>3 DEF Primaries
      <3>. QED
        BY <3>1, <3>3, <3>4 DEF OnePrimary
    <2>. HIDE DEF i, row
    <2>3. Pose(j, images, face) => Pose(Over([pc |-> "normalize"], j), images', face)
      BY <1>2, <2>2 DEF Pose
    <2>. QED
      BY <1>1, <1>5, <2>3, GotoPosed DEF Promote
  <1>6. CASE NormalizePositions(w)
    <2>1. PICK s : images' = [i \in DOMAIN images |->
                      [images[i] EXCEPT !.position = (CHOOSE k \in DOMAIN s : s[k] = i) - 1]]
      BY <1>6 DEF NormalizePositions
    <2>2. /\ DOMAIN images' = DOMAIN images
          /\ \A i \in DOMAIN images : images'[i].primary = images[i].primary /\ images'[i].url = images[i].url
      BY <1>1, <2>1 DEF Images
    <2>3. OnePrimary(images) => OnePrimary(images')
      BY <2>2, SameFace
    <2>4. Pose(j, images, face) => Pose(Over([pc |-> "face"], j), images', face)
      BY <1>2, <1>6, <2>3 DEF Pose, NormalizePositions, At
    <2>. QED
      BY <1>1, <1>6, <2>4, GotoPosed DEF NormalizePositions
  <1>7. CASE EraseFile(w)
    <2>1. j.pc = "erase" /\ images' = images /\ job' = [job EXCEPT ![w] = Idle] /\ settled' = settled
      BY <1>7 DEF EraseFile, At, End
    <2>2. Pose(j, images, face) => Faced(images, face)
      BY <2>1 DEF Pose
    <2>. QED
      BY <1>1, <2>1, <2>2, EndPosed
  <1>. QED
    BY <1>3, <1>4, <1>5, <1>6, <1>7

LEMMA WritingPosed ==
  ASSUME Types, Posed, SavesAreFresh, NEW w \in Workers,
         SaveNew(w) \/ SaveUpdate(w) \/ WriteBundle(w) \/ WriteOrder(w) \/ WriteShowcase(w)
  PROVE  Posed'
  <1>. DEFINE j == job[w]
              face == products[Pictured].image
  <1>1. /\ JobType(j) /\ DOMAIN j = DOMAIN Idle /\ images' = images /\ ~At(w, "idle")
        /\ j.pc \in {"create", "update", "bundle", "catalogue", "showcase"}
        /\ Pictured \in DOMAIN products /\ \A p \in DOMAIN products : products[p] \in Products
    BY JobHere DEF SaveNew, SaveUpdate, WriteBundle, WriteOrder, WriteShowcase, At, JobType,
                   imageVars, Types, Rows
  <1>2. Pose(j, images, face) => Faced(images, face)
    BY <1>1 DEF Pose
  <1>3. ASSUME End(w), products'[Pictured].image = face
        PROVE  Posed'
    BY <1>1, <1>2, <1>3, EndPosed DEF End
  <1>4. CASE SaveNew(w)
    <2>1. j.pc = "create" /\ job'[w].pc # job[w].pc
      BY <1>4 DEF SaveNew, At, End, Idle, Types, Jobs
    <2>2. j.id \notin DOMAIN products
      BY <2>1 DEF SavesAreFresh, At
    <2>3. products'[Pictured] = products[Pictured]
      BY <1>1, <1>4, <2>2 DEF SaveNew, Over
    <2>. QED
      BY <1>3, <1>4, <2>3 DEF SaveNew
  <1>5. CASE SaveUpdate(w)
    <2>1. j.pc = "update" /\ products' = [products EXCEPT ![j.id] = j.row]
      BY <1>5 DEF SaveUpdate, At
    <2>2. CASE j.then = "primary" /\ Goto(w, "primary")
      <3>1. j.id = Pictured /\ j.row.image = Typed
        BY <1>1, <2>1, <2>2 DEF JobType
      <3>2. products'[Pictured].image = Typed
        BY <1>1, <2>1, <3>1
      <3>3. Over([pc |-> "primary"], j).pc = "primary"
        BY DEF Over
      <3>4. Pose(j, images, face) => Pose(Over([pc |-> "primary"], j), images, Typed)
        BY <1>2, <3>3 DEF Pose, Faced
      <3>. QED
        BY <1>1, <2>2, <3>2, <3>4, GotoPosed
    <2>3. CASE /\ job' = [job EXCEPT ![w] = Idle]
               /\ settled' = (settled /\ j.row.image = j.copy.image)
      <3>1. job'[w].pc # job[w].pc
        BY <2>1, <2>3 DEF Idle, Types, Jobs
      <3>2. products[j.id] = j.copy
        BY <2>1, <3>1 DEF SavesAreFresh, At
      <3>3. settled' => products'[Pictured].image = face
        BY <1>1, <2>1, <2>3, <3>2
      <3>. QED
        BY <1>1, <1>2, <2>3, <3>3, EndPosed
    <2>. QED
      BY <1>5, <2>2, <2>3 DEF SaveUpdate
  <1>6. CASE WriteBundle(w)
    <2>. DEFINE places == [p \in DOMAIN products |-> Rank(j.order, p) + Rank(j.other, p)]
    <2>1. products' = [p \in DOMAIN products |-> [products[p] EXCEPT !.bundle = places[p]]]
      BY <1>6 DEF WriteBundle
    <2>. HIDE DEF places
    <2>2. products'[Pictured].image = face
      BY <1>1, <2>1 DEF Products
    <2>. QED
      BY <1>3, <1>6, <2>2 DEF WriteBundle
  <1>7. CASE WriteOrder(w)
    <2>1. products'[Pictured].image = face
      BY <1>1, <1>7 DEF WriteOrder, Products
    <2>. QED
      BY <1>3, <1>7, <2>1 DEF WriteOrder
  <1>8. CASE WriteShowcase(w)
    BY <1>3, <1>8 DEF WriteShowcase
  <1>. QED
    BY <1>4, <1>5, <1>6, <1>7, <1>8

LEMMA PosedStep ==
  ASSUME "sync" \notin Faults
  PROVE  Types /\ Files /\ Posed /\ [Next /\ SavesAreFresh]_vars => Posed'
  <1>. SUFFICES ASSUME Types, Files, Posed, [Next /\ SavesAreFresh]_vars PROVE Posed'
    OBVIOUS
  <1>1. ASSUME NEW w \in Workers, ImageStep(w), SavesAreFresh
        PROVE  Posed'
    <2>1. CASE \/ \E n \in 1 .. MaxImages : UploadImages(w, n)
               \/ \E i \in DOMAIN images : SetPrimaryImage(w, i) \/ UpdateImageMetadata(w, i) \/ RemoveImage(w, i)
               \/ \E s \in ImageLists : ReorderImages(w, s)
               \/ UpdateImage(w)
      BY <2>1, BeginningPosed
    <2>. QED
      BY <1>1, <2>1, UploadPosed, FacePosed, TypingPosed, MarkingPosed, RemovingPosed DEF ImageStep
  <1>2. ASSUME NEW w \in Workers, ProductStep(w), SavesAreFresh
        PROVE  Posed'
    <2>1. CASE \/ \E wanted \in 0 .. MaxId, cat \in Cats : Create(w, wanted, cat)
               \/ \E p \in Live, patch \in Patches : Update(w, p, patch)
               \/ \E b \in Selections(Live), t \in Selections(Live) : SaveBundleSelection(w, b, t)
               \/ \E s \in Lists(Live, Cardinality(Live)) : SaveCatalogOrder(w, s)
               \/ \E page \in Pages : \E s \in Lists(Live, PageSize[page]) : SaveShowcase(w, page, s)
      BY <2>1, BeginningPosed
    <2>. QED
      BY <1>2, <2>1, WritingPosed DEF ProductStep
  <1>3. ASSUME NEW p \in DOMAIN products, RemoveProduct(p)
        PROVE  Posed'
    <2>1. products'[Pictured].image = products[Pictured].image
      <3>1. products[Pictured] \in Products /\ Pictured \in DOMAIN products
        BY DEF Types, Rows
      <3>. QED
        BY <1>3, <3>1 DEF RemoveProduct, Products
    <2>. QED
      BY <1>3, <2>1 DEF RemoveProduct, Posed, At, imageVars
  <1>4. CASE UNCHANGED vars
    BY <1>4 DEF vars, Posed, At
  <1>. QED
    BY <1>1, <1>2, <1>3, <1>4 DEF Next

LEMMA PosedInit == Init => Posed
  BY DEF Init, Posed, At, Idle, Faced, OnePrimary, Facing, Primaries

-----------------------------------------------------------------------------
(* Theorems *)

\* Through any schedule, a row is a piece or an image, the rows and the files of the
\* images have ids that were drawn, and the pages choose pieces that were created.
THEOREM TypeCorrect == Spec => []TypeOK
  <1>1. Types => TypeOK
    BY DEF Types, Rows, Gallery, Showcases, TypeOK
  <1>. QED
    BY <1>1, TypesInit, TypesStep, PTL DEF Spec

\* Through any schedule, no page shows a piece twice, nor one removed or switched off,
\* nor nothing while the shop has something to show.
THEOREM PagesAreFilledHolds == Spec => []PagesAreFilled
  BY PagesFromTypes, TypesInit, TypesStep, PTL DEF Spec

\* When saves are fresh, the pieces of the bundle page stay paired: a piece leaves its
\* place when it changes category, and the places of a selection are its ranks.
THEOREM BundleColumnsHolds == CalmSpec => []BundleColumns
  <1>1. Init => BundleColumns
    <2>. SUFFICES ASSUME Init PROVE Paired(products, Live)
      BY DEF BundleColumns
    <2>1. Paired(products, DOMAIN products) /\ Live \subseteq DOMAIN products
      BY CatalogueAssumption DEF Init, Live
    <2>. QED
      BY <2>1 DEF Paired
  <1>2. Types /\ [Next /\ SavesAreFresh]_vars => Types'
    BY TypesStep
  <1>. QED
    BY <1>1, <1>2, TypesInit, BundleStep, PTL DEF CalmSpec

\* When saves are fresh and the address of a piece is always saved, no row of an image is
\* without its file: a file goes when its upload has no row, or after its row.
THEOREM FilesBehindRowsHolds ==
  ASSUME "sync" \notin Faults
  PROVE  CalmSpec => []FilesBehindRows
  <1>1. Files => FilesBehindRows
    BY DEF Files, RowsBehind, FilesBehindRows
  <1>2. Types /\ [Next /\ SavesAreFresh]_vars => Types'
    BY TypesStep
  <1>. QED
    BY <1>1, <1>2, TypesInit, FilesInit, FilesStep, PTL DEF CalmSpec

\* When saves are fresh and the address of a piece is always saved, a gallery that no two
\* requests have touched at once has one primary image, and the piece has its address.
THEOREM GalleryFaceHolds ==
  ASSUME "sync" \notin Faults
  PROVE  CalmSpec => []GalleryFace
  <1>1. Posed => GalleryFace
    BY DEF Posed, Faced, OnePrimary, Facing, GalleryFace
  <1>2. Types /\ [Next /\ SavesAreFresh]_vars => Types'
    BY TypesStep
  <1>. QED
    BY <1>1, <1>2, TypesInit, FilesInit, FilesStep, PosedInit, PosedStep, PTL DEF CalmSpec

=============================================================================
