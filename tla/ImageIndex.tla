----------------------------- MODULE ImageIndex -----------------------------
(***************************************************************************)
(* The indices of interpreter images.  AllocImageIndex gives each assembly *)
(* an index in one of four size classes ("kinds"), by the length of its    *)
(* DLL; MetadataUtil.h packs the index above the row index of a type or    *)
(* method into 32 bits.  The class decides how many bits the row has:      *)
(*                                                                         *)
(*      | kind | index without kind ............. | row index ...........| *)
(*                            | Step[kind]        | Rows                 | *)
(*                                                                         *)
(* The sizes of these fields are powers of two in the code, so its shifts  *)
(* and masks are the products, quotients and remainders below; the model   *)
(* needs only that each divides the next.                                  *)
(*                                                                         *)
(* An index is taken before the image is loaded and never given back, also *)
(* when the load fails.                                                    *)
(***************************************************************************)
EXTENDS Integers, FiniteSets

CONSTANTS
  Rows,      \* 1 << kMetadataIndexBits (2^22)
  Indices,   \* kMaxMetadataImageIndexWithoutKind (2^8)
  Step,      \* 1 << kMetadataImageIndexExtraShiftBitsArr[kind] (64, 16, 4, 1)
  Lengths    \* the DLL lengths that are loaded

Kinds == 0..3

ASSUME SizeAssumption ==
  /\ Rows \in Nat \ {0} /\ Indices \in Nat \ {0}
  /\ Step \in [Kinds -> 1..Indices]
  /\ \A k \in Kinds : Indices % Step[k] = 0
  /\ Step[3] = 1
  /\ \A k \in 1..3 : Step[k] <= Step[k - 1]
ASSUME LengthAssumption == Lengths \subseteq Nat

VARIABLES
  nextIndex,   \* s_nextImageIndexByKind
  taken,       \* the images' indices
  latest,      \* the last of them: its index and the length of its DLL
  refused      \* the lengths of the DLLs there was no index for

imageVars == <<nextIndex, taken, latest, refused>>

-----------------------------------------------------------------------------
\* The encoding. Indices are uint32_t; kInvalidIndex is -1, all bits set.

IndexMask(kind) == Rows * Step[kind] - 1
IndicesOfKind == Rows * Indices   \* 1 << kMetadataKindShiftBits
Word == 4 * IndicesOfKind         \* 2^32
InvalidIndex == Word - 1
InvalidImage == 0   \* kInvalidImageIndex

ImageOf(index, kind) == index + kind * Indices

\* the code joins them with |: the bits of the row are clear in the image
Encode(image, row) == IF row = InvalidIndex THEN InvalidIndex ELSE image * Rows + row

KindOf(index) == index \div IndicesOfKind
DecodeImageIndex(index) ==
  IF index = InvalidIndex THEN 0
  ELSE (index - (index % (IndexMask(KindOf(index)) + 1))) \div Rows
DecodeMetadataIndex(index) ==
  IF index = InvalidIndex THEN InvalidIndex ELSE index % (IndexMask(KindOf(index)) + 1)
IsInterpreterIndex(index) == index # InvalidIndex /\ index > IndexMask(0)

-----------------------------------------------------------------------------
\* Allocation

\* GetImageKindByDllLength: the class with the fewest rows that suffice; an
\* image is taken to have at most four rows per byte. The product is uint32_t.
MaxRow(length) == (length * 4) % Word
Fitting(length) == {k \in Kinds : MaxRow(length) <= IndexMask(k)}
KindByDllLength(length) == CHOOSE k \in Fitting(length) : \A j \in Fitting(length) : j <= k

\* 255 is preserved for the invalid index when the kind is 3
HasRoom(kind) == nextIndex[kind] < Indices - (IF kind = 3 THEN 1 ELSE 0)

\* Mutant: a full class refuses, although a larger one has room.
Candidates_Own(length) == {k \in {KindByDllLength(length)} : HasRoom(k)}

\* the class of that size, or when it is full a larger one
Candidates(length) == {k \in 0..KindByDllLength(length) : HasRoom(k)}

\* Mutant: classes advance by one index, whatever they are shifted by.
Allocate_ByOne(length) ==
  LET kind == CHOOSE k \in Candidates(length) : \A j \in Candidates(length) : j <= k
  IN  /\ nextIndex' = [nextIndex EXCEPT ![kind] = @ + 1]
      /\ taken' = taken \cup {ImageOf(nextIndex[kind], kind)}
      /\ latest' = [id |-> ImageOf(nextIndex[kind], kind), length |-> length]
      /\ UNCHANGED refused

Allocate(length) ==
  LET kind == CHOOSE k \in Candidates(length) : \A j \in Candidates(length) : j <= k
  IN  /\ nextIndex' = [nextIndex EXCEPT ![kind] = @ + Step[kind]]
      /\ taken' = taken \cup {ImageOf(nextIndex[kind], kind)}
      /\ latest' = [id |-> ImageOf(nextIndex[kind], kind), length |-> length]
      /\ UNCHANGED refused

Refuse(length) == refused' = refused \cup {length} /\ UNCHANGED <<nextIndex, taken, latest>>

AllocImageIndex(length) ==
  IF Fitting(length) # {} /\ Candidates(length) # {} THEN Allocate(length) ELSE Refuse(length)

ImagesInit ==
  /\ nextIndex = [k \in Kinds |-> IF k = 0 THEN Step[0] ELSE 0]
  /\ taken = {} /\ refused = {}
  /\ latest = [id |-> InvalidImage, length |-> 0]

ImagesNext == \E length \in Lengths : AllocImageIndex(length)

-----------------------------------------------------------------------------
\* Properties

\* below this length (1 GiB in the code) four rows per byte fit a word
Sane(length) == length * 4 < Word

\* The state has its shape, and s_images has a place for every image.
ImagesTypeOK ==
  /\ nextIndex \in [Kinds -> 0..Indices]
  /\ taken \subseteq 1..(4 * Indices - 1)
  /\ latest.id \in taken \cup {InvalidImage} /\ latest.length \in Lengths \cup {0}
  /\ refused \subseteq Lengths

\* Whatever an image encodes is decoded as that row of that image, is not
\* taken for kInvalidIndex nor for an index of an AOT image. So no two images
\* share an encoded index, in whichever class and order they were allocated.
\* (From 1 GiB on, dllLength * 4 wraps and the class may be too small.)
EncodedIndicesAreRecovered ==
  [][latest' # latest /\ Sane(latest'.length) =>
       /\ latest'.id \notin taken
       /\ \A row \in 0..(latest'.length * 4) :
            LET index == Encode(latest'.id, row)
            IN  /\ index \in 0..(InvalidIndex - 1)
                /\ DecodeImageIndex(index) = latest'.id
                /\ DecodeMetadataIndex(index) = row
                /\ IsInterpreterIndex(index)]_imageVars

\* The indices a class can give in a process: the AOT metadata has the first of
\* the largest class, kInvalidIndex the last of the smallest.
Capacity(kind) ==
  (Indices \div Step[kind]) - (IF kind \in {0, 3} THEN 1 ELSE 0)

\* An assembly that fits some class is refused only when every class large
\* enough for it has handed out all it has: no index is skipped or lost.
\* The state stays well-typed.
RefusedOnlyWhenFull ==
  /\ ImagesTypeOK
  /\ \A length \in refused : Fitting(length) # {} =>
       \A kind \in 0..KindByDllLength(length) :
         Cardinality({id \in taken : id \div Indices = kind}) = Capacity(kind)
=============================================================================
