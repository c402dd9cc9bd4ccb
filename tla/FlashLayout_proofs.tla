------------------------- MODULE FlashLayout_proofs -------------------------
(***************************************************************************)
(* Facts about the flash map that the proofs about BootDevice rest on.     *)
(***************************************************************************)
EXTENDS FlashLayout, SequenceTheorems, FiniteSetTheorems, TLAPS

(* A cited assumption is always meant with its content. *)
USE DEF LayoutAssumption, BitAndAssumption, MaskAssumption

(* Sectors are numbered from 0 to at most 7. *)
LEMMA SectorNumbers ==
  /\ FLASH_NUMBER_OF_SECTORS \in Nat
  /\ \A s \in Sectors : s \in 0 .. 7 /\ s < FLASH_NUMBER_OF_SECTORS
<1>1. FLASH_NUMBER_OF_SECTORS \in Nat /\ FLASH_NUMBER_OF_SECTORS <= 8
  BY LayoutAssumption
<1>2. QED
  BY <1>1 DEF Sectors

(* The application area begins inside the flash, at the start of sector 2. *)
LEMMA ApplicationArea ==
  /\ SECTOR2_ADDRESS \in Nat /\ FLASH_END \in Nat
  /\ SECTOR2_ADDRESS < FLASH_END
  /\ 0 \in Sectors
<1>1. SECTOR2 \in 0 .. FLASH_NUMBER_OF_SECTORS /\ SECTOR2 < FLASH_NUMBER_OF_SECTORS
  BY LayoutAssumption DEF SECTOR2
<1>2. QED
  BY <1>1, LayoutAssumption DEF SECTOR2_ADDRESS, FLASH_END, Sectors

(* Every cell of a sector is a flash address. *)
LEMMA CellsInFlash ==
  ASSUME NEW s \in Sectors
  PROVE  CellsOf(s) \subseteq Address
<1>1. s \in 0 .. FLASH_NUMBER_OF_SECTORS /\ s + 1 \in 0 .. FLASH_NUMBER_OF_SECTORS
  BY LayoutAssumption DEF Sectors
<1>2. /\ SECTOR_ADDRESS[s] \in Nat /\ SECTOR_ADDRESS[s + 1] \in Nat
      /\ FLASH_END \in Nat
  BY <1>1, LayoutAssumption DEF FLASH_END
<1>3. SECTOR_ADDRESS[s + 1] <= FLASH_END
  <2>1. CASE s + 1 = FLASH_NUMBER_OF_SECTORS
    BY <2>1, <1>2 DEF FLASH_END
  <2>2. CASE s + 1 < FLASH_NUMBER_OF_SECTORS
    BY <2>2, <1>1, <1>2, LayoutAssumption DEF FLASH_END
  <2>3. QED
    BY <2>1, <2>2, <1>1, LayoutAssumption
<1>4. QED
  BY <1>2, <1>3 DEF CellsOf, Address

(* Two sectors share no cell. *)
LEMMA SectorsDisjoint ==
  ASSUME NEW s \in Sectors, NEW t \in Sectors, s # t
  PROVE  CellsOf(s) \cap CellsOf(t) = {}
<1>1. ASSUME NEW u \in Sectors, NEW v \in Sectors, u < v
      PROVE  CellsOf(u) \cap CellsOf(v) = {}
  <2>1. /\ u \in 0 .. FLASH_NUMBER_OF_SECTORS /\ u + 1 \in 0 .. FLASH_NUMBER_OF_SECTORS
        /\ v \in 0 .. FLASH_NUMBER_OF_SECTORS /\ v + 1 \in 0 .. FLASH_NUMBER_OF_SECTORS
    BY LayoutAssumption DEF Sectors
  <2>2. /\ SECTOR_ADDRESS[u] \in Nat /\ SECTOR_ADDRESS[u + 1] \in Nat
        /\ SECTOR_ADDRESS[v] \in Nat /\ SECTOR_ADDRESS[v + 1] \in Nat
    BY <2>1, LayoutAssumption
  <2>3. SECTOR_ADDRESS[u + 1] <= SECTOR_ADDRESS[v]
    <3>1. CASE u + 1 = v
      BY <3>1, <2>2
    <3>2. CASE u + 1 < v
      BY <3>2, <2>1, <2>2, LayoutAssumption
    <3>3. QED
      BY <3>1, <3>2, <2>1, <1>1
  <2>4. QED
    BY <2>2, <2>3 DEF CellsOf
<1>2. CASE s < t
  BY <1>2, <1>1
<1>3. CASE t < s
  BY <1>3, <1>1
<1>4. s < t \/ t < s
  BY SectorNumbers
<1>5. QED
  BY <1>2, <1>3, <1>4

(* No sector from 2 on reaches below the application area. *)
LEMMA ApplicationCells ==
  ASSUME NEW s \in Sectors, s >= SECTOR2, NEW a \in CellsOf(s)
  PROVE  a \in Nat /\ a >= SECTOR2_ADDRESS /\ a < FLASH_END
<1>1. s \in 0 .. FLASH_NUMBER_OF_SECTORS /\ SECTOR2 \in 0 .. FLASH_NUMBER_OF_SECTORS
  BY LayoutAssumption DEF Sectors, SECTOR2
<1>2. SECTOR_ADDRESS[s] \in Nat /\ SECTOR2_ADDRESS \in Nat
  BY <1>1, LayoutAssumption DEF SECTOR2_ADDRESS
<1>3. SECTOR_ADDRESS[s] >= SECTOR2_ADDRESS
  <2>1. CASE s = SECTOR2
    BY <2>1, <1>2 DEF SECTOR2_ADDRESS
  <2>2. CASE s > SECTOR2
    BY <2>2, <1>1, <1>2, LayoutAssumption DEF SECTOR2_ADDRESS
  <2>3. QED
    BY <2>1, <2>2, <1>1 DEF SECTOR2
<1>4. a \in Address
  BY CellsInFlash
<1>5. s + 1 \in 0 .. FLASH_NUMBER_OF_SECTORS
  BY LayoutAssumption DEF Sectors
<1>6. QED
  BY <1>2, <1>3, <1>4, <1>5, ApplicationArea, LayoutAssumption DEF CellsOf, Address

(* The sectors an image needs are application sectors, whatever its size. *)
LEMMA SectorsForFlashType ==
  ASSUME NEW n
  PROVE  /\ GetSectorsForFlash(n) \subseteq Sectors
         /\ \A s \in GetSectorsForFlash(n) : s >= SECTOR2
BY LayoutAssumption DEF GetSectorsForFlash, Sectors, SECTOR2

(* A set of sectors has a mask byte. *)
LEMMA MaskType ==
  ASSUME NEW S \in SUBSET Sectors
  PROVE  MaskOfSectors(S) \in Byte /\ SectorsOfMask(MaskOfSectors(S)) = S
BY MaskAssumption DEF MaskOfSectors

(* There are at most eight sectors, and one less when one is taken away. *)
LEMMA SectorsAreFew ==
  ASSUME NEW S \in SUBSET Sectors
  PROVE  /\ Cardinality(S) \in 0 .. 8
         /\ \A s \in S : Cardinality(S \ {s}) < Cardinality(S)
         /\ Cardinality({}) = 0
<1>1. S \in SUBSET Nat /\ \A s \in S : s <= 7
  BY SectorNumbers
<1>2. IsFiniteSet(S) /\ Cardinality(S) <= 7 + 1
  BY <1>1, FS_BoundedSetOfNaturals
<1>3. Cardinality(S) \in Nat
  BY <1>2, FS_CardinalityType
<1>4. \A s \in S : Cardinality(S \ {s}) = Cardinality(S) - 1
  BY <1>2, FS_RemoveElement
<1>5. QED
  BY <1>2, <1>3, <1>4, FS_EmptySet

(* A nonempty set of sectors has a smallest one. *)
LEMMA SmallestSector ==
  ASSUME NEW S \in SUBSET Sectors, S # {}
  PROVE  \E s \in S : \A t \in S : s <= t
<1>1. \A s \in S : s \in 0 .. 7
  BY SectorNumbers
<1>2. CASE 0 \in S
  BY <1>1, <1>2
<1>3. CASE 0 \notin S /\ 1 \in S
  BY <1>1, <1>3
<1>4. CASE 0 \notin S /\ 1 \notin S /\ 2 \in S
  BY <1>1, <1>4
<1>5. CASE 0 \notin S /\ 1 \notin S /\ 2 \notin S /\ 3 \in S
  BY <1>1, <1>5
<1>6. CASE 0 \notin S /\ 1 \notin S /\ 2 \notin S /\ 3 \notin S /\ 4 \in S
  BY <1>1, <1>6
<1>7. CASE \A s \in S : s \in 5 .. 7
  <2>1. CASE 5 \in S
    BY <1>7, <2>1
  <2>2. CASE 5 \notin S /\ 6 \in S
    BY <1>7, <2>2
  <2>3. CASE 5 \notin S /\ 6 \notin S
    <3>1. S = {7}
      BY <1>7, <2>3
    <3>2. QED
      BY <3>1
  <2>4. QED
    BY <2>1, <2>2, <2>3
<1>8. QED
  BY <1>1, <1>2, <1>3, <1>4, <1>5, <1>6, <1>7

(* An erase leaves a flash that holds bytes. *)
LEMMA EraseCellsType ==
  ASSUME NEW m \in [Address -> Byte], NEW cells
  PROVE  /\ EraseCells(m, cells) \in [Address -> Byte]
         /\ \A a \in Address : EraseCells(m, cells)[a] = IF a \in cells THEN Erased ELSE m[a]
BY DEF EraseCells, Byte, Erased

(* The data a program task has left: none at the end, all at the beginning,
   and a byte less with each step. *)
LEMMA RestOfData ==
  ASSUME NEW s \in Seq(Byte), NEW i \in 0 .. Len(s)
  PROVE  /\ SubSeq(s, 1, Len(s)) = s
         /\ i = Len(s) => SubSeq(s, i + 1, Len(s)) = <<>>
         /\ i < Len(s) => /\ SubSeq(s, i + 1, Len(s)) # <<>>
                          /\ Head(SubSeq(s, i + 1, Len(s))) = s[i + 1]
                          /\ Tail(SubSeq(s, i + 1, Len(s))) = SubSeq(s, i + 2, Len(s))
<1>1. Len(s) \in Nat
  OBVIOUS
<1>2. SubSeq(s, 1, Len(s)) = s
  BY SubSeqFull
<1>3. i = Len(s) => SubSeq(s, i + 1, Len(s)) = <<>>
  BY <1>1, SubSeqEmpty
<1>4. ASSUME i < Len(s)
      PROVE  /\ SubSeq(s, i + 1, Len(s)) # <<>>
             /\ Head(SubSeq(s, i + 1, Len(s))) = s[i + 1]
             /\ Tail(SubSeq(s, i + 1, Len(s))) = SubSeq(s, i + 2, Len(s))
  <2>1. i + 1 \in 1 .. Len(s) /\ Len(s) \in i + 1 .. Len(s) /\ (i + 1) + 1 = i + 2
    BY <1>1, <1>4
  <2>2. /\ Head(SubSeq(s, i + 1, Len(s))) = s[i + 1]
        /\ Tail(SubSeq(s, i + 1, Len(s))) = SubSeq(s, i + 2, Len(s))
    BY <2>1, HeadTailOfSubSeq
  <2>3. Len(SubSeq(s, i + 1, Len(s))) = Len(s) - i
    BY <1>1, <1>4, SubSeqProperties
  <2>4. SubSeq(s, i + 1, Len(s)) # <<>>
    <3>1. Len(SubSeq(s, i + 1, Len(s))) # 0 /\ Len(<<>>) = 0
      BY <1>1, <1>4, <2>3
    <3>2. QED
      BY <3>1, Zenon
  <2>5. QED
    BY <2>2, <2>4
<1>5. QED
  BY <1>2, <1>3, <1>4

(* An image that fits into the application area lies in the sectors that
   GetSectorsForFlash takes for it: no byte of it is written to a sector
   that has not been erased. *)
THEOREM ImageIsCovered ==
  ASSUME NEW binSize \in Nat, NEW s \in Sectors, s >= SECTOR2,
         NEW a \in CellsOf(s), a < SECTOR2_ADDRESS + binSize
  PROVE  s \in GetSectorsForFlash(binSize)
<1>1. SUFFICES ASSUME NEW r \in SECTOR2 .. s - 1
               PROVE  binSize >= totalSizeRequired(r)
  BY LayoutAssumption DEF GetSectorsForFlash, Sectors, SECTOR2
<1>2. /\ r + 1 \in 0 .. FLASH_NUMBER_OF_SECTORS /\ s \in 0 .. FLASH_NUMBER_OF_SECTORS
      /\ r + 1 <= s /\ SECTOR2 \in 0 .. FLASH_NUMBER_OF_SECTORS
  BY LayoutAssumption DEF Sectors, SECTOR2
<1>3. SECTOR_ADDRESS[r + 1] \in Nat /\ SECTOR_ADDRESS[s] \in Nat /\ SECTOR2_ADDRESS \in Nat
  BY <1>2, LayoutAssumption DEF SECTOR2_ADDRESS
<1>4. SECTOR_ADDRESS[r + 1] <= SECTOR_ADDRESS[s]
  <2>1. CASE r + 1 = s
    BY <2>1, <1>3
  <2>2. CASE r + 1 < s
    BY <2>2, <1>2, <1>3, LayoutAssumption
  <2>3. QED
    BY <2>1, <2>2, <1>2
<1>5. a \in Nat /\ a >= SECTOR_ADDRESS[s]
  BY <1>3, ApplicationCells DEF CellsOf
<1>6. QED
  BY <1>3, <1>4, <1>5 DEF totalSizeRequired

(* No sector is erased without need: GetSectorsForFlash takes the application
   sectors that begin inside the image, and the one that begins where an
   image that fills its sectors ends. *)
THEOREM NoSectorInVain ==
  ASSUME NEW binSize \in Nat
  PROVE  GetSectorsForFlash(binSize) =
           {s \in Sectors : s >= SECTOR2 /\ SECTOR_ADDRESS[s] <= SECTOR2_ADDRESS + binSize}
<1> DEFINE N == FLASH_NUMBER_OF_SECTORS
<1>1. /\ N \in 3 .. 8 /\ SECTOR2 = 2 /\ SECTOR2_ADDRESS \in Nat
      /\ \A s \in 0 .. N : SECTOR_ADDRESS[s] \in Nat
  BY LayoutAssumption, ApplicationArea DEF SECTOR2
<1>2. ASSUME NEW s \in GetSectorsForFlash(binSize)
      PROVE  s \in Sectors /\ s >= SECTOR2 /\ SECTOR_ADDRESS[s] <= SECTOR2_ADDRESS + binSize
  <2>1. /\ s \in SECTOR2 .. N - 1
        /\ \A r \in SECTOR2 .. s - 1 : binSize >= totalSizeRequired(r)
    BY Zenon DEF GetSectorsForFlash
  <2>2. s \in Sectors /\ s >= SECTOR2 /\ SECTOR_ADDRESS[s] \in Nat
    BY <1>1, <2>1 DEF Sectors
  <2>3. CASE s = SECTOR2
    BY <1>1, <2>2, <2>3 DEF SECTOR2_ADDRESS
  <2>4. CASE s # SECTOR2
    <3>1. s - 1 \in SECTOR2 .. s - 1 /\ s - 1 + 1 = s
      BY <1>1, <2>1, <2>4
    <3>2. binSize >= SECTOR_ADDRESS[s] - SECTOR2_ADDRESS
      BY <2>1, <3>1 DEF totalSizeRequired
    <3>3. QED
      BY <1>1, <2>2, <3>2
  <2>5. QED
    BY <2>3, <2>4
<1>3. ASSUME NEW s \in Sectors, s >= SECTOR2, SECTOR_ADDRESS[s] <= SECTOR2_ADDRESS + binSize
      PROVE  s \in GetSectorsForFlash(binSize)
  <2>1. s \in SECTOR2 .. N - 1 /\ SECTOR_ADDRESS[s] \in Nat
    BY <1>1, <1>3 DEF Sectors
  <2>2. ASSUME NEW r \in SECTOR2 .. s - 1 PROVE binSize >= totalSizeRequired(r)
    <3>1. r + 1 \in 0 .. N /\ s \in 0 .. N /\ SECTOR_ADDRESS[r + 1] \in Nat
      BY <1>1, <2>1
    <3>2. SECTOR_ADDRESS[r + 1] <= SECTOR_ADDRESS[s]
      <4>1. CASE r + 1 = s
        BY <2>1, <4>1
      <4>2. CASE r + 1 < s
        BY <2>1, <3>1, <4>2, LayoutAssumption
      <4>3. QED
        BY <1>1, <2>1, <4>1, <4>2
    <3>3. QED
      BY <1>1, <1>3, <2>1, <3>1, <3>2 DEF totalSizeRequired
  <2>3. QED
    BY <2>1, <2>2, Zenon DEF GetSectorsForFlash
<1>4. QED
  BY <1>2, <1>3

(* Every cell of the application area is in one of its sectors. *)
LEMMA AddressHasSector ==
  ASSUME NEW a \in Address, a >= SECTOR2_ADDRESS
  PROVE  \E s \in Sectors : s >= SECTOR2 /\ a \in CellsOf(s)
<1> DEFINE N == FLASH_NUMBER_OF_SECTORS
           beyond == {s \in Sectors : SECTOR_ADDRESS[s + 1] > a}
<1>1. /\ N \in 3 .. 8 /\ FLASH_END \in Nat /\ a \in Nat /\ a < FLASH_END
      /\ \A s \in 0 .. N : SECTOR_ADDRESS[s] \in Nat
  BY LayoutAssumption, ApplicationArea DEF Address
<1>2. N - 1 \in beyond
  <2>1. N - 1 \in Sectors /\ N - 1 + 1 = N
    BY <1>1 DEF Sectors
  <2>2. QED
    BY <1>1, <2>1 DEF FLASH_END
<1>3. PICK s \in beyond : \A t \in beyond : s <= t
  BY <1>2, SmallestSector
<1>4. s \in 0 .. N - 1 /\ s \in Sectors /\ s + 1 \in 0 .. N /\ SECTOR_ADDRESS[s + 1] > a
  BY <1>1, <1>3 DEF Sectors
<1>5. SECTOR_ADDRESS[s] <= a
  <2>1. CASE s = 0
    BY <1>1, <2>1, LayoutAssumption
  <2>2. CASE s # 0
    <3>1. s - 1 \in Sectors /\ s - 1 \notin beyond /\ s - 1 + 1 = s
      BY <1>1, <1>3, <1>4, <2>2 DEF Sectors
    <3>2. ~ (SECTOR_ADDRESS[s] > a)
      BY <3>1
    <3>3. SECTOR_ADDRESS[s] \in Nat
      BY <1>1, <1>4
    <3>4. QED
      BY <1>1, <3>2, <3>3
  <2>3. QED
    BY <2>1, <2>2
<1>6. s >= SECTOR2
  <2>1. SUFFICES ASSUME s < SECTOR2 PROVE FALSE
    BY <1>1, <1>4 DEF SECTOR2
  <2>2. s + 1 <= SECTOR2 /\ SECTOR2 \in 0 .. N
    BY <1>1, <1>4, <2>1 DEF SECTOR2
  <2>3. SECTOR_ADDRESS[s + 1] <= SECTOR_ADDRESS[SECTOR2]
    BY <1>1, <1>4, <2>2, LayoutAssumption DEF SECTOR2
  <2>4. QED
    BY <1>1, <1>4, <2>2, <2>3 DEF SECTOR2_ADDRESS
<1>7. a \in CellsOf(s)
  <2>1. SECTOR_ADDRESS[s] \in Nat /\ SECTOR_ADDRESS[s + 1] \in Nat
    BY <1>1, <1>4
  <2>2. QED
    BY <1>1, <1>4, <1>5, <2>1 DEF CellsOf
<1>8. QED
  BY <1>4, <1>6, <1>7

(* The cells of an image lie in the sectors announced for it. *)
LEMMA ImageCells ==
  ASSUME NEW n \in Nat, NEW a \in Address, a >= SECTOR2_ADDRESS, a < SECTOR2_ADDRESS + n
  PROVE  a \in CellsOfAll(GetSectorsForFlash(n))
<1>1. PICK s \in Sectors : s >= SECTOR2 /\ a \in CellsOf(s)
  BY AddressHasSector
<1>2. s \in GetSectorsForFlash(n)
  BY <1>1, ImageIsCovered
<1>3. QED
  BY <1>1, <1>2 DEF CellsOfAll
=============================================================================
