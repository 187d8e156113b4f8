------------------------- MODULE GameCommandsProofs -------------------------
(***************************************************************************)
(* Proofs about GameState and GameCommands, for maps, lists and limits of  *)
(* any size, any contents of the game and any order of changes, commands   *)
(* and saves.                                                              *)
(***************************************************************************)
EXTENDS GameCommands, FiniteSetTheorems, SequenceTheorems, WellFoundedInduction, TLAPS

IsSeq(q) == q \in Seq(ToSet(q))

(* Before the first save, and after a save in which there was a map. *)
Fresh == frame = 0 /\ phase # "saved"
Mapped == frame > 1 \/ (frame = 1 /\ phase = "saved")

FrameInv ==
  /\ part \in Parts /\ players \in HouseLists[part]
  /\ interval \in Nat \ {0}
  /\ frame \in Nat /\ phase \in {"game", "hook", "saved"}

-----------------------------------------------------------------------------
(* The map *)

Indices == 0..Width * Height - 1
Cells == [index : Nat, v : CellValues \cup {0}]
Idx(k) == CellIndex(ValidCells[k])

MapTypes ==
  /\ cells \in [Valid -> CellValues]
  /\ replayed \in [Indices -> Cells] /\ difference \subseteq Cells
  /\ Mapped => map_data \in [Indices -> Cells] /\ previous \in [1..NumCells -> Cells]
  /\ ~Mapped => map_data = <<>> /\ previous = <<>> /\ difference = {}

(* A cell that was parsed before is known as it was then, to the comparison, *)
(* to readers of map_data and to readers of the differences.                 *)
CellsKnown ==
  Mapped => \A k \in 1..NumCells :
              previous[k] # BlankCell => /\ previous[k].index = Idx(k)
                                         /\ map_data[Idx(k)] = previous[k]
                                         /\ replayed[Idx(k)] = previous[k]

(* A difference that is stored again in later frames is still right. *)
DifferencesRepeat ==
  \A m \in difference : \E k \in 1..NumCells : m = previous[k] /\ m.index = Idx(k)

(* After a save that parses cells every cell is known, and up to date. *)
CellsParsed ==
  /\ phase = "saved" /\ frame > 0 /\ frame % interval = 0
       => \A k \in 1..NumCells : previous[k] = parse_Cell(k)
  /\ frame > interval \/ (frame = interval /\ phase = "saved")
       => \A k \in 1..NumCells : previous[k] # BlankCell

ReadInv == last.cmd = "ReadValue" => last.read = convert_map_data(map_data)

MapInv == MapTypes /\ CellsKnown /\ DifferencesRepeat /\ CellsParsed /\ ReadInv

-----------------------------------------------------------------------------
(* Objects, factories, houses and types *)

ObjectInv ==
  /\ IsSeq(technos) /\ IsSeq(objects)
  /\ \A i \in DOMAIN objects : objects[i].self \in known
  /\ IF Fresh THEN facts = <<>> ELSE houses = players
  /\ ObjectsMirrored

TypeClassInv ==
  /\ IF Fresh THEN types.initial = {} /\ types.copied = FALSE
     ELSE types.initial = TypeClasses /\ types.copied = TRUE
  /\ TypesKept

-----------------------------------------------------------------------------
(* Events *)

HouseIds == Nat \cup UNION {{current_player(H) : H \in HouseLists[p]} : p \in Parts}
Payloads == EventData \cup Addresses \cup {0}
EventTypes == {"none", "produce", "sellcell", "place"} \cup {e.type : e \in Foreign}
Events == [type : EventTypes, house : HouseIds, frame : Int, data : Payloads, timing : Int]
Rings == [head : 0..RingSize - 1, count : 0..RingSize, slot : [0..RingSize - 1 -> Events]]

RingInv == lists \in [Lists -> Rings] /\ added \in Nat

(* The buffer ends with the last frame that was saved. *)
BufferInv ==
  /\ IsSeq(buffer.lists) /\ IsSeq(buffer.frame)
  /\ IF Fresh THEN buffer.frame = <<>>
     ELSE /\ Len(buffer.frame) > 0
          /\ buffer.frame[Len(buffer.frame)] = IF phase = "saved" THEN frame ELSE frame - 1
          /\ Len(buffer.frame) = BufferSize \/ buffer.frame[1] = 0
  /\ BufferAligned

-----------------------------------------------------------------------------
(* Commands *)

(* An event is remembered only until the frame is saved. *)
LastInv ==
  /\ last.event.type # "none" => phase = "hook"
  /\ ActsOnSaved /\ EventsScheduled /\ FilterRight

(* The inductive invariant. *)
CInv ==
  /\ FrameInv /\ MapInv /\ ObjectInv /\ TypeClassInv
  /\ RingInv /\ EventsMirrored /\ BufferInv /\ LastInv

-----------------------------------------------------------------------------
(* Numbers *)

(* A nonempty set of natural numbers has a least element. *)
LEMMA LeastExists ==
  ASSUME NEW S, S \subseteq Nat, S # {}
  PROVE  \E t \in S : \A u \in S : t <= u
<1>1. PICK t \in S : \A u \in S : <<u, t>> \notin OpToRel(<, Nat)
  BY NatLessThanWellFounded, WFMin, Zenon
<1>2. \A u \in S : ~(u < t)
  BY <1>1 DEF OpToRel
<1>3. \A u \in S : t <= u
  BY <1>2
<1> QED
  BY <1>3

(* Integer division and its remainder. *)
LEMMA Division ==
  ASSUME NEW n \in Nat, NEW c \in Nat, c > 0
  PROVE  /\ n \div c \in Nat /\ n % c \in 0..c - 1
         /\ n = c * (n \div c) + (n % c)
<1>1. n \div c \in Nat /\ n % c \in 0..c - 1
  OBVIOUS
<1>2. n = c * (n \div c) + (n % c)
  OBVIOUS
<1> QED
  BY <1>1, <1>2

(* A number is rounded down to a multiple by less than the divisor. *)
LEMMA RoundsDown ==
  ASSUME NEW n \in Nat, NEW c \in Nat, c > 0
  PROVE  /\ (n \div c) * c \in Nat /\ (n \div c) * c <= n /\ n < (n \div c) * c + c
         /\ ((n \div c) * c) % c = 0
<1>1. PICK q \in Nat, r \in 0..c - 1 : n \div c = q /\ n = c * q + r
  BY Division
<1>2. q * c = c * q /\ q * c \in Nat
  OBVIOUS
<1>3. (q * c) % c = 0
  OBVIOUS
<1> QED
  BY <1>1, <1>2, <1>3

(* Adding the divisor less one first rounds up. *)
LEMMA RoundsUp ==
  ASSUME NEW n \in Nat, NEW c \in Nat, c > 0
  PROVE  /\ ((n + c - 1) \div c) * c \in Nat
         /\ ((n + c - 1) \div c) * c - n \in 0..c - 1
         /\ (((n + c - 1) \div c) * c) % c = 0
<1>1. PICK m \in Nat : m = n + c - 1
  OBVIOUS
<1>2. /\ (m \div c) * c \in Nat /\ (m \div c) * c <= m /\ m < (m \div c) * c + c
      /\ ((m \div c) * c) % c = 0
  BY RoundsDown
<1>3. PICK f \in Nat : f = (m \div c) * c
  BY <1>2
<1>4. f - n \in 0..c - 1
  BY <1>1, <1>2, <1>3
<1> QED
  BY <1>1, <1>2, <1>3, <1>4

-----------------------------------------------------------------------------
(* Sequences *)

(* What a sequence is, without naming its elements. *)
LEMMA SeqIs ==
  ASSUME NEW q, IsSeq(q)
  PROVE  Len(q) \in Nat /\ DOMAIN q = 1..Len(q)
BY DEF IsSeq

(* A sequence over any set is one over its own elements. *)
LEMMA SeqOfSome ==
  ASSUME NEW S, NEW q \in Seq(S)
  PROVE  IsSeq(q)
<1>1. Len(q) \in Nat /\ q \in [1..Len(q) -> S] /\ DOMAIN q = 1..Len(q)
  OBVIOUS
<1>2. q \in [1..Len(q) -> ToSet(q)]
  BY <1>1 DEF ToSet
<1> QED
  BY <1>1, <1>2 DEF IsSeq

(* A function on 1..n is a sequence of length n. *)
LEMMA ListIs ==
  ASSUME NEW n \in Nat, NEW S, NEW q \in [1..n -> S]
  PROVE  q \in Seq(S) /\ IsSeq(q) /\ Len(q) = n
<1>1. q \in Seq(S) /\ Len(q) = n
  OBVIOUS
<1>2. IsSeq(q)
  BY <1>1, SeqOfSome
<1> QED
  BY <1>1, <1>2

(* An element is appended at the end, and the others stay. *)
LEMMA Appending ==
  ASSUME NEW q, IsSeq(q), NEW e
  PROVE  /\ IsSeq(Append(q, e)) /\ Len(Append(q, e)) = Len(q) + 1
         /\ Append(q, e)[Len(q) + 1] = e
         /\ \A i \in 1..Len(q) : Append(q, e)[i] = q[i]
<1>1. PICK S : S = ToSet(q) \cup {e}
  OBVIOUS
<1>2. q \in Seq(ToSet(q))
  BY DEF IsSeq
<1>3. q \in Seq(S) /\ e \in S
  <2>1. ToSet(q) \subseteq S
    BY <1>1
  <2>2. Len(q) \in Nat /\ q \in [1..Len(q) -> ToSet(q)]
    BY <1>2
  <2>3. q \in [1..Len(q) -> S]
    BY <2>1, <2>2
  <2> QED
    BY <1>1, <2>2, <2>3
<1>4. Append(q, e) \in Seq(S)
  BY <1>3
<1>5. Len(Append(q, e)) = Len(q) + 1
  BY <1>3
<1>6. Append(q, e)[Len(q) + 1] = e
  BY <1>3
<1>7. \A i \in 1..Len(q) : Append(q, e)[i] = q[i]
  BY <1>3
<1>8. IsSeq(Append(q, e))
  BY <1>4, SeqOfSome
<1> QED
  BY <1>5, <1>6, <1>7, <1>8

(* Tail drops the first element, and the others move up. *)
LEMMA TailIs ==
  ASSUME NEW q, IsSeq(q), Len(q) > 0
  PROVE  /\ IsSeq(Tail(q)) /\ Len(Tail(q)) = Len(q) - 1
         /\ \A i \in 1..Len(q) - 1 : Tail(q)[i] = q[i + 1]
<1>1. q \in Seq(ToSet(q)) /\ Len(q) \in Nat /\ q # <<>>
  BY DEF IsSeq
<1>2. Tail(q) \in Seq(ToSet(q)) /\ Len(Tail(q)) = Len(q) - 1
  BY <1>1
<1>3. \A i \in 1..Len(q) - 1 : Tail(q)[i] = q[i + 1]
  BY <1>1
<1>4. IsSeq(Tail(q))
  BY <1>2, SeqOfSome
<1> QED
  BY <1>2, <1>3, <1>4

(* What is left after an element is removed is a sequence. *)
LEMMA RemoveAtIs ==
  ASSUME NEW q, IsSeq(q), NEW i \in DOMAIN q
  PROVE  IsSeq(RemoveAt(q, i))
<1>1. PICK S : S = ToSet(q)
  OBVIOUS
<1>2. q \in Seq(S) /\ Len(q) \in Nat /\ i \in 1..Len(q)
  BY <1>1 DEF IsSeq
<1>3. SubSeq(q, 1, i - 1) \in Seq(S)
  BY <1>2, SubSeqProperties
<1>4. SubSeq(q, i + 1, Len(q)) \in Seq(S)
  BY <1>2, SubSeqProperties
<1>5. RemoveAt(q, i) \in Seq(S)
  BY <1>3, <1>4 DEF RemoveAt
<1> QED
  BY <1>5, SeqOfSome

-----------------------------------------------------------------------------
(* Coordinates *)

LEMMA SizesPositive ==
  /\ Width \in Nat /\ Width > 0 /\ Height \in Nat /\ Height > 0
  /\ Chunk \in Nat /\ Chunk > 0 /\ Increment \in Nat /\ Increment > 0
  /\ BufferSize \in Nat /\ BufferSize > 0
BY StateAssumption

(* The index of a cell tells it from the others. *)
LEMMA IndexApart ==
  ASSUME NEW c \in Valid, NEW d \in Valid, CellIndex(c) = CellIndex(d)
  PROVE  c = d
<1>1. PICK x1 \in 0..Width - 1, y1 \in 0..Height - 1 : c = <<x1, y1>>
  BY StateAssumption
<1>2. PICK x2 \in 0..Width - 1, y2 \in 0..Height - 1 : d = <<x2, y2>>
  BY StateAssumption
<1>3. Width * y1 + x1 = Width * y2 + x2
  BY <1>1, <1>2 DEF CellIndex
<1>4. \A w, a, b \in Nat : \A p, q \in 0..w - 1 : a < b => w * a + p < w * b + q
  OBVIOUS
<1>5. y1 = y2
  <2>1. y1 \in Nat /\ y2 \in Nat /\ Width \in Nat
    BY SizesPositive
  <2>2. ~(y1 < y2) /\ ~(y2 < y1)
    <3>1. Width * y1 + x1 \in Int /\ Width * y2 + x2 \in Int
      BY <2>1
    <3> QED
      BY <1>3, <1>4, <2>1, <3>1
  <2> QED
    BY <2>1, <2>2
<1>6. x1 = x2
  <2>1. PICK z \in Int : z = Width * y1
    BY SizesPositive
  <2> QED
    BY <1>3, <1>5, <2>1
<1> QED
  BY <1>1, <1>2, <1>5, <1>6

(* The index of a cell is one of the map, and 0 only for the first cell. *)
LEMMA IndexRange ==
  ASSUME NEW c \in Valid
  PROVE  CellIndex(c) \in Indices /\ CellIndex(c) \in Nat /\ (CellIndex(c) = 0 => c = <<0, 0>>)
<1>1. PICK x \in 0..Width - 1, y \in 0..Height - 1 : c = <<x, y>>
  BY StateAssumption
<1>2. \A w, h \in Nat : \A p \in 0..w - 1, q \in 0..h - 1 : w * q + p \in 0..w * h - 1
  OBVIOUS
<1>3. CellIndex(c) = Width * y + x
  BY <1>1 DEF CellIndex
<1>4. CellIndex(c) \in Indices
  BY <1>2, <1>3, SizesPositive DEF Indices
<1>5. Width * y \in Nat /\ (Width * y = 0 => y = 0)
  BY SizesPositive
<1>6. CellIndex(c) = 0 => x = 0 /\ y = 0
  BY <1>3, <1>5
<1>7. CellIndex(c) \in Nat
  BY <1>3, <1>5
<1> QED
  BY <1>1, <1>4, <1>6, <1>7

(* A map has finitely many cells. *)
LEMMA CellsFinite == IsFiniteSet(Valid)
<1>1. IsFiniteSet(0..Width - 1) /\ IsFiniteSet(0..Height - 1)
  BY SizesPositive, FS_Interval
<1>2. IsFiniteSet((0..Width - 1) \X (0..Height - 1))
  BY <1>1, FS_Product
<1> QED
  BY <1>2, StateAssumption, FS_Subset

Ascending(s, n) == \A i, j \in 1..n : i < j => CellIndex(s[i]) < CellIndex(s[j])
CanSort(n) ==
  \A V \in SUBSET Valid : Cardinality(V) = n => \E s \in [1..n -> V] : Ascending(s, n)

(* The last cell of a set of cells. *)
LEMMA LastCell ==
  ASSUME NEW V \in SUBSET Valid, V # {}
  PROVE  \E c \in V : \A d \in V : CellIndex(d) <= CellIndex(c)
<1> DEFINE T == {Width * Height - CellIndex(c) : c \in V}
<1>1. Width * Height \in Nat
  BY SizesPositive
<1>2. \A c \in V : CellIndex(c) \in Nat /\ CellIndex(c) <= Width * Height
  <2>1. \A c \in V : CellIndex(c) \in 0..Width * Height - 1
    BY IndexRange DEF Indices
  <2> QED
    BY <1>1, <2>1
<1>3. T \subseteq Nat /\ T # {}
  BY <1>1, <1>2
<1>4. PICK t \in T : \A u \in T : t <= u
  <2> HIDE DEF T
  <2> QED
    BY <1>3, LeastExists
<1>5. PICK c \in V : t = Width * Height - CellIndex(c)
  BY <1>4
<1>6. ASSUME NEW d \in V
      PROVE  CellIndex(d) <= CellIndex(c)
  <2>1. Width * Height - CellIndex(c) <= Width * Height - CellIndex(d)
    BY <1>4, <1>5
  <2>2. PICK n \in Nat : n = Width * Height
    BY <1>1
  <2> QED
    BY <1>2, <2>1, <2>2
<1> QED
  BY <1>6

(* A set of cells can be put in the order of their indices: its last cell    *)
(* comes after the others.                                                   *)
LEMMA CellsSorted == \A n \in Nat : CanSort(n)
<1> DEFINE Bad == {n \in Nat : ~CanSort(n)}
<1> SUFFICES ASSUME Bad # {} PROVE FALSE
  OBVIOUS
<1>1. PICK m \in Bad : \A u \in Bad : m <= u
  <2>1. Bad \subseteq Nat
    OBVIOUS
  <2> HIDE DEF Bad
  <2> QED
    BY <2>1, LeastExists
<1>2. m \in Nat /\ ~CanSort(m) /\ (m > 0 => CanSort(m - 1))
  BY <1>1
<1>3. PICK V \in SUBSET Valid : /\ Cardinality(V) = m
                                /\ ~(\E s \in [1..m -> V] : Ascending(s, m))
  BY <1>2 DEF CanSort
<1>4. IsFiniteSet(V)
  BY CellsFinite, FS_Subset
<1>5. m > 0
  <2> SUFFICES ASSUME m = 0 PROVE FALSE
    BY <1>2
  <2>1. [i \in 1..0 |-> <<0, 0>>] \in [1..0 -> V]
    OBVIOUS
  <2>2. \A s : Ascending(s, 0)
    BY DEF Ascending
  <2> QED
    BY <1>3, <2>1, <2>2
<1>6. V # {}
  BY <1>3, <1>5, FS_EmptySet
<1>7. PICK c \in V : \A d \in V : CellIndex(d) <= CellIndex(c)
  BY <1>6, LastCell
<1>8. Cardinality(V \ {c}) = m - 1 /\ V \ {c} \in SUBSET Valid
  BY <1>3, <1>4, FS_RemoveElement
<1>9. PICK s \in [1..m - 1 -> V \ {c}] : Ascending(s, m - 1)
  BY <1>2, <1>5, <1>8 DEF CanSort
<1> DEFINE r == [i \in 1..m |-> IF i = m THEN c ELSE s[i]]
<1>10. r \in [1..m -> V]
  <2>1. ASSUME NEW i \in 1..m, i # m
        PROVE  s[i] \in V
    <3>1. i \in 1..m - 1
      BY <1>2, <2>1
    <3> QED
      BY <1>9, <3>1
  <2> QED
    BY <2>1
<1>11. ASSUME NEW i \in 1..m, NEW j \in 1..m, i < j
       PROVE  CellIndex(r[i]) < CellIndex(r[j])
  <2>1. i \in 1..m - 1 /\ r[i] = s[i] /\ s[i] \in V /\ s[i] # c
    <3>1. i \in 1..m - 1 /\ i # m
      BY <1>2, <1>11
    <3> QED
      BY <1>9, <3>1
  <2>2. CASE j = m
    <3>1. CellIndex(s[i]) <= CellIndex(c) /\ CellIndex(s[i]) # CellIndex(c)
      BY <1>7, <2>1, IndexApart
    <3>2. CellIndex(s[i]) \in Nat /\ CellIndex(c) \in Nat
      BY <2>1, IndexRange
    <3>3. CellIndex(s[i]) < CellIndex(c)
      BY <3>1, <3>2
    <3> QED
      BY <2>1, <2>2, <3>3
  <2>3. CASE j # m
    <3>1. j \in 1..m - 1 /\ r[j] = s[j]
      BY <1>2, <2>3
    <3>2. CellIndex(s[i]) < CellIndex(s[j])
      BY <1>9, <1>11, <2>1, <3>1 DEF Ascending
    <3> QED
      BY <2>1, <3>1, <3>2
  <2> QED
    BY <2>2, <2>3
<1>12. Ascending(r, m)
  <2> HIDE DEF r
  <2> QED
    BY <1>11 DEF Ascending
<1> QED
  BY <1>3, <1>10, <1>12

(* get_valid_cells lists every valid cell once. *)
LEMMA CellsListed ==
  /\ NumCells \in Nat /\ ValidCells \in [1..NumCells -> Valid]
  /\ \A c \in Valid : \E k \in 1..NumCells : ValidCells[k] = c
  /\ \A k, l \in 1..NumCells : Idx(k) = Idx(l) => k = l
  /\ \A k \in 1..NumCells : Idx(k) \in Indices /\ Idx(k) \in Nat
<1>1. PICK n : n = Cardinality(Valid)
  OBVIOUS
<1>2. n \in Nat
  BY <1>1, CellsFinite, FS_CardinalityType
<1>3. \E s \in [1..n -> Valid] : Ascending(s, n)
  BY <1>1, <1>2, CellsSorted DEF CanSort
<1>4. \E s \in [1..n -> Valid] : \A i, j \in DOMAIN s : i < j => CellIndex(s[i]) < CellIndex(s[j])
  BY <1>3 DEF Ascending
<1>5. /\ ValidCells \in [1..n -> Valid]
      /\ \A i, j \in DOMAIN ValidCells : i < j => CellIndex(ValidCells[i]) < CellIndex(ValidCells[j])
  BY <1>1, <1>4 DEF ValidCells
<1>6. NumCells = n
  BY <1>2, <1>5, ListIs DEF NumCells
<1>7. \A i, j \in 1..n : i < j => Idx(i) < Idx(j)
  BY <1>5 DEF Idx
<1>8. \A k \in 1..n : Idx(k) \in Indices /\ Idx(k) \in Nat
  BY <1>5, IndexRange DEF Idx
<1>9. \A k, l \in 1..n : Idx(k) = Idx(l) => k = l
  <2> SUFFICES ASSUME NEW k \in 1..n, NEW l \in 1..n, k # l
               PROVE  Idx(k) # Idx(l)
    OBVIOUS
  <2>1. k < l \/ l < k
    BY <1>2
  <2>2. Idx(k) < Idx(l) \/ Idx(l) < Idx(k)
    BY <1>7, <2>1
  <2> QED
    BY <1>8, <2>2
<1>10. ValidCells \in Injection(1..n, Valid)
  <2>1. \A k, l \in 1..n : ValidCells[k] = ValidCells[l] => k = l
    BY <1>9 DEF Idx
  <2> QED
    BY <1>5, <2>1 DEF Injection, IsInjective
<1>11. IsFiniteSet(1..n) /\ Cardinality(1..n) = n
  BY <1>2, FS_Interval
<1>12. ValidCells \in Surjection(1..n, Valid)
  BY <1>1, <1>10, <1>11, CellsFinite, FS_Injection
<1>13. \A c \in Valid : \E k \in 1..n : ValidCells[k] = c
  BY <1>12 DEF Surjection
<1> QED
  BY <1>2, <1>5, <1>6, <1>8, <1>9, <1>13

-----------------------------------------------------------------------------
(* Parsing the map *)

(* The chunks and the remainder are all cells. *)
LEMMA ParsedAll == ParsedCells = 1..NumCells
<1>1. PICK n \in Nat : n = NumCells
  BY CellsListed
<1>2. PICK w : w = (n \div Chunk) * Chunk
  OBVIOUS
<1>3. w \in Nat /\ w <= n /\ n < w + Chunk
  BY <1>2, RoundsDown, SizesPositive
<1>4. ParsedCells = 1..w \cup w + 1..w + (IF n - w < Chunk THEN n - w ELSE Chunk)
  BY <1>1, <1>2 DEF ParsedCells
<1>5. n - w < Chunk /\ w + (n - w) = n
  BY <1>3, SizesPositive
<1>6. ParsedCells = 1..w \cup w + 1..n
  BY <1>4, <1>5
<1>7. 1..w \cup w + 1..n = 1..n
  BY <1>3
<1> QED
  BY <1>1, <1>6, <1>7

(* Comparing chunks first loses no cell that has changed. *)
LEMMA ParsedMap ==
  ASSUME NEW prev
  PROVE  parse_map(prev) = {k \in 1..NumCells : parse_Cell(k) # prev[k]}
<1>1. ASSUME NEW k \in 1..NumCells, ChunkSame(k, prev)
      PROVE  parse_Cell(k) = prev[k]
  BY <1>1, ParsedAll DEF ChunkSame
<1> QED
  BY <1>1, ParsedAll DEF parse_map

(* A parsed cell has its index and does not look like a blank one. *)
LEMMA ParsedCell ==
  ASSUME cells \in [Valid -> CellValues], NEW k \in 1..NumCells
  PROVE  /\ parse_Cell(k) \in Cells /\ parse_Cell(k).index = Idx(k)
         /\ parse_Cell(k).v = cells[ValidCells[k]] /\ parse_Cell(k) # BlankCell
<1>1. PICK c \in Valid : c = ValidCells[k]
  BY CellsListed
<1>2. cells[c] \in CellValues /\ CellIndex(c) \in Nat /\ (CellIndex(c) = 0 => c = <<0, 0>>)
  BY IndexRange
<1>3. PICK p : p = [index |-> CellIndex(c), v |-> cells[c]]
  OBVIOUS
<1>4. p = parse_Cell(k) /\ Idx(k) = CellIndex(c)
  BY <1>1, <1>3 DEF parse_Cell, Idx
<1>5. p \in Cells /\ p.index = CellIndex(c) /\ p.v = cells[c]
  BY <1>2, <1>3 DEF Cells
<1>6. p # BlankCell
  <2>1. CellIndex(c) = 0 => cells[c] # 0
    BY <1>2, StateAssumption
  <2>2. BlankCell.index = 0 /\ BlankCell.v = 0
    BY DEF BlankCell
  <2> QED
    BY <1>5, <2>1, <2>2
<1> QED
  BY <1>1, <1>4, <1>5, <1>6

(* Applying differences that do not contradict each other. *)
LEMMA Updates ==
  ASSUME NEW M \in [Indices -> Cells], NEW D \in SUBSET Cells,
         \A m, l \in D : m.index = l.index => m = l
  PROVE  /\ update_MapData(M, D) = Replayed(M, D)
         /\ Replayed(M, D) \in [Indices -> Cells]
         /\ \A m \in D : m.index \in Indices => Replayed(M, D)[m.index] = m
         /\ \A i \in Indices : (\A m \in D : m.index # i) => Replayed(M, D)[i] = M[i]
<1>1. update_MapData(M, D) = Replayed(M, D)
  BY DEF update_MapData, Replayed
<1>2. ASSUME NEW i \in Indices, NEW m \in D, m.index = i
      PROVE  (CHOOSE l \in D : l.index = i) = m
  <2>1. PICK l : l = CHOOSE x \in D : x.index = i
    OBVIOUS
  <2>2. l \in D /\ l.index = i
    BY <1>2, <2>1
  <2> QED
    BY <1>2, <2>1, <2>2
<1>3. Replayed(M, D) = [i \in Indices |-> IF \E m \in D : m.index = i
                                          THEN CHOOSE m \in D : m.index = i ELSE M[i]]
  BY DEF Replayed
<1>4. \A i \in Indices : (\E m \in D : m.index = i) => (CHOOSE m \in D : m.index = i) \in D
  OBVIOUS
<1>5. Replayed(M, D) \in [Indices -> Cells]
  BY <1>3, <1>4
<1>6. \A m \in D : m.index \in Indices => Replayed(M, D)[m.index] = m
  BY <1>2, <1>3
<1>7. \A i \in Indices : (\A m \in D : m.index # i) => Replayed(M, D)[i] = M[i]
  BY <1>3
<1> QED
  BY <1>1, <1>5, <1>6, <1>7

(* parse_MapData gives every cell of the rectangle a message. *)
LEMMA MapDataType ==
  ASSUME cells \in [Valid -> CellValues]
  PROVE  parse_MapData \in [Indices -> Cells]
<1>1. ASSUME NEW i \in Indices, \E c \in Valid : CellIndex(c) = i
      PROVE  [index |-> 0, v |-> cells[CHOOSE c \in Valid : CellIndex(c) = i]] \in Cells
  <2>1. PICK d : d = CHOOSE c \in Valid : CellIndex(c) = i
    OBVIOUS
  <2>2. d \in Valid
    BY <1>1, <2>1
  <2>3. [index |-> 0, v |-> cells[d]] \in Cells
    BY <2>2 DEF Cells
  <2> QED
    BY <2>1, <2>3
<1>2. BlankCell \in Cells
  BY DEF BlankCell, Cells
<1> QED
  BY <1>1, <1>2 DEF parse_MapData, Indices

(* What a save starts from. *)
MapNow == IF frame > 0 /\ DOMAIN map_data = {} THEN parse_MapData ELSE map_data
PreviousNow ==
  IF previous = <<>> /\ frame > 0 THEN [k \in 1..NumCells |-> BlankCell] ELSE previous

(* In the first frame with a map, or a later one, everything that was parsed *)
(* before is known.                                                          *)
LEMMA MapReady ==
  ASSUME CInv, frame > 0, phase = "hook",
         NEW M, M = MapNow, NEW prev, prev = PreviousNow
  PROVE  /\ M \in [Indices -> Cells] /\ prev \in [1..NumCells -> Cells]
         /\ \A k \in 1..NumCells : prev[k] # BlankCell =>
              prev[k].index = Idx(k) /\ M[Idx(k)] = prev[k] /\ replayed[Idx(k)] = prev[k]
         /\ \A m \in difference : \E k \in 1..NumCells : m = prev[k] /\ m.index = Idx(k)
         /\ frame > interval => \A k \in 1..NumCells : prev[k] # BlankCell
<1> USE DEF MapNow, PreviousNow
<1>t. MapTypes /\ CellsKnown /\ DifferencesRepeat /\ CellsParsed /\ FrameInv
  BY DEF CInv, MapInv
<1>n. NumCells \in Nat /\ 0 \in Indices
  <2>1. \A w, h \in Nat : w > 0 /\ h > 0 => 0 \in 0..w * h - 1
    OBVIOUS
  <2> QED
    BY <2>1, CellsListed, SizesPositive DEF Indices
<1>b. BlankCell \in Cells
  BY DEF BlankCell, Cells
<1>1. CASE Mapped
  <2>1. map_data \in [Indices -> Cells] /\ previous \in [1..NumCells -> Cells]
    BY <1>1, <1>t DEF MapTypes
  <2>2. M = map_data
    BY <1>n, <2>1
  <2>3. CASE previous = <<>>
    <3>1. 1..NumCells = {}
      <4>1. DOMAIN previous = 1..NumCells
        BY <2>1
      <4> QED
        BY <2>3, <4>1
    <3>2. prev = [k \in 1..NumCells |-> BlankCell]
      BY <2>3
    <3>3. prev \in [1..NumCells -> Cells]
      BY <1>b, <3>2
    <3>4. difference = {}
      BY <1>t, <3>1 DEF DifferencesRepeat
    <3> QED
      BY <2>1, <2>2, <3>1, <3>3, <3>4
  <2>4. CASE previous # <<>>
    <3>1. prev = previous
      BY <2>4
    <3> QED
      BY <1>1, <1>t, <2>1, <2>2, <3>1 DEF CellsKnown, DifferencesRepeat, CellsParsed
  <2> QED
    BY <2>3, <2>4
<1>2. CASE ~Mapped
  <2>1. map_data = <<>> /\ previous = <<>> /\ difference = {} /\ cells \in [Valid -> CellValues]
    BY <1>2, <1>t DEF MapTypes
  <2>2. DOMAIN map_data = {}
    BY <2>1
  <2>3. M = parse_MapData /\ prev = [k \in 1..NumCells |-> BlankCell]
    BY <2>1, <2>2
  <2>4. prev \in [1..NumCells -> Cells] /\ \A k \in 1..NumCells : prev[k] = BlankCell
    BY <1>b, <2>3
  <2>5. ~(frame > interval)
    BY <1>2, <1>t DEF Mapped, FrameInv
  <2> QED
    BY <2>1, <2>3, <2>4, <2>5, MapDataType
<1> QED
  BY <1>1, <1>2

(* A save keeps what is known of the map. *)
LEMMA MapSaved ==
  ASSUME CInv, SaveState, last' = NoCommand
  PROVE  MapInv'
<1>t. MapTypes /\ FrameInv
  BY DEF CInv, MapInv
<1>c. cells \in [Valid -> CellValues] /\ replayed \in [Indices -> Cells] /\ difference \subseteq Cells
  BY <1>t DEF MapTypes
<1>u. /\ cells' = cells /\ frame' = frame /\ interval' = interval
      /\ phase = "hook" /\ phase' = "saved" /\ SavesMap
  BY DEF SaveState, gameVars, fixed
<1>f. frame \in Nat /\ interval \in Nat /\ interval > 0
  BY <1>t DEF FrameInv
<1>r. ReadInv'
  BY DEF ReadInv, NoCommand
<1>p. \A k : parse_Cell(k)' = parse_Cell(k)
  BY <1>u DEF parse_Cell
<1>0. CASE frame = 0
  <2>1. ~Mapped /\ ~Mapped'
    BY <1>0, <1>u DEF Mapped
  <2>2. map_data = <<>> /\ previous = <<>> /\ difference = {}
    BY <1>t, <2>1 DEF MapTypes
  <2>3. /\ difference' = {} /\ map_data' = <<>> /\ replayed' = Replayed(replayed, {})
        /\ previous' = [k \in DOMAIN previous |-> previous[k]]
    BY <1>0, <1>u, <2>2 DEF SavesMap, MapNow, PreviousNow
  <2>4. previous' = <<>>
    <3>1. DOMAIN previous = {}
      BY <2>2
    <3> QED
      BY <2>2, <2>3, <3>1
  <2>5. replayed' \in [Indices -> Cells]
    <3>1. {} \in SUBSET Cells
      OBVIOUS
    <3> QED
      BY <1>c, <2>3, <3>1, Updates
  <2>6. MapTypes'
    <3>1. cells' \in [Valid -> CellValues] /\ difference' \subseteq Cells
      BY <1>c, <1>u, <2>3
    <3>2. map_data' = <<>> /\ previous' = <<>> /\ difference' = {}
      BY <2>3, <2>4
    <3> QED
      BY <2>1, <2>5, <3>1, <3>2 DEF MapTypes
  <2>7. CellsKnown' /\ DifferencesRepeat' /\ CellsParsed'
    BY <1>0, <1>f, <1>u, <2>1, <2>3 DEF CellsKnown, DifferencesRepeat, CellsParsed
  <2> QED
    BY <1>r, <2>6, <2>7 DEF MapInv
<1>1. CASE frame > 0
  <2>1. PICK M : M = MapNow
    OBVIOUS
  <2>2. PICK prev : prev = PreviousNow
    OBVIOUS
  <2>3. /\ M \in [Indices -> Cells] /\ prev \in [1..NumCells -> Cells]
        /\ \A k \in 1..NumCells : prev[k] # BlankCell =>
             prev[k].index = Idx(k) /\ M[Idx(k)] = prev[k] /\ replayed[Idx(k)] = prev[k]
        /\ \A m \in difference : \E k \in 1..NumCells : m = prev[k] /\ m.index = Idx(k)
        /\ frame > interval => \A k \in 1..NumCells : prev[k] # BlankCell
    BY <1>1, <1>u, <2>1, <2>2, MapReady
  <2>4. Mapped'
    BY <1>1, <1>f, <1>u DEF Mapped
  <2>5. CASE prev # <<>> /\ frame % interval = 0
    <3> DEFINE changed == {k \in 1..NumCells : parse_Cell(k) # prev[k]}
    <3>1. parse_map(prev) = changed
      BY ParsedMap
    <3>2. /\ difference' = {parse_Cell(k) : k \in changed}
          /\ previous' = [k \in DOMAIN prev |-> IF k \in changed THEN parse_Cell(k) ELSE prev[k]]
          /\ map_data' = update_MapData(M, difference')
          /\ replayed' = Replayed(replayed, difference')
      BY <1>u, <2>1, <2>2, <2>5, <3>1 DEF SavesMap, MapNow, PreviousNow
    <3>3. /\ previous' \in [1..NumCells -> Cells]
          /\ \A k \in 1..NumCells : previous'[k] = parse_Cell(k)
      BY <1>c, <2>3, <3>2, ParsedCell
    <3>4. difference' \in SUBSET Cells
      BY <1>c, <3>2, ParsedCell
    <3>5. \A m \in difference' : \E k \in 1..NumCells : m = previous'[k] /\ m.index = Idx(k)
      BY <1>c, <3>2, <3>3, ParsedCell
    <3>6. \A m, l \in difference' : m.index = l.index => m = l
      <4> SUFFICES ASSUME NEW m \in difference', NEW l \in difference', m.index = l.index
                   PROVE  m = l
        OBVIOUS
      <4>1. PICK i \in 1..NumCells : m = previous'[i] /\ m.index = Idx(i)
        BY <3>5
      <4>2. PICK j \in 1..NumCells : l = previous'[j] /\ l.index = Idx(j)
        BY <3>5
      <4>3. i = j
        BY <4>1, <4>2, CellsListed
      <4> QED
        BY <4>1, <4>2, <4>3
    <3>7. /\ map_data' = Replayed(M, difference')
          /\ map_data' \in [Indices -> Cells] /\ replayed' \in [Indices -> Cells]
      <4>1. PICK D : D = difference'
        OBVIOUS
      <4>2. D \in SUBSET Cells /\ \A m, l \in D : m.index = l.index => m = l
        BY <3>4, <3>6, <4>1
      <4>3. update_MapData(M, D) = Replayed(M, D) /\ Replayed(M, D) \in [Indices -> Cells]
        BY <2>3, <4>2, Updates
      <4>4. Replayed(replayed, D) \in [Indices -> Cells]
        BY <1>c, <4>2, Updates
      <4> QED
        BY <3>2, <4>1, <4>3, <4>4
    <3>8. ASSUME NEW k \in 1..NumCells, NEW R \in [Indices -> Cells],
                 prev[k] # BlankCell => R[Idx(k)] = prev[k]
          PROVE  Replayed(R, difference')[Idx(k)] = parse_Cell(k)
      <4>1. Idx(k) \in Indices /\ parse_Cell(k).index = Idx(k) /\ parse_Cell(k) # BlankCell
        BY <1>c, CellsListed, ParsedCell
      <4>2. CASE k \in changed
        <5>1. parse_Cell(k) \in difference'
          BY <3>2, <4>2
        <5>2. Replayed(R, difference')[parse_Cell(k).index] = parse_Cell(k)
          BY <3>4, <3>6, <3>8, <4>1, <5>1, Updates
        <5> QED
          BY <4>1, <5>2
      <4>3. CASE k \notin changed
        <5>1. prev[k] = parse_Cell(k)
          BY <4>3
        <5>2. ASSUME NEW m \in difference'
              PROVE  m.index # Idx(k)
          <6>1. PICK l \in changed : m = parse_Cell(l)
            BY <3>2
          <6>2. m.index = Idx(l)
            BY <1>c, <6>1, ParsedCell
          <6> QED
            BY <4>3, <6>1, <6>2, CellsListed
        <5>3. Replayed(R, difference')[Idx(k)] = R[Idx(k)]
          BY <3>4, <3>6, <3>8, <4>1, <5>2, Updates
        <5> QED
          BY <3>8, <4>1, <5>1, <5>3
      <4> QED
        BY <4>2, <4>3
    <3>9. \A k \in 1..NumCells : /\ map_data'[Idx(k)] = parse_Cell(k)
                                 /\ replayed'[Idx(k)] = parse_Cell(k)
      BY <1>c, <2>3, <3>2, <3>7, <3>8
    <3> HIDE DEF changed
    <3>10. MapTypes'
      BY <1>c, <1>u, <2>4, <3>3, <3>4, <3>7 DEF MapTypes
    <3>11. \A k \in 1..NumCells : parse_Cell(k).index = Idx(k) /\ parse_Cell(k) # BlankCell
      BY <1>c, ParsedCell
    <3>12. CellsKnown'
      BY <3>3, <3>9, <3>11 DEF CellsKnown
    <3>13. DifferencesRepeat'
      BY <3>5 DEF DifferencesRepeat
    <3>14. CellsParsed'
      BY <1>p, <3>3, <3>11 DEF CellsParsed
    <3> QED
      BY <1>r, <3>10, <3>12, <3>13, <3>14 DEF MapInv
  <2>6. CASE ~(prev # <<>> /\ frame % interval = 0)
    <3>1. /\ difference' = difference /\ map_data' = M
          /\ replayed' = Replayed(replayed, difference)
          /\ previous' = [k \in DOMAIN prev |-> prev[k]]
      BY <1>u, <2>1, <2>2, <2>6 DEF SavesMap, MapNow, PreviousNow
    <3>2. previous' = prev
      BY <2>3, <3>1
    <3>3. difference \in SUBSET Cells
      BY <1>c
    <3>4. \A m, l \in difference : m.index = l.index => m = l
      BY <2>3, CellsListed
    <3>5. replayed' \in [Indices -> Cells]
      BY <1>c, <3>1, <3>3, <3>4, Updates
    <3>6. MapTypes'
      BY <1>c, <1>u, <2>3, <2>4, <3>1, <3>2, <3>3, <3>5 DEF MapTypes
    <3>7. ASSUME NEW k \in 1..NumCells, prev[k] # BlankCell
          PROVE  replayed'[Idx(k)] = prev[k]
      <4>1. Idx(k) \in Indices /\ replayed[Idx(k)] = prev[k]
        BY <2>3, <3>7, CellsListed
      <4>2. CASE \E m \in difference : m.index = Idx(k)
        <5>1. PICK m \in difference : m.index = Idx(k)
          BY <4>2
        <5>2. PICK l \in 1..NumCells : m = prev[l] /\ m.index = Idx(l)
          BY <2>3
        <5>3. l = k
          BY <5>1, <5>2, CellsListed
        <5>4. Replayed(replayed, difference)[m.index] = m
          BY <1>c, <3>3, <3>4, <4>1, <5>1, Updates
        <5> QED
          BY <3>1, <5>1, <5>2, <5>3, <5>4
      <4>3. CASE \A m \in difference : m.index # Idx(k)
        BY <1>c, <3>1, <3>3, <3>4, <4>1, <4>3, Updates
      <4> QED
        BY <4>2, <4>3
    <3>8. CellsKnown'
      BY <2>3, <3>1, <3>2, <3>7 DEF CellsKnown
    <3>9. DifferencesRepeat'
      BY <2>3, <3>1, <3>2 DEF DifferencesRepeat
    <3>10. CellsParsed'
      <4>1. CASE prev = <<>>
        <5>1. 1..NumCells = {}
          <6>1. DOMAIN prev = 1..NumCells
            BY <2>3
          <6> QED
            BY <4>1, <6>1
        <5> QED
          BY <5>1 DEF CellsParsed
      <4>2. CASE prev # <<>>
        <5>1. frame % interval # 0
          BY <2>6, <4>2
        <5>2. frame # interval
          <6>1. interval % interval = 0
            BY <1>f
          <6> QED
            BY <5>1, <6>1
        <5> QED
          BY <1>u, <2>3, <3>2, <5>1, <5>2 DEF CellsParsed
      <4> QED
        BY <4>1, <4>2
    <3> QED
      BY <1>r, <3>6, <3>8, <3>9, <3>10 DEF MapInv
  <2> QED
    BY <2>5, <2>6
<1> QED
  BY <1>0, <1>1, <1>f

-----------------------------------------------------------------------------
(* Parsing the rest *)

(* try_get_message adds enough messages. *)
LEMMA FilledIs ==
  ASSUME NEW f, IsSeq(f), NEW n \in Nat
  PROVE  IsSeq(Filled(f, n)) /\ Len(Filled(f, n)) \in Nat /\ Len(Filled(f, n)) >= n
<1>1. Len(f) \in Nat
  BY SeqIs
<1>2. PICK missing \in Nat : missing = IF n > Len(f) THEN n - Len(f) ELSE 0
  <2>1. CASE n > Len(f)
    <3>1. n - Len(f) \in Nat
      BY <1>1, <2>1
    <3> QED
      BY <2>1, <3>1
  <2>2. CASE ~(n > Len(f))
    BY <2>2
  <2> QED
    BY <2>1, <2>2
<1>3. PICK added_ : added_ = ((missing + Increment - 1) \div Increment) * Increment
  OBVIOUS
<1>4. added_ \in Nat /\ added_ >= missing
  BY <1>3, RoundsUp, SizesPositive
<1>5. PICK g : g = [i \in 1..added_ |-> BlankObject]
  OBVIOUS
<1>6. PICK S : S = ToSet(f) \cup {BlankObject}
  OBVIOUS
<1>7. g \in Seq(S) /\ Len(g) = added_
  <2>1. g \in [1..added_ -> S]
    BY <1>5, <1>6
  <2> QED
    BY <1>4, <2>1, ListIs
<1>8. f \in Seq(S)
  <2>1. f \in [1..Len(f) -> ToSet(f)]
    BY DEF IsSeq
  <2>2. f \in [1..Len(f) -> S]
    BY <1>6, <2>1
  <2> QED
    BY <1>1, <2>2, ListIs
<1>9. f \o g \in Seq(S) /\ Len(f \o g) = Len(f) + added_
  BY <1>7, <1>8
<1>10. Filled(f, n) = f \o g
  BY <1>2, <1>3, <1>5 DEF Filled
<1>11. IsSeq(f \o g)
  BY <1>9, SeqOfSome
<1> QED
  BY <1>1, <1>2, <1>4, <1>9, <1>10, <1>11

(* Each techno is parsed into a message, and there are no others. *)
LEMMA ObjectsParsed ==
  ASSUME IsSeq(technos), IsSeq(objects)
  PROVE  /\ IsSeq(parse_Objects) /\ Len(parse_Objects) = Len(technos)
         /\ \A i \in 1..Len(technos) : \E T : parse_Objects[i] = ParsedObject(technos[i], T)
<1>1. PICK n \in Nat : n = Len(technos)
  BY SeqIs
<1>2. PICK f : f = Filled(objects, n)
  OBVIOUS
<1>3. IsSeq(f) /\ Len(f) \in Nat /\ Len(f) >= n /\ DOMAIN f = 1..Len(f)
  <2>1. IsSeq(f) /\ Len(f) \in Nat /\ Len(f) >= n
    BY <1>2, FilledIs
  <2> QED
    BY <2>1, SeqIs
<1>4. PICK g : g = [i \in DOMAIN f |-> IF i <= n THEN ParsedObject(technos[i], f[i]) ELSE f[i]]
  OBVIOUS
<1>5. PICK S : S = {g[i] : i \in 1..Len(f)}
  OBVIOUS
<1>6. g \in Seq(S) /\ IsSeq(g) /\ Len(g) = Len(f)
  <2>1. g \in [1..Len(f) -> S]
    BY <1>3, <1>4, <1>5
  <2> QED
    BY <1>3, <2>1, ListIs
<1>7. \A i \in 1..n : g[i] = ParsedObject(technos[i], f[i])
  BY <1>3, <1>4
<1>8. parse_Objects = IF n < Len(g) THEN SubSeq(g, 1, n) ELSE g
  BY <1>1, <1>2, <1>4 DEF parse_Objects, truncate
<1>9. CASE n < Len(g)
  <2>1. SubSeq(g, 1, n) \in Seq(S) /\ Len(SubSeq(g, 1, n)) = n
    BY <1>6, <1>9, SubSeqProperties
  <2>2. \A i \in 1..n : SubSeq(g, 1, n)[i] = g[i]
    BY <1>6, <1>9
  <2>3. IsSeq(SubSeq(g, 1, n))
    BY <2>1, SeqOfSome
  <2> QED
    BY <1>1, <1>7, <1>8, <1>9, <2>1, <2>2, <2>3
<1>10. CASE ~(n < Len(g))
  <2>1. parse_Objects = g
    BY <1>8, <1>10
  <2>2. Len(g) = n
    <3>1. Len(g) \in Nat /\ Len(g) >= n
      BY <1>3, <1>6
    <3> QED
      BY <1>10, <3>1
  <2> QED
    BY <1>1, <1>6, <1>7, <2>1, <2>2
<1> QED
  BY <1>9, <1>10

(* A save mirrors the technos and the factories of the game. *)
LEMMA ObjectsSaved ==
  ASSUME CInv, SaveState
  PROVE  ObjectInv'
<1>u. /\ technos' = technos /\ factories' = factories /\ players' = players
      /\ objects' = parse_Objects /\ facts' = factories /\ houses' = players
      /\ known' = Ids(technos) /\ phase' = "saved"
  BY DEF SaveState, gameVars, fixed, parse_Factories, parse_HouseClasses
<1>1. IsSeq(technos) /\ IsSeq(objects)
  BY DEF CInv, ObjectInv
<1>2. /\ IsSeq(parse_Objects) /\ Len(parse_Objects) = Len(technos)
      /\ \A i \in 1..Len(technos) : \E T : parse_Objects[i] = ParsedObject(technos[i], T)
  BY <1>1, ObjectsParsed
<1>3. DOMAIN technos = 1..Len(technos) /\ DOMAIN parse_Objects = 1..Len(technos)
  <2>1. DOMAIN technos = 1..Len(technos)
    BY <1>1, SeqIs
  <2>2. DOMAIN parse_Objects = 1..Len(parse_Objects)
    BY <1>2, SeqIs
  <2> QED
    BY <1>2, <2>1, <2>2
<1>4. ASSUME NEW i \in DOMAIN technos, NEW o, o = technos[i], NEW T, T = parse_Objects[i]
      PROVE  /\ T.self = o.id /\ T.kind = o.kind /\ T.status = o.status
             /\ o.onmap => T.at = o.at
             /\ o.kind \in Foot /\ o.dest # 0 => T.dest = o.dest
             /\ o.kind = "unit" => T.deployed = o.deployed
  <2>1. PICK R : T = ParsedObject(o, R)
    BY <1>2, <1>3, <1>4
  <2> QED
    BY <2>1 DEF ParsedObject, KindOf
<1>5. \A i \in DOMAIN parse_Objects : parse_Objects[i].self \in Ids(technos)
  BY <1>3, <1>4 DEF Ids
<1>6. ObjectsMirrored'
  BY <1>u, <1>2, <1>4 DEF ObjectsMirrored
<1>7. IsSeq(technos)' /\ IsSeq(objects)'
  BY <1>u, <1>1, <1>2 DEF IsSeq
<1>8. ~Fresh'
  BY <1>u DEF Fresh
<1> QED
  BY <1>u, <1>5, <1>6, <1>7, <1>8 DEF ObjectInv

(* The first save takes the type classes, and later ones keep them. *)
LEMMA TypesSaved ==
  ASSUME CInv, SaveState
  PROVE  TypeClassInv'
<1>u. phase = "hook" /\ phase' = "saved" /\ frame' = frame /\ SavesTypes /\ frame \in Nat
  BY DEF SaveState, CInv, FrameInv
<1>1. IF Fresh THEN types.initial = {} /\ types.copied = FALSE
      ELSE types.initial = TypeClasses /\ types.copied = TRUE
  BY DEF CInv, TypeClassInv
<1>2. ~Fresh' /\ (Fresh <=> frame = 0)
  BY <1>u DEF Fresh
<1>3. TypeClasses # {}
  BY StateAssumption
<1>4. CASE Fresh
  <2>1. types' = [state |-> TypeClasses, initial |-> TypeClasses, copied |-> TRUE]
    BY <1>u, <1>1, <1>4 DEF SavesTypes, InitialTypes, parse_AbstractTypeClasses
  <2> QED
    BY <1>u, <1>2, <1>4, <2>1 DEF TypeClassInv, TypesKept
<1>5. CASE ~Fresh
  <2>1. types' = [state |-> {}, initial |-> TypeClasses, copied |-> TRUE]
    BY <1>u, <1>1, <1>3, <1>5 DEF SavesTypes, InitialTypes
  <2> QED
    BY <1>u, <1>2, <1>5, <2>1 DEF TypeClassInv, TypesKept
<1> QED
  BY <1>4, <1>5

-----------------------------------------------------------------------------
(* Saving the events *)

(* A ring has at least one slot. *)
LEMMA RingPositive == RingSize \in Nat /\ RingSize > 0
<1>1. RingSize \in {2^n : n \in 0..14}
  BY StateAssumption
<1> QED
  BY <1>1

(* The place of an event in its ring. *)
LEMMA SlotIndex ==
  ASSUME NEW h \in Nat, NEW i \in Nat
  PROVE  (h + i) % RingSize \in 0..RingSize - 1
<1>1. h + i \in Nat
  OBVIOUS
<1> QED
  BY <1>1, RingPositive, Division

(* What is read from a ring is an event. *)
LEMMA EventIs ==
  ASSUME NEW r \in Rings, NEW i \in Nat
  PROVE  get_event(r, i) \in Events
<1>1. r.head \in 0..RingSize - 1 /\ r.slot \in [0..RingSize - 1 -> Events]
  BY DEF Rings
<1>2. r.head \in Nat
  BY <1>1, RingPositive
<1>3. (r.head + i) % RingSize \in 0..RingSize - 1
  BY <1>2, SlotIndex
<1> QED
  BY <1>1, <1>3 DEF get_event

(* A parsed list is the list of the game, in number and in order. *)
LEMMA ListParsed ==
  ASSUME NEW r \in Rings, NEW dst, NEW s, s = parse_EventList(dst, r)
  PROVE  /\ Len(s) = r.count
         /\ \A i \in 1..r.count :
              LET e == r.slot[(r.head + i - 1) % RingSize] IN
              s[i] = [e EXCEPT !.data = IF e.type \in WithData THEN @ ELSE s[i].data]
<1>1. r.count \in Nat /\ r.head \in Nat
  BY RingPositive DEF Rings
<1>2. PICK d : d = IF Len(dst) = r.count THEN dst ELSE [i \in 1..r.count |-> BlankEvent]
  OBVIOUS
<1>3. s = [i \in 1..r.count |-> ParsedEvent(get_event(r, i - 1), d[i])]
  BY <1>2 DEF parse_EventList
<1>4. Len(s) = r.count
  <2>1. s \in [1..r.count -> {s[i] : i \in 1..r.count}]
    BY <1>3
  <2> QED
    BY <1>1, <2>1, ListIs
<1>5. ASSUME NEW i \in 1..r.count, NEW e, e = r.slot[(r.head + i - 1) % RingSize]
      PROVE  s[i] = [e EXCEPT !.data = IF e.type \in WithData THEN @ ELSE s[i].data]
  <2>1. i - 1 \in Nat /\ r.head + (i - 1) = r.head + i - 1
    BY <1>1
  <2>2. e = get_event(r, i - 1)
    BY <1>5, <2>1 DEF get_event
  <2>3. e \in Events
    BY <2>1, <2>2, EventIs
  <2>4. s[i] = ParsedEvent(e, d[i])
    BY <1>3, <2>2
  <2>5. CASE e.type \in WithData
    BY <2>3, <2>4, <2>5 DEF ParsedEvent, Events
  <2>6. CASE e.type \notin WithData
    <3>1. s[i] = [e EXCEPT !.data = d[i].data]
      BY <2>4, <2>6 DEF ParsedEvent
    <3>2. s[i].data = d[i].data
      BY <2>3, <3>1 DEF Events
    <3> QED
      BY <2>6, <3>1, <3>2
  <2> QED
    BY <2>5, <2>6
<1> QED
  BY <1>4, <1>5

(* A save mirrors the three event lists. *)
LEMMA EventsSaved ==
  ASSUME CInv, SaveState
  PROVE  EventsMirrored'
<1>u. /\ lists' = lists /\ phase' = "saved"
      /\ shown' = [l \in Lists |-> parse_EventList(shown[l], lists[l])]
  BY DEF SaveState, gameVars, SavesEvents
<1>1. lists \in [Lists -> Rings]
  BY DEF CInv, RingInv
<1>2. ASSUME NEW l \in Lists, NEW r, r = lists[l], NEW s, s = shown'[l]
      PROVE  /\ Len(s) = r.count
             /\ \A i \in 1..r.count :
                  LET e == r.slot[(r.head + i - 1) % RingSize] IN
                  s[i] = [e EXCEPT !.data = IF e.type \in WithData THEN @ ELSE s[i].data]
  <2>1. r \in Rings
    BY <1>1, <1>2
  <2>2. s = parse_EventList(shown[l], r)
    BY <1>u, <1>2
  <2> QED
    BY <2>1, <2>2, ListParsed
<1> QED
  BY <1>u, <1>2 DEF EventsMirrored

(* The entry of the frame is appended, and an old one leaves when there is *)
(* no room.                                                                *)
LEMMA BufferSaved ==
  ASSUME CInv, SaveState
  PROVE  BufferInv'
<1>u. /\ phase = "hook" /\ phase' = "saved" /\ frame' = frame /\ frame \in Nat
      /\ buffer' = [lists |-> Append(Trimmed(buffer.lists), shown'),
                    frame |-> Append(Trimmed(buffer.frame), frame)]
  BY DEF SaveState, SavesEvents, CInv, FrameInv
<1>b. BufferSize \in Nat /\ BufferSize > 0
  BY SizesPositive
<1>p. PICK F, L : F = buffer.frame /\ L = buffer.lists
  OBVIOUS
<1>i. /\ IsSeq(F) /\ Len(F) \in Nat /\ Len(F) <= BufferSize
      /\ IsSeq(L) /\ Len(L) = Len(F)
      /\ \A i \in 2..Len(F) : F[i] = F[i - 1] + 1
      /\ Fresh => F = <<>>
      /\ ~Fresh => /\ Len(F) > 0 /\ F[Len(F)] = frame - 1
                   /\ Len(F) = BufferSize \/ F[1] = 0
  <2>1. BufferInv
    BY DEF CInv
  <2>2. IsSeq(F) /\ IsSeq(L) /\ BufferAligned
    BY <1>p, <2>1 DEF BufferInv
  <2>3. Len(F) \in Nat
    BY <2>2, SeqIs
  <2>4. Fresh => F = <<>>
    BY <1>p, <2>1 DEF BufferInv
  <2>5. ~Fresh => /\ Len(F) > 0 /\ F[Len(F)] = frame - 1
                  /\ Len(F) = BufferSize \/ F[1] = 0
    BY <1>p, <1>u, <2>1 DEF BufferInv
  <2>6. /\ Len(F) <= BufferSize /\ Len(L) = Len(F)
        /\ \A i \in 2..Len(F) : F[i] = F[i - 1] + 1
    BY <1>p, <2>2 DEF BufferAligned
  <2> QED
    BY <2>2, <2>3, <2>4, <2>5, <2>6
<1>f. ~Fresh' /\ (Fresh <=> frame = 0)
  BY <1>u DEF Fresh
<1>1. PICK t, v : t = Trimmed(F) /\ v = Trimmed(L)
  OBVIOUS
<1>c. IF Len(F) >= BufferSize THEN t = Tail(F) /\ v = Tail(L) ELSE t = F /\ v = L
  BY <1>i, <1>p, <1>1 DEF Trimmed
<1>2. /\ IsSeq(t) /\ Len(t) \in Nat /\ Len(t) < BufferSize
      /\ IsSeq(v) /\ Len(v) = Len(t)
      /\ \A i \in 2..Len(t) : t[i] = t[i - 1] + 1
      /\ Len(t) > 0 => t[Len(t)] = frame - 1
      /\ Len(t) = 0 => Len(t) + 1 = BufferSize \/ frame = 0
      /\ Len(t) > 0 => Len(t) + 1 = BufferSize \/ t[1] = 0
  <2>1. CASE Len(F) >= BufferSize
    <3>1. t = Tail(F) /\ v = Tail(L) /\ Len(F) = BufferSize
      BY <1>b, <1>c, <1>i, <2>1
    <3>2. /\ IsSeq(t) /\ Len(t) = Len(F) - 1
          /\ \A i \in 1..Len(F) - 1 : t[i] = F[i + 1]
      BY <1>b, <1>i, <3>1, TailIs
    <3>3. Len(t) \in Nat /\ Len(t) + 1 = BufferSize
      BY <1>b, <1>i, <3>1, <3>2
    <3>4. ASSUME NEW i \in 2..Len(t)
          PROVE  t[i] = t[i - 1] + 1
      <4>1. i + 1 \in 2..Len(F) /\ i + 1 - 1 = i /\ i - 1 + 1 = i
        BY <3>1, <3>3, <3>4
      <4>2. t[i] = F[i + 1] /\ t[i - 1] = F[i - 1 + 1]
        <5>1. i \in 1..Len(F) - 1 /\ i - 1 \in 1..Len(F) - 1
          BY <3>1, <3>3, <3>4
        <5> QED
          BY <3>2, <5>1
      <4>3. F[i + 1] = F[i + 1 - 1] + 1
        BY <1>i, <4>1
      <4> QED
        BY <4>1, <4>2, <4>3
    <3>5. ASSUME Len(t) > 0
          PROVE  t[Len(t)] = frame - 1
      <4>1. ~Fresh
        <5>1. CASE Fresh
          <6>1. Len(F) = 0
            BY <1>i, <5>1
          <6> QED
            BY <1>b, <3>1, <6>1
        <5> QED
          BY <5>1
      <4>2. Len(t) \in 1..Len(F) - 1 /\ Len(t) + 1 = Len(F)
        BY <3>1, <3>3, <3>5
      <4>3. t[Len(t)] = F[Len(t) + 1]
        BY <3>2, <4>2
      <4> QED
        BY <1>i, <4>1, <4>2, <4>3
    <3>6. Len(t) < BufferSize
      BY <3>3
    <3>7. Len(L) > 0
      BY <1>b, <1>i, <3>1
    <3>8. IsSeq(v) /\ Len(v) = Len(t)
      BY <1>i, <3>1, <3>2, <3>7, TailIs
    <3> QED
      BY <3>2, <3>3, <3>4, <3>5, <3>6, <3>8
  <2>2. CASE Len(F) < BufferSize
    <3>1. t = F /\ v = L
      BY <1>b, <1>c, <1>i, <2>2
    <3>2. CASE Fresh
      <4>1. Len(t) = 0
        BY <1>i, <3>1, <3>2
      <4> QED
        BY <1>i, <1>f, <2>2, <3>1, <3>2, <4>1
    <3>3. CASE ~Fresh
      <4>1. Len(F) > 0 /\ F[Len(F)] = frame - 1 /\ F[1] = 0
        BY <1>b, <1>i, <2>2, <3>3
      <4> QED
        BY <1>i, <2>2, <3>1, <4>1
    <3> QED
      BY <3>2, <3>3
  <2> QED
    BY <1>b, <1>i, <2>1, <2>2
<1>3. PICK b, c : b = Append(t, frame) /\ c = Append(v, shown')
  OBVIOUS
<1>4. /\ IsSeq(b) /\ Len(b) = Len(t) + 1 /\ b[Len(t) + 1] = frame
      /\ \A i \in 1..Len(t) : b[i] = t[i]
  BY <1>2, <1>3, Appending
<1>5. IsSeq(c) /\ Len(c) = Len(t) + 1 /\ c[Len(t) + 1] = shown'
  BY <1>2, <1>3, Appending
<1>6. buffer'.frame = b /\ buffer'.lists = c
  BY <1>u, <1>p, <1>1, <1>3
<1>7. Len(b) \in Nat /\ Len(b) > 0 /\ Len(b) <= BufferSize /\ Len(c) = Len(b)
  BY <1>b, <1>2, <1>4, <1>5
<1>8. \A i \in 2..Len(b) : b[i] = b[i - 1] + 1
  <2> SUFFICES ASSUME NEW i \in 2..Len(b)
               PROVE  b[i] = b[i - 1] + 1
    OBVIOUS
  <2>1. i \in 1..Len(t) + 1 /\ i - 1 \in 1..Len(t)
    BY <1>2, <1>4, <1>7
  <2>2. b[i - 1] = t[i - 1]
    BY <1>4, <2>1
  <2>3. CASE i <= Len(t)
    <3>1. i \in 1..Len(t) /\ i \in 2..Len(t)
      BY <1>2, <2>1, <2>3
    <3> QED
      BY <1>2, <1>4, <2>2, <3>1
  <2>4. CASE i = Len(t) + 1
    <3>1. i - 1 = Len(t) /\ Len(t) > 0
      BY <1>2, <2>1, <2>4
    <3>2. b[i] = frame
      BY <1>4, <2>4
    <3>3. b[i - 1] = frame - 1
      BY <1>2, <2>2, <3>1
    <3> QED
      BY <1>u, <3>2, <3>3
  <2> QED
    BY <1>2, <2>1, <2>3, <2>4
<1>9. Len(b) = BufferSize \/ b[1] = 0
  <2>1. CASE Len(t) = 0
    BY <1>2, <1>4, <2>1
  <2>2. CASE Len(t) > 0
    <3>1. b[1] = t[1]
      BY <1>2, <1>4, <2>2
    <3> QED
      BY <1>2, <1>4, <2>2, <3>1
  <2> QED
    BY <1>2, <2>1, <2>2
<1>10. b[Len(b)] = frame' /\ c[Len(b)] = shown'
  BY <1>u, <1>4, <1>5
<1>11. BufferAligned'
  BY <1>6, <1>7, <1>8, <1>9, <1>10 DEF BufferAligned
<1>12. IsSeq(buffer'.frame) /\ IsSeq(buffer'.lists)
  BY <1>4, <1>5, <1>6
<1>13. /\ Len(buffer'.frame) > 0 /\ buffer'.frame[Len(buffer'.frame)] = frame'
       /\ Len(buffer'.frame) = BufferSize \/ buffer'.frame[1] = 0
  BY <1>6, <1>7, <1>9, <1>10
<1> QED
  BY <1>u, <1>f, <1>11, <1>12, <1>13 DEF BufferInv, IsSeq

-----------------------------------------------------------------------------
(* The next frame *)

(* What was saved in the last frame is what this one starts from. *)
LEMMA FrameLeft ==
  ASSUME CInv, LeavesFrame, UNCHANGED <<added, last>>
  PROVE  CInv'
<1>i. /\ FrameInv /\ MapTypes /\ CellsKnown /\ DifferencesRepeat /\ CellsParsed /\ ReadInv
      /\ ObjectInv /\ TypeClassInv /\ RingInv /\ BufferInv /\ LastInv
  BY DEF CInv, MapInv
<1>u. /\ part' = part /\ interval' = interval /\ players' = players
      /\ map_data' = map_data /\ previous' = previous /\ difference' = difference
      /\ replayed' = replayed /\ objects' = objects /\ facts' = facts /\ houses' = houses
      /\ shown' = shown /\ buffer' = buffer /\ types' = types /\ known' = known
      /\ cells' = cells /\ technos' = technos /\ factories' = factories /\ lists' = lists
      /\ last' = last /\ added' = added
  BY DEF LeavesFrame, fixed, parsedVars, mapVars, gameVars
<1>f. /\ phase = "saved" /\ phase' = "game" /\ frame' = frame + 1
      /\ frame \in Nat /\ frame' \in Nat /\ interval \in Nat
  BY <1>i DEF LeavesFrame, FrameInv
<1>m. (Mapped' <=> Mapped) /\ ~Fresh' /\ ~Fresh
  BY <1>f DEF Mapped, Fresh
<1>1. FrameInv'
  BY <1>i, <1>u, <1>f DEF FrameInv
<1>2. MapTypes'
  BY <1>i, <1>u, <1>m DEF MapTypes
<1>3. CellsKnown' /\ DifferencesRepeat'
  BY <1>i, <1>u, <1>m DEF CellsKnown, DifferencesRepeat
<1>4. CellsParsed'
  <2>1. frame' > interval => frame > interval \/ frame = interval
    BY <1>f
  <2> QED
    BY <1>i, <1>u, <1>f, <2>1 DEF CellsParsed
<1>5. ReadInv'
  BY <1>i, <1>u DEF ReadInv, convert_map_data
<1>6. ObjectInv'
  <2>1. IsSeq(objects)' /\ IsSeq(technos)'
    BY <1>i, <1>u DEF ObjectInv, IsSeq
  <2>2. ObjectsMirrored'
    BY <1>f DEF ObjectsMirrored
  <2> QED
    BY <1>i, <1>u, <1>m, <2>1, <2>2 DEF ObjectInv
<1>7. TypeClassInv'
  BY <1>i, <1>u, <1>f, <1>m DEF TypeClassInv, TypesKept
<1>8. RingInv' /\ EventsMirrored'
  BY <1>i, <1>u, <1>f DEF RingInv, EventsMirrored
<1>9. BufferInv'
  <2>1. IsSeq(buffer.lists)' /\ IsSeq(buffer.frame)'
    BY <1>i, <1>u DEF BufferInv, IsSeq
  <2>2. BufferAligned'
    BY <1>i, <1>u, <1>f DEF BufferInv, BufferAligned
  <2>3. buffer.frame[Len(buffer.frame)] = frame' - 1
    BY <1>i, <1>f, <1>m DEF BufferInv
  <2> QED
    BY <1>i, <1>u, <1>f, <1>m, <2>1, <2>2, <2>3 DEF BufferInv
<1>10. LastInv'
  <2>1. last.event.type = "none"
    BY <1>i, <1>f DEF LastInv
  <2>2. ActsOnSaved'
    BY <1>i, <1>u DEF LastInv, ActsOnSaved, OrdersReachTechnos, PlacedCompleted, Listed
  <2>3. FilterRight'
    <3>1. FilterRight
      BY <1>i DEF LastInv
    <3> QED
      BY <1>u, <3>1 DEF FilterRight
  <2> QED
    BY <1>u, <2>1, <2>2, <2>3 DEF LastInv, EventsScheduled
<1> QED
  BY <1>1, <1>2, <1>3, <1>4, <1>5, <1>6, <1>7, <1>8, <1>9, <1>10 DEF CInv, MapInv

-----------------------------------------------------------------------------
(* Steps that save nothing *)

(* What a step must show that saves nothing: its changes of the game and of  *)
(* the last command are sound, and a saved frame is left alone.              *)
LEMMA StepKeeps ==
  ASSUME CInv, UNCHANGED <<fixed, frame, parsedVars>>,
         phase' \in {"game", "hook", "saved"}, phase' = "saved" <=> phase = "saved",
         phase = "saved" => UNCHANGED gameVars,
         cells' \in [Valid -> CellValues], IsSeq(technos'), RingInv', ReadInv', LastInv'
  PROVE  CInv'
<1>i. /\ FrameInv /\ MapTypes /\ CellsKnown /\ DifferencesRepeat /\ CellsParsed
      /\ ObjectInv /\ TypeClassInv /\ EventsMirrored /\ BufferInv
  BY DEF CInv, MapInv
<1>u. /\ part' = part /\ interval' = interval /\ players' = players /\ frame' = frame
      /\ map_data' = map_data /\ previous' = previous /\ difference' = difference
      /\ replayed' = replayed /\ objects' = objects /\ facts' = facts /\ houses' = houses
      /\ shown' = shown /\ buffer' = buffer /\ types' = types /\ known' = known
  BY DEF fixed, parsedVars, mapVars
<1>m. (Mapped' <=> Mapped) /\ (Fresh' <=> Fresh)
  BY <1>u DEF Mapped, Fresh
<1>g. phase = "saved" => cells' = cells /\ technos' = technos /\ factories' = factories /\ lists' = lists
  BY DEF gameVars
<1>1. FrameInv'
  BY <1>i, <1>u DEF FrameInv
<1>2. MapTypes'
  BY <1>i, <1>u, <1>m DEF MapTypes
<1>3. CellsKnown' /\ DifferencesRepeat'
  BY <1>i, <1>u, <1>m DEF CellsKnown, DifferencesRepeat
<1>4. CellsParsed'
  <2>1. phase = "saved" => \A k : parse_Cell(k)' = parse_Cell(k)
    BY <1>g DEF parse_Cell
  <2> QED
    BY <1>i, <1>u, <2>1 DEF CellsParsed
<1>5. ObjectInv'
  <2>1. IsSeq(objects)'
    BY <1>i, <1>u DEF ObjectInv, IsSeq
  <2>2. IsSeq(technos)'
    BY DEF IsSeq
  <2>3. ObjectsMirrored'
    <3>1. CASE phase = "saved"
      BY <1>g, <1>i, <1>u, <3>1 DEF ObjectInv, ObjectsMirrored
    <3>2. CASE phase # "saved"
      BY <3>2 DEF ObjectsMirrored
    <3> QED
      BY <3>1, <3>2
  <2>4. \A i \in DOMAIN objects' : objects'[i].self \in known'
    BY <1>i, <1>u DEF ObjectInv
  <2>5. IF Fresh' THEN facts' = <<>> ELSE houses' = players'
    BY <1>i, <1>u, <1>m DEF ObjectInv
  <2> QED
    BY <2>1, <2>2, <2>3, <2>4, <2>5 DEF ObjectInv
<1>6. TypeClassInv'
  BY <1>i, <1>u, <1>m DEF TypeClassInv, TypesKept
<1>7. EventsMirrored'
  <2>1. CASE phase = "saved"
    BY <1>g, <1>i, <1>u, <2>1 DEF EventsMirrored
  <2>2. CASE phase # "saved"
    BY <2>2 DEF EventsMirrored
  <2> QED
    BY <2>1, <2>2
<1>8. BufferInv'
  <2>1. IsSeq(buffer.lists)' /\ IsSeq(buffer.frame)'
    BY <1>i, <1>u DEF BufferInv, IsSeq
  <2>2. BufferAligned'
    BY <1>i, <1>u DEF BufferInv, BufferAligned
  <2> QED
    BY <1>i, <1>u, <1>m, <2>1, <2>2 DEF BufferInv
<1> QED
  BY <1>1, <1>2, <1>3, <1>4, <1>5, <1>6, <1>7, <1>8 DEF CInv, MapInv

(* The last command stays right while the game runs. *)
LEMMA GameKeeps ==
  ASSUME CInv, phase = "game", phase' \in {"game", "hook"},
         UNCHANGED <<fixed, frame, parsedVars, added, last>>,
         cells' \in [Valid -> CellValues], IsSeq(technos'), lists' \in [Lists -> Rings]
  PROVE  CInv'
<1>i. LastInv /\ RingInv /\ ReadInv
  BY DEF CInv, MapInv
<1>u. /\ players' = players /\ frame' = frame /\ map_data' = map_data /\ objects' = objects
      /\ facts' = facts /\ known' = known /\ last' = last /\ added' = added
  BY DEF fixed, parsedVars, mapVars
<1>1. RingInv'
  BY <1>i, <1>u DEF RingInv
<1>2. ReadInv'
  BY <1>i, <1>u DEF ReadInv, convert_map_data
<1>3. OrdersReachTechnos'
  BY <1>i, <1>u DEF LastInv, ActsOnSaved, OrdersReachTechnos, Listed
<1>4. PlacedCompleted'
  BY <1>i, <1>u DEF LastInv, ActsOnSaved, PlacedCompleted
<1>5. last.event.type = "none"
  BY <1>i DEF LastInv
<1>6. EventsScheduled'
  BY <1>u, <1>5 DEF EventsScheduled
<1>7. FilterRight'
  <2>1. FilterRight
    BY <1>i DEF LastInv
  <2> QED
    BY <1>u, <2>1 DEF FilterRight
<1>8. LastInv'
  BY <1>u, <1>3, <1>4, <1>5, <1>6, <1>7 DEF LastInv, ActsOnSaved
<1> QED
  BY <1>1, <1>2, <1>8, StepKeeps

(* An empty slot is typed as an event. *)
LEMMA BlankIs == BlankEvent \in Events
<1>1. Nat \subseteq HouseIds
  BY Zenon DEF HouseIds
<1>2. 0 \in HouseIds
  BY <1>1
<1>3. 0 \in Payloads
  BY DEF Payloads
<1>4. 0 \in Int /\ "none" \in EventTypes
  BY DEF EventTypes
<1> QED
  BY <1>2, <1>3, <1>4 DEF BlankEvent, Events

(* A ring keeps its shape when an event is put in. *)
LEMMA PushedIs ==
  ASSUME NEW r \in Rings, NEW e \in Events, r.count < RingSize
  PROVE  Pushed(r, e) \in Rings
<1>1. /\ r.head \in 0..RingSize - 1 /\ r.count \in 0..RingSize
      /\ r.slot \in [0..RingSize - 1 -> Events]
  BY DEF Rings
<1>2. r.head \in Nat /\ r.count \in Nat /\ r.count + 1 \in 0..RingSize
  BY <1>1, RingPositive
<1>3. PICK t \in 0..RingSize - 1 : t = RingTail(r)
  BY <1>2, SlotIndex DEF RingTail
<1>4. [r.slot EXCEPT ![t] = e] \in [0..RingSize - 1 -> Events]
  BY <1>1, <1>3
<1>5. PICK p : p = Pushed(r, e)
  OBVIOUS
<1>6. p = [head |-> r.head, count |-> r.count + 1, slot |-> [r.slot EXCEPT ![t] = e]]
  BY <1>3, <1>5 DEF Pushed, Rings
<1> QED
  BY <1>1, <1>2, <1>4, <1>5, <1>6 DEF Rings

(* A ring keeps its shape when an event is taken out. *)
LEMMA PoppedIs ==
  ASSUME NEW r \in Rings, r.count > 0
  PROVE  Popped(r) \in Rings
<1>1. /\ r.head \in 0..RingSize - 1 /\ r.count \in 0..RingSize
      /\ r.slot \in [0..RingSize - 1 -> Events]
  BY DEF Rings
<1>2. r.head \in Nat /\ r.count - 1 \in 0..RingSize
  BY <1>1, RingPositive
<1>3. (r.head + 1) % RingSize \in 0..RingSize - 1
  BY <1>2, SlotIndex
<1>4. PICK h : h = (r.head + 1) % RingSize
  OBVIOUS
<1>5. Popped(r) = [r EXCEPT !.head = h, !.count = r.count - 1]
  BY <1>4 DEF Popped, Rings
<1>6. Popped(r) = [head |-> h, count |-> r.count - 1, slot |-> r.slot]
  BY <1>5 DEF Rings
<1> QED
  BY <1>1, <1>2, <1>3, <1>4, <1>6 DEF Rings

(* What other players send is an event. *)
LEMMA ForeignIs == Foreign \subseteq Events
<1>1. Foreign \subseteq [type : STRING, house : Nat, frame : Int, data : EventData, timing : Int]
  BY CommandsAssumption
<1>2. Nat \subseteq HouseIds /\ EventData \subseteq Payloads
  BY DEF HouseIds, Payloads
<1>3. \A e \in Foreign : e.type \in EventTypes
  BY DEF EventTypes
<1> QED
  BY <1>1, <1>2, <1>3 DEF Events

(* The game and the frames keep the invariant. *)
LEMMA GamePreserves ==
  ASSUME CInv, GameSteps, UNCHANGED <<added, last>>
  PROVE  CInv'
<1>i. cells \in [Valid -> CellValues] /\ IsSeq(technos) /\ lists \in [Lists -> Rings]
  BY DEF CInv, MapInv, MapTypes, ObjectInv, RingInv
<1>k. ASSUME Game, cells' \in [Valid -> CellValues], IsSeq(technos'), lists' \in [Lists -> Rings]
      PROVE  CInv'
  <2>1. phase = "game" /\ phase' \in {"game", "hook"} /\ UNCHANGED <<fixed, frame, parsedVars, added, last>>
    BY <1>k DEF Game
  <2> QED
    BY <1>k, <2>1, GameKeeps
<1>l. DOMAIN lists = Lists /\ "out" \in Lists /\ "do" \in Lists /\ "megamission" \in Lists
  BY <1>i DEF Lists
<1>1. ASSUME NEW c \in Valid, NEW v \in CellValues, ChangeCell(c, v)
      PROVE  CInv'
  <2>1. cells' \in [Valid -> CellValues]
    BY <1>i, <1>1 DEF ChangeCell
  <2> QED
    BY <1>i, <1>1, <1>k, <2>1 DEF ChangeCell
<1>2. ASSUME NEW a \in Addresses, NEW b \in Bodies, AddTechno(a, b)
      PROVE  CInv'
  <2>1. PICK e : e = Body(a, b)
    OBVIOUS
  <2>2. IsSeq(Append(technos, e))
    BY <1>i, Appending
  <2>3. IsSeq(technos')
    BY <1>2, <2>1, <2>2 DEF AddTechno
  <2> QED
    BY <1>i, <1>2, <1>k, <2>3 DEF AddTechno
<1>3. ASSUME NEW i \in DOMAIN technos, RemoveTechno(i)
      PROVE  CInv'
  <2>1. IsSeq(technos')
    BY <1>i, <1>3, RemoveAtIs DEF RemoveTechno
  <2> QED
    BY <1>i, <1>3, <1>k, <2>1 DEF RemoveTechno
<1>4. ASSUME NEW i \in DOMAIN technos, NEW b \in Bodies, ChangeTechno(i, b)
      PROVE  CInv'
  <2>1. PICK e : e = Body(technos[i].id, b)
    OBVIOUS
  <2>2. technos' = [technos EXCEPT ![i] = e]
    BY <1>4, <2>1 DEF ChangeTechno
  <2>3. technos' \in [1..Len(technos) -> ToSet(technos) \cup {e}]
    <3>1. technos \in [1..Len(technos) -> ToSet(technos)]
      BY <1>i DEF IsSeq
    <3> QED
      BY <2>2, <3>1
  <2>4. IsSeq(technos')
    <3>1. Len(technos) \in Nat
      BY <1>i, SeqIs
    <3> QED
      BY <2>3, <3>1, ListIs
  <2> QED
    BY <1>i, <1>4, <1>k, <2>4 DEF ChangeTechno
<1>5. ASSUME NEW i \in DOMAIN technos, NEW owner, NEW completed, ChangeFactory(i, owner, completed)
      PROVE  CInv'
  BY <1>i, <1>5, <1>k DEF ChangeFactory
<1>6. ASSUME SendEvent
      PROVE  CInv'
  <2>1. lists["out"] \in Rings /\ lists["do"] \in Rings
    BY <1>i, <1>l
  <2>2. PICK e : e = get_event(lists["out"], 0)
    OBVIOUS
  <2>3. e \in Events
    BY <2>1, <2>2, EventIs
  <2>4. Popped(lists["out"]) \in Rings
    BY <1>6, <2>1, PoppedIs DEF SendEvent
  <2>5. Pushed(lists["do"], e) \in Rings
    BY <1>6, <2>1, <2>3, PushedIs DEF SendEvent
  <2>6. lists' = [lists EXCEPT !["out"] = Popped(lists["out"]), !["do"] = Pushed(lists["do"], e)]
    BY <1>6, <1>l, <2>2 DEF SendEvent
  <2>7. lists' \in [Lists -> Rings]
    BY <1>i, <2>4, <2>5, <2>6
  <2> QED
    BY <1>i, <1>6, <1>k, <2>7 DEF SendEvent
<1>7. ASSUME NEW l \in {"do", "megamission"}, ExecuteEvent(l)
      PROVE  CInv'
  <2>1. l \in Lists /\ lists[l] \in Rings
    BY <1>i, <1>l
  <2>2. Popped(lists[l]) \in Rings
    BY <1>7, <2>1, PoppedIs DEF ExecuteEvent
  <2>3. lists' \in [Lists -> Rings]
    BY <1>i, <1>7, <2>1, <2>2 DEF ExecuteEvent
  <2> QED
    BY <1>i, <1>7, <1>k, <2>3 DEF ExecuteEvent
<1>8. ASSUME NEW e \in Foreign, NEW l \in Lists, ReceiveEvent(l, e)
      PROVE  CInv'
  <2>1. lists[l] \in Rings /\ e \in Events
    BY <1>i, ForeignIs
  <2>2. Pushed(lists[l], e) \in Rings
    BY <1>8, <2>1, PushedIs DEF ReceiveEvent
  <2>3. lists' \in [Lists -> Rings]
    BY <1>i, <1>8, <2>1, <2>2 DEF ReceiveEvent
  <2> QED
    BY <1>i, <1>8, <1>k, <2>3 DEF ReceiveEvent
<1>9. ASSUME EntersFrame
      PROVE  CInv'
  <2>1. /\ phase = "game" /\ phase' \in {"game", "hook"}
        /\ UNCHANGED <<fixed, frame, parsedVars, added, last>>
    BY <1>9 DEF EntersFrame
  <2>2. cells' = cells /\ technos' = technos /\ lists' = lists
    BY <1>9 DEF EntersFrame, gameVars
  <2> QED
    BY <1>i, <2>1, <2>2, GameKeeps
<1>10. ASSUME NEW e \in Foreign
       PROVE  (IF e.type = "megamission" THEN e.type ELSE "do") \in Lists
  BY <1>l
<1>11. ASSUME LeavesFrame
       PROVE  CInv'
  BY <1>11, FrameLeft
<1> QED
  BY <1>1, <1>2, <1>3, <1>4, <1>5, <1>6, <1>7, <1>8, <1>9, <1>10, <1>11 DEF GameSteps

-----------------------------------------------------------------------------
(* Commands *)

(* What a command must show that adds no event: it calls the game only with  *)
(* what is listed, and it names what it placed.                              *)
LEMMA GivenKeeps ==
  ASSUME CInv, phase = "hook", UNCHANGED <<fixed, frame, phase, parsedVars>>,
         NEW cmd, NEW addrs, NEW made, NEW ok, Given(cmd, addrs, made, ok),
         cmd # "ReadValue", cmd = "PlaceBuilding" => ~ok,
         cmd \in {"UnitOrder", "Click", "UnitCommand"} => \A i \in made : Listed(addrs[i]),
         cmd = "UnitOrder" /\ ok => made = DOMAIN addrs
  PROVE  CInv'
<1>i. RingInv /\ ObjectInv /\ cells \in [Valid -> CellValues]
  BY DEF CInv, MapInv, MapTypes
<1>u. /\ objects' = objects /\ known' = known /\ lists' = lists /\ added' = added
      /\ cells' = cells /\ technos' = technos /\ phase' = "hook"
  BY DEF Given, gameVars, parsedVars
<1>l. /\ last'.cmd = cmd /\ last'.addrs = addrs /\ last'.made = made /\ last'.ok = ok
      /\ last'.event.type = "none" /\ last'.filter = FALSE
  BY DEF Given, NoCommand, BlankEvent
<1>1. ASSUME NEW i \in made, cmd \in {"UnitOrder", "Click", "UnitCommand"}
      PROVE  addrs[i] \in known /\ Listed(addrs[i])
  <2>1. Listed(addrs[i])
    BY <1>1
  <2> QED
    BY <1>i, <2>1 DEF Listed, ObjectInv
<1>2. OrdersReachTechnos'
  <2>1. \A k : Listed(k)' <=> Listed(k)
    BY <1>u DEF Listed
  <2> QED
    BY <1>u, <1>l, <1>1, <2>1 DEF OrdersReachTechnos
<1>3. PlacedCompleted' /\ EventsScheduled' /\ FilterRight'
  BY <1>l DEF PlacedCompleted, EventsScheduled, FilterRight
<1>4. LastInv'
  BY <1>l, <1>2, <1>3 DEF LastInv, ActsOnSaved
<1>5. RingInv' /\ ReadInv'
  BY <1>i, <1>u, <1>l DEF RingInv, ReadInv
<1>6. IsSeq(technos') /\ cells' \in [Valid -> CellValues]
  BY <1>i, <1>u DEF ObjectInv
<1> QED
  BY <1>u, <1>4, <1>5, <1>6, StepKeeps

(* The house in control of the player is one of the game's. *)
LEMMA PlayerIs ==
  ASSUME CInv
  PROVE  current_player(players) \in HouseIds
<1>1. part \in Parts /\ players \in HouseLists[part]
  BY DEF CInv, FrameInv
<1> QED
  BY <1>1 DEF HouseIds

(* An event without a delay is due at a multiple of the send rate, as soon   *)
(* as MaxAhead allows.                                                       *)
LEMMA EventFrameIs ==
  ASSUME frame \in Nat, NEW delay \in Nat
  PROVE  /\ EventFrame(delay) \in Nat
         /\ delay = 0 => /\ EventFrame(delay) % FrameSendRate = 0
                         /\ EventFrame(delay) - frame - MaxAhead \in 0..FrameSendRate - 1
<1>a. FrameSendRate \in Nat /\ FrameSendRate > 0 /\ MaxAhead \in Nat
  BY CommandsAssumption
<1>1. PICK n \in Nat : n = frame + MaxAhead
  BY <1>a
<1>2. CASE delay = 0
  <2>1. FrameSendRate + frame - 1 + MaxAhead = n + FrameSendRate - 1
    BY <1>a, <1>1
  <2>2. PICK f : f = ((n + FrameSendRate - 1) \div FrameSendRate) * FrameSendRate
    OBVIOUS
  <2>3. f \in Nat /\ f - n \in 0..FrameSendRate - 1 /\ f % FrameSendRate = 0
    BY <1>a, <2>2, RoundsUp
  <2>4. EventFrame(delay) = f
    BY <1>2, <2>1, <2>2 DEF EventFrame
  <2>5. f - frame - MaxAhead = f - n
    BY <1>a, <1>1, <2>3
  <2> QED
    BY <2>3, <2>4, <2>5
<1>3. CASE delay # 0
  BY <1>3 DEF EventFrame
<1> QED
  BY <1>2, <1>3

(* The search of the filter finds an event of one of the lists. *)
LEMMA FindsDuplicate ==
  ASSUME CInv, NEW q, NEW e, q.house = e.house, q.type = e.type, q.data = e.data
  PROVE  find_event(q) <=> Duplicate(e)
<1>1. \A x : Matches(x, q) <=> Matches(x, e)
  BY DEF Matches
<1>2. lists \in [Lists -> Rings]
  BY DEF CInv, RingInv
<1>3. ASSUME find_event(q)
      PROVE  Duplicate(e)
  <2>1. PICK l \in Lists : \E x \in InList(lists[l]) : Matches(x, q)
    BY <1>3 DEF find_event
  <2>2. PICK i \in 0..lists[l].count - 1 : Matches(get_event(lists[l], i), q)
    BY <2>1 DEF InList
  <2>3. i \in 0..RingSize - 1 /\ i < lists[l].count
    <3>1. lists[l].count \in 0..RingSize
      BY <1>2 DEF Rings
    <3> QED
      BY <3>1, RingPositive
  <2> QED
    BY <1>1, <2>2, <2>3 DEF Duplicate
<1>4. ASSUME Duplicate(e)
      PROVE  find_event(q)
  <2>1. PICK l \in Lists, i \in 0..RingSize - 1 :
          i < lists[l].count /\ Matches(get_event(lists[l], i), e)
    BY <1>4 DEF Duplicate
  <2>2. i \in 0..lists[l].count - 1
    <3>1. lists[l].count \in 0..RingSize
      BY <1>2 DEF Rings
    <3> QED
      BY <2>1, <3>1, RingPositive
  <2>3. get_event(lists[l], i) \in InList(lists[l])
    BY <2>2 DEF InList
  <2> QED
    BY <1>1, <2>1, <2>3 DEF find_event
<1> QED
  BY <1>3, <1>4

(* What a command must show that adds an event. *)
Adding(cmd, type, house, data, delay, spoof, filter, garbage) ==
  /\ phase = "hook" /\ UNCHANGED <<fixed, frame, phase, parsedVars>>
  /\ type \in {"produce", "sellcell", "place"} /\ house \in HouseIds /\ data \in Payloads
  /\ delay \in Nat
  /\ add_event(cmd, Event(type, house, data), delay, spoof, filter, garbage)
  /\ cmd \notin {"ReadValue", "UnitOrder", "Click", "UnitCommand"}
  /\ filter => ~spoof /\ (type # "place" => house = 0)
  /\ cmd = "PlaceBuilding" => ~spoof /\ find_factory(data)

(* Adding an event keeps the invariant. *)
LEMMA AddKeeps ==
  ASSUME CInv, NEW cmd, NEW type, NEW house, NEW data, NEW delay, NEW spoof, NEW filter, NEW garbage,
         Adding(cmd, type, house, data, delay, spoof, filter, garbage)
  PROVE  CInv'
<1> USE DEF Adding
<1>i. /\ FrameInv /\ ObjectInv /\ cells \in [Valid -> CellValues]
      /\ lists \in [Lists -> Rings] /\ added \in Nat
  BY DEF CInv, MapInv, MapTypes, RingInv
<1>h. frame \in Nat /\ current_player(players) \in HouseIds
  BY <1>i, PlayerIs DEF FrameInv
<1>1. PICK ev : ev = Event(type, house, data)
  OBVIOUS
<1>2. ev = [type |-> type, house |-> house, frame |-> 0, data |-> data, timing |-> 0]
  BY <1>1 DEF Event, BlankEvent
<1>3. PICK f : f = EventFrame(delay)
  OBVIOUS
<1>4. /\ f \in Nat
      /\ delay = 0 => f % FrameSendRate = 0 /\ f - frame - MaxAhead \in 0..FrameSendRate - 1
  BY <1>h, <1>3, EventFrameIs
<1>5. PICK e : e = [ev EXCEPT !.house = IF spoof THEN @ ELSE current_player(players),
                              !.frame = IF spoof THEN -f ELSE f, !.timing = added + 1]
  OBVIOUS
<1>6. /\ e.type = type /\ e.data = data
      /\ e.frame = IF spoof THEN -f ELSE f
      /\ e.house = IF spoof THEN house ELSE current_player(players)
  BY <1>2, <1>5
<1>7. e \in Events
  <2>1. e = [type |-> type, house |-> IF spoof THEN house ELSE current_player(players),
             frame |-> IF spoof THEN -f ELSE f, data |-> data, timing |-> added + 1]
    BY <1>2, <1>5
  <2>2. PICK hh \in HouseIds : hh = IF spoof THEN house ELSE current_player(players)
    BY <1>h
  <2>3. PICK ff \in Int : ff = IF spoof THEN -f ELSE f
    <3>1. -f \in Int /\ f \in Int
      BY <1>4
    <3> QED
      BY <3>1
  <2>4. type \in EventTypes /\ added + 1 \in Int
    BY <1>i DEF EventTypes
  <2>5. e = [type |-> type, house |-> hh, frame |-> ff, data |-> data, timing |-> added + 1]
    BY <2>1, <2>2, <2>3
  <2> QED
    BY <2>4, <2>5 DEF Events
<1>8. PICK q : q = [ev EXCEPT !.data = IF ev.type = "place" THEN garbage ELSE @]
  OBVIOUS
<1>9. PICK refused : refused = (filter /\ find_event(q))
  OBVIOUS
<1>10. PICK ok : ok = (~refused /\ (ev.type = "produce" => ev.data \in types.initial) /\ ~OutFull)
  OBVIOUS
<1>11. /\ lists' = IF ok THEN [lists EXCEPT !["out"] = Pushed(@, e)] ELSE lists
       /\ added' = IF ok THEN added + 1 ELSE added
       /\ last' = [NoCommand EXCEPT !.cmd = cmd, !.ok = ok, !.event = e, !.delay = delay,
                     !.filter = filter, !.refused = refused, !.match = Duplicate(e)]
       /\ UNCHANGED <<cells, technos, factories>>
  BY <1>1, <1>3, <1>5, <1>8, <1>9, <1>10 DEF add_event
<1>12. /\ last'.cmd = cmd /\ last'.ok = ok /\ last'.event = e /\ last'.delay = delay
       /\ last'.filter = filter /\ last'.refused = refused /\ last'.match = Duplicate(e)
  BY <1>11 DEF NoCommand
<1>u. /\ facts' = facts /\ houses' = houses /\ players' = players /\ frame' = frame
      /\ phase' = "hook" /\ cells' = cells /\ technos' = technos
  BY <1>11 DEF parsedVars, fixed
<1>13. RingInv'
  <2>1. added' \in Nat
    BY <1>i, <1>11
  <2>2. CASE ok
    <3>1. "out" \in Lists /\ lists["out"] \in Rings
      BY <1>i DEF Lists
    <3>2. lists["out"].count < RingSize
      <4>1. lists["out"].count # RingSize
        BY <1>10, <2>2 DEF OutFull
      <4>2. lists["out"].count \in 0..RingSize
        BY <3>1 DEF Rings
      <4> QED
        BY <4>1, <4>2, RingPositive
    <3>3. Pushed(lists["out"], e) \in Rings
      BY <1>7, <3>1, <3>2, PushedIs
    <3> QED
      BY <1>i, <1>11, <2>1, <2>2, <3>1, <3>3 DEF RingInv
  <2>3. CASE ~ok
    BY <1>i, <1>11, <2>1, <2>3 DEF RingInv
  <2> QED
    BY <2>2, <2>3
<1>14. ReadInv' /\ OrdersReachTechnos'
  BY <1>12 DEF ReadInv, OrdersReachTechnos
<1>15. PlacedCompleted'
  <2> SUFFICES ASSUME cmd = "PlaceBuilding"
               PROVE  \E i \in DOMAIN facts : /\ facts[i].completed /\ facts[i].object = e.data
                                              /\ facts[i].owner = e.house
    BY <1>u, <1>12 DEF PlacedCompleted
  <2>1. PICK i \in DOMAIN facts : /\ facts[i].completed /\ facts[i].object = data
                                  /\ facts[i].owner = current_player(houses)
    BY DEF find_factory
  <2>2. houses = players
    <3>1. facts # <<>>
      BY <2>1
    <3> QED
      BY <1>i, <3>1 DEF ObjectInv
  <2> QED
    BY <1>6, <2>1, <2>2
<1>16. EventsScheduled'
  <2> SUFFICES ASSUME delay = 0
               PROVE  LET g == IF e.frame < 0 THEN -e.frame ELSE e.frame IN
                      g % FrameSendRate = 0 /\ g - frame - MaxAhead \in 0..FrameSendRate - 1
    BY <1>u, <1>12 DEF EventsScheduled
  <2>1. PICK g : g = IF e.frame < 0 THEN -e.frame ELSE e.frame
    OBVIOUS
  <2>2. g = f
    <3>1. CASE spoof
      BY <1>4, <1>6, <2>1, <3>1
    <3>2. CASE ~spoof
      BY <1>4, <1>6, <2>1, <3>2
    <3> QED
      BY <3>1, <3>2
  <2> QED
    BY <1>4, <2>1, <2>2
<1>17. FilterRight'
  <2> SUFFICES ASSUME filter, current_player(players) = 0, type # "place"
               PROVE  refused <=> Duplicate(e)
    BY <1>u, <1>6, <1>12 DEF FilterRight
  <2>1. q = ev
    BY <1>2, <1>8
  <2>2. q.house = 0 /\ q.type = type /\ q.data = data
    BY <1>2, <2>1
  <2>3. e.house = 0
    BY <1>6
  <2>4. find_event(q) <=> Duplicate(e)
    BY <1>6, <2>2, <2>3, FindsDuplicate
  <2> QED
    BY <1>9, <2>4
<1>18. LastInv'
  BY <1>u, <1>14, <1>15, <1>16, <1>17 DEF LastInv, ActsOnSaved
<1>19. IsSeq(technos') /\ cells' \in [Valid -> CellValues]
  BY <1>i, <1>u DEF ObjectInv
<1> QED
  BY <1>u, <1>13, <1>14, <1>18, <1>19, StepKeeps

(* Reading the map keeps the invariant, whatever the phase of the frame. *)
LEMMA ReadKeeps ==
  ASSUME CInv, ReadValue
  PROVE  CInv'
<1>i. RingInv /\ ObjectInv /\ FrameInv /\ cells \in [Valid -> CellValues]
  BY DEF CInv, MapInv, MapTypes
<1>u. /\ map_data' = map_data /\ lists' = lists /\ added' = added /\ phase' = phase
      /\ cells' = cells /\ technos' = technos
      /\ UNCHANGED <<fixed, frame, parsedVars>> /\ UNCHANGED gameVars
  BY DEF ReadValue, gameVars, parsedVars, mapVars
<1>l. /\ last'.cmd = "ReadValue" /\ last'.read = convert_map_data(map_data)
      /\ last'.event.type = "none" /\ last'.filter = FALSE
  BY DEF ReadValue, NoCommand, BlankEvent
<1>1. LastInv'
  BY <1>l DEF LastInv, ActsOnSaved, OrdersReachTechnos, PlacedCompleted, EventsScheduled, FilterRight
<1>2. RingInv' /\ ReadInv'
  BY <1>i, <1>u, <1>l DEF RingInv, ReadInv, convert_map_data
<1>3. IsSeq(technos') /\ cells' \in [Valid -> CellValues] /\ phase' \in {"game", "hook", "saved"}
  BY <1>i, <1>u DEF ObjectInv, FrameInv
<1> QED
  BY <1>u, <1>1, <1>2, <1>3, StepKeeps

(* The commands keep the invariant. *)
LEMMA CommandsPreserve ==
  ASSUME CInv, Commands
  PROVE  CInv'
<1>h. \A p : InHook(p) => phase = "hook" /\ UNCHANGED <<fixed, frame, phase, parsedVars>>
  BY DEF InHook
<1>a. \A p : Alone(p) => phase = "hook" /\ UNCHANGED <<fixed, frame, phase, parsedVars>>
  BY <1>h DEF Alone
<1>z. 0 \in HouseIds /\ 1 \in HouseIds /\ EventData \subseteq Payloads /\ Addresses \subseteq Payloads
  <2>1. Nat \subseteq HouseIds
    BY Zenon DEF HouseIds
  <2>2. 0 \in HouseIds /\ 1 \in HouseIds
    BY <2>1
  <2> QED
    BY <2>2 DEF Payloads
<1>1. ASSUME NEW addrs \in AddressLists, NEW action, NEW target, NEW untyped, NEW place,
             UnitOrder(action, addrs, target, place, untyped)
      PROVE  CInv'
  <2> DEFINE bad == {i \in DOMAIN addrs : OrderFails(addrs[i], action, target, place, untyped)}
             made == {i \in DOMAIN addrs : \A j \in bad : i < j}
  <2>1. Given("UnitOrder", addrs, made, bad = {}) /\ Alone("objects")
    BY <1>1 DEF UnitOrder
  <2>2. \A i \in DOMAIN addrs : i \in Nat
    <3>1. addrs \in Seq(ToSet(addrs))
      BY CommandsAssumption
    <3>2. DOMAIN addrs = 1..Len(addrs) /\ Len(addrs) \in Nat
      BY <3>1
    <3> QED
      BY <3>2
  <2>3. \A i \in made : Listed(addrs[i])
    <3> SUFFICES ASSUME NEW i \in made
                 PROVE  Listed(addrs[i])
      OBVIOUS
    <3>1. i \in Nat /\ i \in DOMAIN addrs
      BY <2>2
    <3>2. i \notin bad
      BY <3>1
    <3> QED
      BY <3>1, <3>2 DEF OrderFails
  <2>4. bad = {} => made = DOMAIN addrs
    OBVIOUS
  <2> HIDE DEF bad, made
  <2> QED
    BY <1>a, <2>1, <2>3, <2>4, GivenKeeps
<1>2. ASSUME NEW addrs \in AddressLists, NEW refused, ClickCommand(addrs, refused)
      PROVE  CInv'
  <2> DEFINE found == {i \in DOMAIN addrs : Listed(addrs[i])}
             bad == {i \in found : addrs[i] \in refused}
             made == {i \in found : \A j \in bad : i <= j}
  <2>1. Given("Click", addrs, made, bad = {}) /\ Alone("objects")
    BY <1>2 DEF ClickCommand
  <2>2. \A i \in made : Listed(addrs[i])
    OBVIOUS
  <2> HIDE DEF found, bad, made
  <2> QED
    BY <1>a, <2>1, <2>2, GivenKeeps
<1>3. ASSUME NEW addrs \in AddressLists, NEW select, UnitCommand(select, addrs)
      PROVE  CInv'
  <2>1. phase = "hook" /\ UNCHANGED <<fixed, frame, phase, parsedVars>>
    BY <1>a, <1>3 DEF UnitCommand
  <2>2. CASE select \/ is_local
    <3>1. PICK made : made = {i \in DOMAIN addrs : Listed(addrs[i])}
      OBVIOUS
    <3>2. Given("UnitCommand", addrs, made, TRUE)
      BY <1>3, <2>2, <3>1 DEF UnitCommand
    <3>3. \A i \in made : Listed(addrs[i])
      BY <3>1
    <3> QED
      BY <2>1, <3>2, <3>3, GivenKeeps
  <2>3. CASE ~(select \/ is_local)
    <3>1. Given("UnitCommand", addrs, {}, FALSE)
      BY <1>3, <2>3 DEF UnitCommand
    <3> QED
      BY <2>1, <3>1, GivenKeeps
  <2> QED
    BY <2>2, <2>3
<1>4. ASSUME NEW type, NEW house, NEW coords, NEW placeable,
             PlaceQuery(type, house, coords, placeable)
      PROVE  CInv'
  <2>1. PICK made, ok : Given("PlaceQuery", coords, made, ok)
    BY <1>4 DEF PlaceQuery
  <2>2. Alone("cells")
    BY <1>4 DEF PlaceQuery
  <2> QED
    BY <1>a, <2>1, <2>2, GivenKeeps
<1>5. ASSUME NEW house \in {0, 1}, NEW d \in EventData, NEW n \in Delays,
             AddEvent("produce", house, d, n, house = 1)
      PROVE  CInv'
  <2>1. n \in Nat /\ house \in HouseIds /\ d \in Payloads
    BY <1>z, CommandsAssumption
  <2>2. Adding("AddEvent", "produce", house, d, n, house = 1, FALSE, 0)
    BY <1>5, <1>h, <2>1 DEF AddEvent, Adding
  <2> QED
    BY <2>2, AddKeeps, Zenon
<1>6. ASSUME NEW d \in EventData, SellCell(d)
      PROVE  CInv'
  <2>1. Adding("SellCell", "sellcell", 0, d, 0, FALSE, TRUE, 0)
    BY <1>6, <1>h, <1>z DEF SellCell, Adding
  <2> QED
    BY <2>1, AddKeeps, Zenon
<1>7. ASSUME NEW d \in EventData, NEW can_build, ProduceOrder(d, can_build)
      PROVE  CInv'
  <2>1. CASE d \in types.initial /\ can_build
    <3>1. Adding("ProduceOrder", "produce", 0, d, 0, FALSE, TRUE, 0)
      BY <1>7, <1>h, <1>z, <2>1 DEF ProduceOrder, Adding
    <3> QED
      BY <3>1, AddKeeps, Zenon
  <2>2. CASE ~(d \in types.initial /\ can_build)
    <3>1. phase = "hook" /\ UNCHANGED <<fixed, frame, phase, parsedVars>>
      BY <1>7, <1>h DEF ProduceOrder
    <3>2. Given("ProduceOrder", <<>>, {}, FALSE)
      BY <1>7, <2>2 DEF ProduceOrder
    <3> QED
      BY <3>1, <3>2, GivenKeeps
  <2> QED
    BY <2>1, <2>2
<1>8. ASSUME NEW a \in Addresses, NEW can_place, NEW garbage, PlaceBuilding(a, can_place, garbage)
      PROVE  CInv'
  <2>1. phase = "hook" /\ UNCHANGED <<fixed, frame, phase, parsedVars>> /\ a \in Payloads
    BY <1>h, <1>8, <1>z DEF PlaceBuilding
  <2>2. CASE Saved(a) /\ find_factory(a) /\ can_place
    <3>1. houses = players
      <4>1. facts # <<>>
        BY <2>2 DEF find_factory
      <4> QED
        BY <4>1 DEF CInv, ObjectInv
    <3>2. current_player(houses) \in HouseIds
      BY <3>1, PlayerIs
    <3>3. Adding("PlaceBuilding", "place", current_player(houses), a, 0, FALSE, TRUE, garbage)
      BY <1>8, <2>1, <2>2, <3>2 DEF PlaceBuilding, Adding
    <3> QED
      BY <3>3, AddKeeps, Zenon
  <2>3. CASE ~(Saved(a) /\ find_factory(a) /\ can_place)
    <3>1. Given("PlaceBuilding", <<>>, {}, FALSE)
      BY <1>8, <2>3 DEF PlaceBuilding
    <3> QED
      BY <2>1, <3>1, GivenKeeps
  <2> QED
    BY <2>2, <2>3
<1> QED
  BY <1>1, <1>2, <1>3, <1>4, <1>5, <1>6, <1>7, <1>8, ReadKeeps DEF Commands

(* A save keeps the invariant. *)
LEMMA SavePreserves ==
  ASSUME CInv, SaveState, last' = NoCommand, UNCHANGED added
  PROVE  CInv'
<1>1. FrameInv'
  BY DEF CInv, FrameInv, SaveState, fixed
<1>2. RingInv'
  BY DEF CInv, RingInv, SaveState, gameVars
<1>3. LastInv'
  BY DEF LastInv, ActsOnSaved, OrdersReachTechnos, PlacedCompleted, EventsScheduled, FilterRight,
         NoCommand, BlankEvent
<1> QED
  BY <1>1, <1>2, <1>3, MapSaved, ObjectsSaved, TypesSaved, EventsSaved, BufferSaved DEF CInv

(* The invariant holds at the start. *)
LEMMA StartHolds ==
  ASSUME Init
  PROVE  CInv
<1>i. /\ part \in Parts /\ frame = 0 /\ phase = "game" /\ technos = Standing
      /\ cells = [c \in Valid |-> CHOOSE v \in CellValues : TRUE]
      /\ lists = [l \in Lists |-> EmptyRing] /\ players \in HouseLists[part]
      /\ map_data = <<>> /\ previous = <<>> /\ difference = {}
      /\ objects = <<>> /\ facts = <<>> /\ known = {}
      /\ buffer = [lists |-> <<>>, frame |-> <<>>]
      /\ types = [state |-> {}, initial |-> {}, copied |-> FALSE]
      /\ replayed = [i \in 0..Width * Height - 1 |-> BlankCell]
      /\ added = 0 /\ last = NoCommand
  BY DEF Init, GameInit
<1>1. FrameInv
  <2>1. interval \in Nat \ {0}
    <3>1. Intervals \subseteq Nat \ {0}
      BY StateAssumption
    <3>2. interval \in Intervals \/ interval = 1
      BY DEF Init, GameInit
    <3>3. CASE interval \in Intervals
      BY <3>1, <3>3
    <3>4. CASE interval = 1
      BY <3>4
    <3> QED
      BY <3>2, <3>3, <3>4
  <2> QED
    BY <1>i, <2>1 DEF FrameInv
<1>2. MapInv
  <2>1. cells \in [Valid -> CellValues]
    <3>1. (CHOOSE v \in CellValues : TRUE) \in CellValues
      BY StateAssumption, Zenon
    <3> QED
      BY <1>i, <3>1
  <2>2. replayed \in [Indices -> Cells]
    BY <1>i DEF Indices, Cells, BlankCell
  <2>3. ~Mapped
    BY <1>i DEF Mapped
  <2>4. MapTypes
    BY <1>i, <2>1, <2>2, <2>3 DEF MapTypes
  <2>5. CellsKnown /\ DifferencesRepeat
    BY <1>i, <2>3 DEF CellsKnown, DifferencesRepeat
  <2>6. CellsParsed
    BY <1>i, <1>1 DEF CellsParsed, FrameInv
  <2>7. ReadInv
    BY <1>i DEF ReadInv, NoCommand
  <2> QED
    BY <2>4, <2>5, <2>6, <2>7 DEF MapInv
<1>e. IsSeq(<<>>)
  <2>1. <<>> \in Seq({})
    OBVIOUS
  <2> QED
    BY <2>1, SeqOfSome
<1>f. Fresh
  BY <1>i DEF Fresh
<1>3. ObjectInv
  <2>1. IsSeq(technos)
    BY <1>i, StateAssumption DEF IsSeq
  <2>2. ObjectsMirrored
    BY <1>i DEF ObjectsMirrored
  <2> QED
    BY <1>i, <1>e, <1>f, <2>1, <2>2 DEF ObjectInv
<1>4. TypeClassInv
  BY <1>i, <1>f DEF TypeClassInv, TypesKept
<1>5. RingInv
  <2>1. EmptyRing \in Rings
    BY BlankIs, RingPositive DEF EmptyRing, Rings
  <2> QED
    BY <1>i, <2>1 DEF RingInv
<1>6. EventsMirrored
  BY <1>i DEF EventsMirrored
<1>7. BufferInv
  <2>1. BufferAligned
    BY <1>i, SizesPositive DEF BufferAligned
  <2> QED
    BY <1>i, <1>e, <1>f, <2>1 DEF BufferInv
<1>8. LastInv
  BY <1>i DEF LastInv, ActsOnSaved, OrdersReachTechnos, PlacedCompleted, EventsScheduled, FilterRight,
              NoCommand, BlankEvent
<1> QED
  BY <1>1, <1>2, <1>3, <1>4, <1>5, <1>6, <1>7, <1>8 DEF CInv

-----------------------------------------------------------------------------
(* Theorems *)

(* The inductive invariant holds throughout: frames, game, commands and      *)
(* CBSaveState keep it.                                                      *)
THEOREM GameInvariant == Spec => []CInv
<1>1. Init => CInv
  BY StartHolds
<1>2. CInv /\ [Next]_vars => CInv'
  <2> SUFFICES ASSUME CInv, [Next]_vars
               PROVE  CInv'
    OBVIOUS
  <2>1. CASE GameSteps /\ UNCHANGED <<added, last>>
    BY <2>1, GamePreserves
  <2>2. CASE SaveState /\ last' = NoCommand /\ UNCHANGED added
    BY <2>2, SavePreserves
  <2>3. CASE Commands
    BY <2>3, CommandsPreserve
  <2>4. CASE UNCHANGED vars
    <3>i. /\ FrameInv /\ ObjectInv /\ RingInv /\ ReadInv /\ LastInv /\ cells \in [Valid -> CellValues]
      BY DEF CInv, MapInv, MapTypes
    <3>u. /\ UNCHANGED <<fixed, frame, parsedVars>> /\ phase' = phase /\ UNCHANGED gameVars
          /\ added' = added /\ last' = last /\ cells' = cells /\ technos' = technos /\ lists' = lists
          /\ players' = players /\ frame' = frame /\ map_data' = map_data /\ objects' = objects
          /\ facts' = facts /\ known' = known
      BY <2>4 DEF vars, gameVars, parsedVars, mapVars, fixed
    <3>1. RingInv' /\ ReadInv'
      BY <3>i, <3>u DEF RingInv, ReadInv, convert_map_data
    <3>2. ActsOnSaved'
      BY <3>i, <3>u DEF LastInv, ActsOnSaved, OrdersReachTechnos, PlacedCompleted, Listed
    <3>3. EventsScheduled' /\ FilterRight'
      BY <3>i, <3>u DEF LastInv, EventsScheduled, FilterRight
    <3>4. LastInv'
      BY <3>i, <3>u, <3>2, <3>3 DEF LastInv
    <3>5. IsSeq(technos') /\ cells' \in [Valid -> CellValues] /\ phase' \in {"game", "hook", "saved"}
      BY <3>i, <3>u DEF ObjectInv, FrameInv
    <3> QED
      BY <3>u, <3>1, <3>4, <3>5, StepKeeps
  <2> QED
    BY <2>1, <2>2, <2>3, <2>4 DEF Next
<1> QED
  BY <1>1, <1>2, PTL DEF Spec

(* What is known of the cells is what MapKnown says of the map. *)
LEMMA MapFollows ==
  ASSUME CInv
  PROVE  MapKnown
<1>i. /\ FrameInv /\ CellsKnown /\ CellsParsed /\ ReadInv
      /\ cells \in [Valid -> CellValues] /\ (Mapped => map_data \in [Indices -> Cells])
  BY DEF CInv, MapInv, MapTypes
<1>f. frame \in Nat /\ interval \in Nat /\ interval > 0
  BY <1>i DEF FrameInv
<1>k. ASSUME NEW c \in Valid
      PROVE  \E k \in 1..NumCells : ValidCells[k] = c /\ Idx(k) = CellIndex(c)
  BY CellsListed DEF Idx
<1>1. ASSUME phase = "saved", frame > 0, frame % interval = 0, NEW c \in Valid
      PROVE  /\ map_data[CellIndex(c)] = [index |-> CellIndex(c), v |-> cells[c]]
             /\ replayed[CellIndex(c)].v = cells[c]
  <2>1. PICK k \in 1..NumCells : ValidCells[k] = c /\ Idx(k) = CellIndex(c)
    BY <1>k
  <2>2. Mapped
    BY <1>f, <1>1 DEF Mapped
  <2>3. previous[k] = parse_Cell(k)
    BY <1>i, <1>1 DEF CellsParsed
  <2>4. parse_Cell(k) # BlankCell
    BY <1>i, ParsedCell
  <2>5. parse_Cell(k) = [index |-> CellIndex(c), v |-> cells[c]]
    BY <2>1 DEF parse_Cell
  <2>6. map_data[Idx(k)] = parse_Cell(k) /\ replayed[Idx(k)] = parse_Cell(k)
    BY <1>i, <2>2, <2>3, <2>4 DEF CellsKnown
  <2> QED
    BY <2>1, <2>5, <2>6
<1>2. ASSUME last.cmd = "ReadValue", frame > interval, NEW c \in Valid
      PROVE  last.read[CellIndex(c)] = replayed[CellIndex(c)].v
  <2>1. PICK k \in 1..NumCells : ValidCells[k] = c /\ Idx(k) = CellIndex(c)
    BY <1>k
  <2>2. Mapped
    BY <1>f, <1>2 DEF Mapped
  <2>3. previous[k] # BlankCell
    BY <1>i, <1>2 DEF CellsParsed
  <2>4. map_data[Idx(k)] = previous[k] /\ replayed[Idx(k)] = previous[k]
    BY <1>i, <2>2, <2>3 DEF CellsKnown
  <2>5. Idx(k) \in DOMAIN map_data
    <3>1. Idx(k) \in Indices
      BY CellsListed
    <3> QED
      BY <1>i, <2>2, <3>1
  <2>6. last.read[Idx(k)] = map_data[Idx(k)].v
    BY <1>i, <1>2, <2>5 DEF ReadInv, convert_map_data
  <2> QED
    BY <2>1, <2>4, <2>6
<1> QED
  BY <1>1, <1>2 DEF MapKnown, MapCurrent, ReplayExact, ReadAgrees

(* parse_map compares chunks of cells with those of the last parsed frame,   *)
(* stores the differences and applies them to map_data, and a state that     *)
(* parses no cells repeats the last differences: for every map, chunk size   *)
(* and interval, a client that reads the map and one that replays the record *)
(* have the game's map.                                                      *)
THEOREM GameMapKnown == Spec => []MapKnown
<1>1. CInv => MapKnown
  BY MapFollows
<1> QED
  BY <1>1, GameInvariant, PTL

(* The messages that CBSaveState reuses from frame to frame mirror the       *)
(* technos, factories and types of the game, however many come and go.       *)
THEOREM GameStateMirrored == Spec => []StateMirrored
<1>1. CInv => StateMirrored
  BY DEF CInv, ObjectInv, TypeClassInv, StateMirrored
<1> QED
  BY <1>1, GameInvariant, PTL

(* The parsed event lists are the game's rings, and the event buffer holds   *)
(* the last frames without a gap.                                            *)
THEOREM GameEventsKept == Spec => []EventsKept
<1>1. CInv => EventsKept
  BY DEF CInv, BufferInv, EventsKept
<1> QED
  BY <1>1, GameInvariant, PTL

(* Orders reach only what the saved state lists, and only what a factory of  *)
(* the player has completed is placed.                                       *)
THEOREM GameActsOnSaved == Spec => []ActsOnSaved
<1>1. CInv => ActsOnSaved
  BY DEF CInv, LastInv
<1> QED
  BY <1>1, GameInvariant, PTL

(* add_event schedules for the frame that the network expects, and its       *)
(* filter refuses an event exactly when one of the lists has it.             *)
THEOREM GameEventsRight == Spec => []EventsRight
<1>1. CInv => EventsRight
  BY DEF CInv, LastInv, EventsRight
<1> QED
  BY <1>1, GameInvariant, PTL
=============================================================================
