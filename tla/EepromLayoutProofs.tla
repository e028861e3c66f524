-------------------------- MODULE EepromLayoutProofs --------------------------
(***************************************************************************)
(* Proofs about EepromLayout, for every layout with the source's order of  *)
(* regions, and for texts of every length.  What a region holds of a text  *)
(* is stated byte by byte: reading it back is a lemma about the first zero.*)
(***************************************************************************)
EXTENDS EepromLayout, LeastNumbers, SequenceTheorems

-----------------------------------------------------------------------------
(* Reading up to the first zero *)

LEMMA FirstZero ==
    ASSUME NEW S, NEW s \in Seq(S), NEW k \in 1 .. Len(s), s[k] = Nul,
           \A i \in 1 .. k - 1 : s[i] # Nul
    PROVE  UpToNul(s) = SubSeq(s, 1, k - 1)
  <1> DEFINE zeros == {i \in DOMAIN s : s[i] = Nul}
  <1>1. k \in zeros /\ zeros \subseteq Nat /\ \A i \in zeros : k <= i
    OBVIOUS
  <1>2. Min(zeros) \in zeros /\ Min(zeros) <= k
    BY <1>1, MinProperties
  <1>3. Min(zeros) = k
    BY <1>1, <1>2
  <1> QED  BY <1>1, <1>3 DEF UpToNul

LEMMA NoZero ==
    ASSUME NEW S, NEW s \in Seq(S), \A i \in 1 .. Len(s) : s[i] # Nul
    PROVE  UpToNul(s) = s
  BY DEF UpToNul

(* A sequence that starts with a text, and has a zero after it, reads like *)
(* the text.                                                               *)
LEMMA ReadsAlike ==
    ASSUME NEW S, NEW a \in Seq(S), NEW b \in Seq(S), Len(b) <= Len(a),
           \A i \in 1 .. Len(b) : a[i] = b[i],
           Len(b) < Len(a) => a[Len(b) + 1] = Nul
    PROVE  UpToNul(a) = UpToNul(b)
  <1> DEFINE zeros == {i \in 1 .. Len(b) : b[i] = Nul}
  <1>1. CASE zeros = {}
    <2>1. UpToNul(b) = b
      BY <1>1, NoZero
    <2>2. CASE Len(b) = Len(a)
      BY <2>1, <2>2
    <2>3. CASE Len(b) < Len(a)
      <3>1. UpToNul(a) = SubSeq(a, 1, (Len(b) + 1) - 1)
        BY <1>1, <2>3, FirstZero
      <3>2. SubSeq(a, 1, Len(b)) = b
        BY <2>3
      <3> QED  BY <2>1, <3>1, <3>2
    <2> QED  BY <2>2, <2>3
  <1>2. CASE zeros # {}
    <2>1. zeros \subseteq Nat
      OBVIOUS
    <2>2. PICK k \in zeros : \A i \in zeros : k <= i
      BY <1>2, <2>1, LeastNatural
    <2>3. UpToNul(b) = SubSeq(b, 1, k - 1)
      BY <2>2, FirstZero
    <2>4. UpToNul(a) = SubSeq(a, 1, k - 1)
      <3>1. k \in 1 .. Len(a) /\ a[k] = Nul
        BY <2>2
      <3>2. \A i \in 1 .. k - 1 : a[i] # Nul
        BY <2>2
      <3> QED  BY <3>1, <3>2, FirstZero
    <2>5. SubSeq(a, 1, k - 1) = SubSeq(b, 1, k - 1)
      BY <2>2
    <2> QED  BY <2>3, <2>4, <2>5
  <1> QED  BY <1>1, <1>2

-----------------------------------------------------------------------------
(* The layout *)

LEMMA FieldNames ==
    /\ {"ssid", "pass", "fbhost", "fbauth", "mode", "name", "interval", "humidLower",
        "humidHigher", "tempLower", "tempHigher", "email", "isSend"} = Fields
    /\ KeptFields \subseteq Fields
    /\ SourceStart["email"] < SourceStart["isSend"]
    /\ \A f \in Fields \ {"email", "isSend"} : SourceStart[f] < SourceStart["email"]
    /\ \A f, g \in Fields : SourceStart[f] \in Nat /\ (SourceStart[f] = SourceStart[g] => f = g)
  BY DEF Fields, KeptFields, NotifyField, NumericField, SourceStart

LEMMA RegionProperties ==
    /\ \A f \in Fields : Start[f] \in Nat /\ Size[f] \in Nat /\ Size[f] >= 1
    /\ \A f, g \in Fields : f # g => \/ Start[f] + Size[f] <= Start[g]
                                     \/ Start[g] + Size[g] <= Start[f]
    /\ \A f \in Fields \ {"email", "isSend"} : Start[f] + Size[f] <= Start["email"]
    /\ Start["email"] + Size["email"] <= Start["isSend"]
    /\ \A f \in Fields : Start[f] + Size[f] <= EepromSize
    /\ Start["email"] < ClearEnd /\ ClearEnd < Start["isSend"]
    /\ EepromSize \in Nat /\ ClearEnd \in Nat /\ UidSize \in Nat
  <1>1. /\ \A f \in Fields : Start[f] \in Nat /\ Size[f] \in Nat /\ Size[f] >= 1
        /\ EepromSize \in Nat /\ UidSize \in Nat
        /\ Start["isSend"] + Size["isSend"] <= EepromSize
        /\ Start["email"] < ClearEnd /\ ClearEnd < Start["isSend"]
    BY LayoutAssumption, FieldNames
  <1>2. ClearEnd \in Nat
    BY <1>1, LayoutAssumption, FieldNames
  <1>3. \A f, g \in Fields : SourceStart[f] < SourceStart[g] => Start[f] + Size[f] <= Start[g]
    BY LayoutAssumption
  <1>4. \A f, g \in Fields : f # g => SourceStart[f] < SourceStart[g] \/ SourceStart[g] < SourceStart[f]
    BY FieldNames
  <1>5. \A f, g \in Fields : f # g => \/ Start[f] + Size[f] <= Start[g]
                                      \/ Start[g] + Size[g] <= Start[f]
    BY <1>3, <1>4
  <1>6. \A f \in Fields \ {"email", "isSend"} : Start[f] + Size[f] <= Start["email"]
    BY <1>3, FieldNames
  <1>7. Start["email"] + Size["email"] <= Start["isSend"]
    BY <1>3, FieldNames
  <1> DEFINE End(f) == Start[f] + Size[f]
  <1>8. \A f \in Fields : End(f) <= EepromSize
    <2>1. \A f \in Fields : Start[f] \in Nat /\ End(f) \in Nat /\ End(f) >= Start[f]
      BY <1>1
    <2>2. {"email", "isSend"} \subseteq Fields /\ EepromSize \in Nat
      BY <1>1, FieldNames
    <2>3. End("isSend") <= EepromSize /\ End("email") <= Start["isSend"]
      BY <1>1, <1>7
    <2>4. \A f \in Fields \ {"email", "isSend"} : End(f) <= Start["email"]
      BY <1>6
    <2> HIDE DEF End
    <2>5. End("email") <= EepromSize
      BY <2>1, <2>2, <2>3
    <2> QED  BY <2>1, <2>2, <2>3, <2>4, <2>5
  <1> QED  BY <1>1, <1>2, <1>5, <1>6, <1>7, <1>8

-----------------------------------------------------------------------------
(* Texts and bytes *)

Addresses == 0 .. EepromSize - 1
Characters == {Nul, Erased} \cup {<<t, i>> : t \in Texts, i \in Nat \ {0}}

(* What may be written: the characters that can reach the EEPROM are bytes. *)
Writings == {s \in Seq(Characters) : \A i \in 1 .. Len(s) : i <= EepromSize => s[i] \in Cells}

Memories ==
    [cells : [Addresses -> Cells], given : [Fields -> Writings], spoiled : SUBSET Fields,
     old : SUBSET Addresses, fits : BOOLEAN]

LEMMA CellsAreCharacters == Cells \subseteq Characters
  BY DEF Cells, Characters

LEMMA WritingType ==
    ASSUME NEW s \in Writings
    PROVE  /\ s \in Seq(Characters) /\ Len(s) \in Nat
           /\ \A i \in 1 .. Len(s) : i <= EepromSize => s[i] \in Cells
  BY DEF Writings

LEMMA SpelledType ==
    ASSUME NEW t \in Texts
    PROVE  /\ Spelled(t) \in Writings /\ Len(Spelled(t)) = Length[t]
           /\ \A i \in 1 .. Length[t] : Spelled(t)[i] = <<t, i>>
  <1>1. Length[t] \in Nat
    BY LayoutAssumption
  <1>2. \A i \in 1 .. Length[t] : <<t, i>> \in Characters
    BY DEF Characters
  <1>3. Spelled(t) \in Seq(Characters) /\ Len(Spelled(t)) = Length[t]
    BY <1>1, <1>2 DEF Spelled
  <1>4. \A i \in 1 .. Length[t] : Spelled(t)[i] = <<t, i>>
    BY DEF Spelled
  <1>5. \A i \in 1 .. Length[t] : i <= EepromSize => <<t, i>> \in Cells
    <2>1. EepromSize \in Nat
      BY RegionProperties
    <2> QED  BY <1>1, <2>1 DEF Cells
  <1> QED  BY <1>3, <1>4, <1>5 DEF Writings

LEMMA EmptyType == <<>> \in Writings /\ Len(<<>>) = 0
  <1>1. <<>> \in Seq(Characters) /\ Len(<<>>) = 0
    OBVIOUS
  <1> QED  BY <1>1 DEF Writings

(* How a text stands in a region: the rest of the region is zero, or, where *)
(* the end of the region may be left from the previous owner, the next byte. *)
Placed(cells, f, s) ==
    \A i \in 1 .. Size[f] : cells[Start[f] + i - 1] = IF i <= Len(s) THEN s[i] ELSE Nul
Begun(cells, f, s) ==
    \A i \in 1 .. Size[f] :
        /\ i <= Len(s) => cells[Start[f] + i - 1] = s[i]
        /\ i = Len(s) + 1 => cells[Start[f] + i - 1] = Nul
Stands(cells, f, s) == IF f = "email" THEN Begun(cells, f, s) ELSE Placed(cells, f, s)

LEMMA PlacedIsBegun ==
    ASSUME NEW cells, NEW f \in Fields, NEW s \in Writings, Placed(cells, f, s)
    PROVE  Begun(cells, f, s) /\ Stands(cells, f, s)
  <1>1. Len(s) \in Nat /\ Size[f] \in Nat
    BY WritingType, RegionProperties
  <1>2. Begun(cells, f, s)
    BY <1>1 DEF Placed, Begun
  <1> QED  BY <1>2 DEF Stands

LEMMA RawType ==
    ASSUME NEW cells \in [Addresses -> Cells], NEW f \in Fields
    PROVE  /\ Raw(cells, f) \in Seq(Cells) /\ Raw(cells, f) \in Writings
           /\ Len(Raw(cells, f)) = Size[f]
           /\ \A i \in 1 .. Size[f] : Raw(cells, f)[i] = cells[Start[f] + i - 1]
  <1>1. /\ Start[f] \in Nat /\ Size[f] \in Nat /\ EepromSize \in Nat
        /\ Start[f] + Size[f] <= EepromSize
    BY RegionProperties
  <1>2. \A i \in 1 .. Size[f] : Start[f] + i - 1 \in Addresses
    BY <1>1 DEF Addresses
  <1>3. \A i \in 1 .. Size[f] : cells[Start[f] + i - 1] \in Cells
    BY <1>2
  <1>4. Raw(cells, f) \in Seq(Cells) /\ Len(Raw(cells, f)) = Size[f]
    BY <1>1, <1>3 DEF Raw
  <1>5. \A i \in 1 .. Size[f] : Raw(cells, f)[i] = cells[Start[f] + i - 1]
    BY DEF Raw
  <1>6. Raw(cells, f) \in Writings
    <2> DEFINE raw == Raw(cells, f)
    <2> HIDE DEF raw
    <2>1. raw \in Seq(Cells) /\ \A i \in 1 .. Len(raw) : raw[i] \in Cells
      BY <1>4 DEF raw
    <2>2. raw \in Seq(Characters)
      BY <2>1, CellsAreCharacters
    <2>3. raw \in Writings
      BY <2>1, <2>2 DEF Writings
    <2> QED  BY <2>3 DEF raw
  <1> QED  BY <1>4, <1>5, <1>6

(* A text that stands in its region reads back, as far as the region goes.  *)
LEMMA BegunReadsBack ==
    ASSUME NEW cells \in [Addresses -> Cells], NEW f \in Fields, NEW s \in Writings,
           Begun(cells, f, s)
    PROVE  Reads(cells, f) = AsRead(f, s)
  <1> DEFINE raw == Raw(cells, f)
             n == IF Len(s) < Size[f] THEN Len(s) ELSE Size[f]
             start == SubSeq(s, 1, n)
  <1>1. /\ Len(s) \in Nat /\ Size[f] \in Nat /\ s \in Seq(Characters)
        /\ Start[f] \in Nat
    BY WritingType, RegionProperties
  <1>2. raw \in Seq(Characters) /\ Len(raw) = Size[f]
    <2>1. raw \in Writings /\ Len(raw) = Size[f]
      BY RawType
    <2> HIDE DEF raw
    <2> QED  BY <2>1, WritingType
  <1>3. n \in Nat /\ n <= Len(s) /\ n <= Size[f] /\ (n < Size[f] => n = Len(s))
    BY <1>1
  <1>4. \A i \in 1 .. Size[f] : raw[i] = cells[Start[f] + i - 1]
    BY RawType
  <1>5. \A i \in 1 .. n : raw[i] = s[i]
    BY <1>1, <1>3, <1>4 DEF Begun
  <1>6. n < Size[f] => raw[n + 1] = Nul
    <2> SUFFICES ASSUME n < Size[f] PROVE raw[n + 1] = Nul
      OBVIOUS
    <2>1. n = Len(s) /\ n + 1 \in 1 .. Size[f]
      BY <1>1, <1>3
    <2>2. cells[Start[f] + (n + 1) - 1] = Nul
      BY <2>1 DEF Begun
    <2>3. raw[n + 1] = cells[Start[f] + (n + 1) - 1]
      BY <1>4, <2>1
    <2> QED  BY <2>2, <2>3
  <1> HIDE DEF raw, n
  <1>7. start \in Seq(Characters) /\ Len(start) = n /\ \A i \in 1 .. n : start[i] = s[i]
    BY <1>1, <1>3
  <1> HIDE DEF start
  <1>8. UpToNul(raw) = UpToNul(start)
    BY <1>2, <1>3, <1>5, <1>6, <1>7, ReadsAlike
  <1> QED  BY <1>8 DEF Reads, AsRead, raw, start, n

LEMMA StandsReadsBack ==
    ASSUME NEW cells \in [Addresses -> Cells], NEW f \in Fields, NEW s \in Writings,
           Stands(cells, f, s)
    PROVE  Reads(cells, f) = AsRead(f, s)
  <1>1. Begun(cells, f, s)
    BY PlacedIsBegun DEF Stands
  <1> QED  BY <1>1, BegunReadsBack

-----------------------------------------------------------------------------
(* Writing *)

LEMMA CopiedProperties ==
    ASSUME NEW cells \in [Addresses -> Cells], NEW at \in Nat, NEW s \in Writings
    PROVE  /\ Copied(cells, at, s) \in [Addresses -> Cells]
           /\ \A c \in Addresses :
                Copied(cells, at, s)[c] = IF c \in Span(at, s) THEN s[c - at + 1] ELSE cells[c]
  <1>1. Len(s) \in Nat /\ EepromSize \in Nat
    BY WritingType, RegionProperties
  <1>2. \A c \in Addresses : c \in Span(at, s) => s[c - at + 1] \in Cells
    <2> SUFFICES ASSUME NEW c \in Addresses, c \in Span(at, s) PROVE s[c - at + 1] \in Cells
      OBVIOUS
    <2>1. c - at + 1 \in 1 .. Len(s) /\ c - at + 1 <= EepromSize
      BY <1>1 DEF Addresses, Span
    <2> QED  BY <2>1, WritingType
  <1>3. DOMAIN cells = Addresses
    OBVIOUS
  <1>4. Copied(cells, at, s) =
          [c \in Addresses |-> IF c \in Span(at, s) THEN s[c - at + 1] ELSE cells[c]]
    BY <1>3 DEF Copied
  <1>5. \A c \in Addresses : (IF c \in Span(at, s) THEN s[c - at + 1] ELSE cells[c]) \in Cells
    BY <1>2
  <1> QED  BY <1>4, <1>5

LEMMA ClearedProperties ==
    ASSUME NEW cells \in [Addresses -> Cells], NEW where
    PROVE  /\ Cleared(cells, where) \in [Addresses -> Cells]
           /\ \A c \in Addresses :
                Cleared(cells, where)[c] = IF c \in where THEN Nul ELSE cells[c]
  <1>1. Nul \in Cells
    BY DEF Cells
  <1> QED  BY <1>1 DEF Cleared

LEMMA RegionBytes ==
    ASSUME NEW f \in Fields
    PROVE  /\ Region(f) \subseteq Addresses
           /\ \A i \in 1 .. Size[f] : Start[f] + i - 1 \in Region(f)
           /\ \A g \in Fields \ {f} : Region(f) \cap Region(g) = {}
  <1>1. /\ Start[f] \in Nat /\ Size[f] \in Nat /\ EepromSize \in Nat
        /\ Start[f] + Size[f] <= EepromSize
    BY RegionProperties
  <1>2. Region(f) \subseteq Addresses /\ \A i \in 1 .. Size[f] : Start[f] + i - 1 \in Region(f)
    BY <1>1 DEF Region, Addresses
  <1>3. ASSUME NEW g \in Fields \ {f} PROVE Region(f) \cap Region(g) = {}
    <2>1. Start[g] \in Nat /\ Size[g] \in Nat
      BY RegionProperties
    <2>2. Start[f] + Size[f] <= Start[g] \/ Start[g] + Size[g] <= Start[f]
      BY RegionProperties
    <2> QED  BY <1>1, <2>1, <2>2 DEF Region
  <1> QED  BY <1>2, <1>3

(* A text stands where nothing was written. *)
LEMMA Untouched ==
    ASSUME NEW cells, NEW new, NEW f \in Fields, NEW s,
           \A c \in Region(f) : new[c] = cells[c]
    PROVE  /\ Placed(cells, f, s) => Placed(new, f, s)
           /\ Stands(cells, f, s) => Stands(new, f, s)
  <1>1. \A i \in 1 .. Size[f] : new[Start[f] + i - 1] = cells[Start[f] + i - 1]
    BY RegionBytes
  <1>2. Placed(cells, f, s) => Placed(new, f, s)
    BY <1>1, Zenon DEF Placed
  <1>3. Begun(cells, f, s) => Begun(new, f, s)
    BY <1>1, Zenon DEF Begun
  <1> QED  BY <1>2, <1>3 DEF Stands

(* A text copied over zeros, or over a text that is not longer. *)
LEMMA CopiedIsPlaced ==
    ASSUME NEW cells \in [Addresses -> Cells], NEW f \in Fields, NEW s \in Writings,
           \A i \in 1 .. Size[f] : i > Len(s) => cells[Start[f] + i - 1] = Nul
    PROVE  Placed(Copied(cells, Start[f], s), f, s)
  <1>1. Start[f] \in Nat /\ Size[f] \in Nat /\ Len(s) \in Nat
    BY RegionProperties, WritingType
  <1> DEFINE new == Copied(cells, Start[f], s)
  <1>2. \A c \in Addresses : new[c] = IF c \in Span(Start[f], s) THEN s[c - Start[f] + 1] ELSE cells[c]
    BY <1>1, CopiedProperties
  <1> HIDE DEF new
  <1>3. ASSUME NEW i \in 1 .. Size[f]
        PROVE  new[Start[f] + i - 1] = IF i <= Len(s) THEN s[i] ELSE Nul
    <2>1. PICK c \in Addresses : c = Start[f] + i - 1
      BY RegionBytes
    <2>2. c \in Span(Start[f], s) <=> i <= Len(s)
      BY <1>1, <2>1 DEF Span
    <2>3. c - Start[f] + 1 = i
      BY <1>1, <2>1
    <2>4. i > Len(s) <=> ~(i <= Len(s))
      BY <1>1
    <2>5. new[c] = IF c \in Span(Start[f], s) THEN s[i] ELSE cells[c]
      BY <1>2, <2>3
    <2> QED  BY <2>1, <2>2, <2>4, <2>5
  <1> QED  BY <1>3 DEF Placed, new

(* What is known of the memory after every request and commit: a text that *)
(* nothing ran into stands in its region.                                  *)
KeptBut(m, g) == \A f \in Fields \ (m.spoiled \cup {g}) : Stands(m.cells, f, m.given[f])
Kept(m) == \A f \in Fields \ m.spoiled : Stands(m.cells, f, m.given[f])

LEMMA MemoryType ==
    ASSUME NEW m \in Memories
    PROVE  /\ m.cells \in [Addresses -> Cells] /\ m.given \in [Fields -> Writings]
           /\ m.spoiled \subseteq Fields /\ m.old \subseteq Addresses /\ m.fits \in BOOLEAN
  BY DEF Memories

LEMMA MemoryMade ==
    ASSUME NEW cells \in [Addresses -> Cells], NEW given \in [Fields -> Writings],
           NEW spoiled \in SUBSET Fields, NEW old \in SUBSET Addresses, NEW fits \in BOOLEAN
    PROVE  [cells |-> cells, given |-> given, spoiled |-> spoiled, old |-> old, fits |-> fits]
             \in Memories
  BY DEF Memories

LEMMA MemoryChanged ==
    ASSUME NEW m \in Memories, NEW cells, NEW spoiled, NEW old
    PROVE  [m EXCEPT !.cells = cells, !.spoiled = spoiled, !.old = old] =
             [cells |-> cells, given |-> m.given, spoiled |-> spoiled, old |-> old,
              fits |-> m.fits]
  <1> DEFINE c1 == [m EXCEPT !.cells = cells]
             s2 == [c1 EXCEPT !.spoiled = spoiled]
             o3 == [s2 EXCEPT !.old = old]
  <1>1. c1 = [cells |-> cells, given |-> m.given, spoiled |-> m.spoiled, old |-> m.old,
              fits |-> m.fits]
    BY DEF Memories
  <1> HIDE DEF c1
  <1>2. s2 = [cells |-> cells, given |-> m.given, spoiled |-> spoiled, old |-> m.old,
              fits |-> m.fits]
    BY <1>1
  <1> HIDE DEF s2
  <1>3. o3 = [cells |-> cells, given |-> m.given, spoiled |-> spoiled, old |-> old,
              fits |-> m.fits]
    BY <1>2
  <1>4. [m EXCEPT !.cells = cells, !.spoiled = spoiled, !.old = old] = o3
    BY DEF c1, s2
  <1> HIDE DEF o3
  <1> QED  BY <1>3, <1>4, Zenon

LEMMA MemoryGiven ==
    ASSUME NEW m \in Memories, NEW cells, NEW given, NEW spoiled, NEW old
    PROVE  [m EXCEPT !.cells = cells, !.given = given, !.spoiled = spoiled, !.old = old] =
             [cells |-> cells, given |-> given, spoiled |-> spoiled, old |-> old,
              fits |-> m.fits]
  <1> DEFINE g1 == [m EXCEPT !.given = given]
  <1>1. g1 = [cells |-> m.cells, given |-> given, spoiled |-> m.spoiled, old |-> m.old,
              fits |-> m.fits]
    BY DEF Memories
  <1> HIDE DEF g1
  <1> DEFINE c2 == [g1 EXCEPT !.cells = cells]
             s3 == [c2 EXCEPT !.spoiled = spoiled]
             o4 == [s3 EXCEPT !.old = old]
  <1>2. c2 = [cells |-> cells, given |-> given, spoiled |-> m.spoiled, old |-> m.old,
              fits |-> m.fits]
    BY <1>1
  <1> HIDE DEF c2
  <1>3. s3 = [cells |-> cells, given |-> given, spoiled |-> spoiled, old |-> m.old,
              fits |-> m.fits]
    BY <1>2
  <1> HIDE DEF s3
  <1>4. o4 = [cells |-> cells, given |-> given, spoiled |-> spoiled, old |-> old,
              fits |-> m.fits]
    BY <1>3
  <1>5. [m EXCEPT !.cells = cells, !.given = given, !.spoiled = spoiled, !.old = old] = o4
    BY DEF g1, c2, s3
  <1> HIDE DEF o4
  <1> QED  BY <1>4, <1>5, Zenon

(* A text copied into its region leaves every region it does not run into. *)
LEMMA CopyKeeps ==
    ASSUME NEW m \in Memories, NEW f \in Fields, NEW s \in Writings, KeptBut(m, f),
           f \notin m.spoiled =>
               \A i \in 1 .. Size[f] : i > Len(s) => m.cells[Start[f] + i - 1] = Nul
    PROVE  /\ CopyField(m, f, s) \in Memories
           /\ Kept(CopyField(m, f, s))
           /\ f \notin m.spoiled => Placed(CopyField(m, f, s).cells, f, s)
           /\ \A g \in Fields \ {f} : \A t :
                Region(g) \cap Span(Start[f], s) = {} /\ Placed(m.cells, g, t)
                    => Placed(CopyField(m, f, s).cells, g, t)
  <1> DEFINE new == Copied(m.cells, Start[f], s)
             given == [m.given EXCEPT ![f] = s]
             spoiled == m.spoiled \cup Hit(f, s)
             old == m.old \ Span(Start[f], s)
             fits == m.fits /\ Len(s) <= Size[f]
  <1>1. CopyField(m, f, s) =
          [cells |-> new, given |-> given, spoiled |-> spoiled, old |-> old, fits |-> fits]
    BY Zenon DEF CopyField
  <1>2. Start[f] \in Nat /\ m.cells \in [Addresses -> Cells] /\ m.given \in [Fields -> Writings]
    BY RegionProperties, MemoryType
  <1>3. /\ new \in [Addresses -> Cells]
        /\ \A c \in Addresses : c \notin Span(Start[f], s) => new[c] = m.cells[c]
    BY <1>2, CopiedProperties
  <1>4. given \in [Fields -> Writings] /\ given[f] = s
        /\ \A g \in Fields \ {f} : given[g] = m.given[g]
    BY <1>2
  <1>5. spoiled \in SUBSET Fields /\ old \in SUBSET Addresses
    BY MemoryType DEF Hit
  <1>6. fits \in BOOLEAN
    BY Zenon
  <1>7. f \notin m.spoiled => Placed(new, f, s)
    BY <1>2, CopiedIsPlaced
  <1> HIDE DEF new, given, old, fits
  <1>8. CopyField(m, f, s) \in Memories
    BY <1>1, <1>3, <1>4, <1>5, <1>6, MemoryMade, Zenon
  <1>9. ASSUME NEW g \in Fields \ {f}, Region(g) \cap Span(Start[f], s) = {}
        PROVE  \A c \in Region(g) : new[c] = m.cells[c]
    BY <1>3, <1>9, RegionBytes
  <1>10. ASSUME NEW g \in Fields \ spoiled PROVE Stands(new, g, given[g])
    <2>1. CASE g = f
      BY <1>4, <1>7, <2>1, PlacedIsBegun
    <2>2. CASE g # f
      <3>1. Region(g) \cap Span(Start[f], s) = {} /\ g \notin m.spoiled
        BY <2>2 DEF Hit
      <3>2. Stands(m.cells, g, given[g])
        BY <1>4, <2>2, <3>1 DEF KeptBut
      <3> QED  BY <1>9, <2>2, <3>1, <3>2, Untouched
    <2> QED  BY <2>1, <2>2
  <1>11. \A g \in Fields \ {f} : \A t :
           Region(g) \cap Span(Start[f], s) = {} /\ Placed(m.cells, g, t) => Placed(new, g, t)
    BY <1>9, Untouched, Zenon
  <1>12. /\ CopyField(m, f, s).cells = new /\ CopyField(m, f, s).given = given
         /\ CopyField(m, f, s).spoiled = spoiled
    BY <1>1
  <1> HIDE DEF spoiled
  <1>13. Kept(CopyField(m, f, s))
    BY <1>10, <1>12 DEF Kept
  <1> QED  BY <1>7, <1>8, <1>11, <1>12, <1>13, Zenon

(* A write clears the region, and copies. *)
LEMMA ClearThenCopy ==
    ASSUME NEW m \in Memories, NEW f, NEW s
    PROVE  WriteField(m, f, s) =
             CopyField([cells |-> Cleared(m.cells, Region(f)), given |-> m.given,
                        spoiled |-> m.spoiled \ {f}, old |-> m.old \ Region(f),
                        fits |-> m.fits], f, s)
  <1> DEFINE c == [cells |-> Cleared(m.cells, Region(f)), given |-> m.given,
                   spoiled |-> m.spoiled \ {f}, old |-> m.old \ Region(f), fits |-> m.fits]
  <1>1. c = [m EXCEPT !.cells = Cleared(@, Region(f)), !.spoiled = @ \ {f}, !.old = @ \ Region(f)]
    <2>1. \A cells, spoiled, old :
            [m EXCEPT !.cells = cells, !.spoiled = spoiled, !.old = old] =
              [cells |-> cells, given |-> m.given, spoiled |-> spoiled, old |-> old,
               fits |-> m.fits]
      BY MemoryChanged
    <2> QED  BY <2>1, Zenon
  <1> QED  BY <1>1, Zenon DEF WriteField

(* A region that is cleared first takes any text. *)
LEMMA WriteKeeps ==
    ASSUME NEW m \in Memories, NEW f \in Fields, NEW s \in Writings, Kept(m)
    PROVE  /\ WriteField(m, f, s) \in Memories
           /\ Kept(WriteField(m, f, s))
           /\ Placed(WriteField(m, f, s).cells, f, s)
           /\ \A g \in Fields \ {f} : \A t :
                Region(g) \cap Span(Start[f], s) = {} /\ Placed(m.cells, g, t)
                    => Placed(WriteField(m, f, s).cells, g, t)
  <1> DEFINE new == Cleared(m.cells, Region(f))
             c == [cells |-> new, given |-> m.given, spoiled |-> m.spoiled \ {f},
                   old |-> m.old \ Region(f), fits |-> m.fits]
  <1>2. WriteField(m, f, s) = CopyField(c, f, s)
    BY ClearThenCopy
  <1>3. /\ m.cells \in [Addresses -> Cells] /\ m.given \in [Fields -> Writings]
        /\ m.spoiled \ {f} \in SUBSET Fields /\ m.old \ Region(f) \in SUBSET Addresses
        /\ m.fits \in BOOLEAN
    BY MemoryType
  <1>4. /\ new \in [Addresses -> Cells]
        /\ \A a \in Addresses : new[a] = IF a \in Region(f) THEN Nul ELSE m.cells[a]
    BY <1>3, ClearedProperties
  <1> HIDE DEF new
  <1>5. c \in Memories
    BY <1>3, <1>4, MemoryMade, Zenon
  <1>6. /\ c.cells = new /\ c.given = m.given /\ c.spoiled = m.spoiled \ {f}
    OBVIOUS
  <1> HIDE DEF c
  <1>7. ASSUME NEW g \in Fields \ {f} PROVE \A a \in Region(g) : new[a] = m.cells[a]
    <2>1. Region(g) \subseteq Addresses /\ Region(g) \cap Region(f) = {}
      BY RegionBytes
    <2> QED  BY <1>4, <2>1
  <1>8. KeptBut(c, f)
    <2> SUFFICES ASSUME NEW g \in Fields \ (c.spoiled \cup {f})
                 PROVE  Stands(c.cells, g, c.given[g])
      BY DEF KeptBut
    <2>1. Stands(m.cells, g, m.given[g])
      BY <1>6 DEF Kept
    <2> QED  BY <1>6, <1>7, <2>1, Untouched
  <1>9. \A i \in 1 .. Size[f] : c.cells[Start[f] + i - 1] = Nul
    BY <1>4, <1>6, RegionBytes
  <1>10. f \notin c.spoiled
    BY <1>6
  <1>11. /\ CopyField(c, f, s) \in Memories /\ Kept(CopyField(c, f, s))
         /\ Placed(CopyField(c, f, s).cells, f, s)
         /\ \A g \in Fields \ {f} : \A t :
              Region(g) \cap Span(Start[f], s) = {} /\ Placed(c.cells, g, t)
                  => Placed(CopyField(c, f, s).cells, g, t)
    BY <1>5, <1>8, <1>9, <1>10, CopyKeeps
  <1>12. \A g \in Fields \ {f} : \A t : Placed(m.cells, g, t) => Placed(c.cells, g, t)
    BY <1>6, <1>7, Untouched, Zenon
  <1> QED  BY <1>2, <1>11, <1>12, Zenon

-----------------------------------------------------------------------------
(* Requests *)

(* What is given as the mode is a text as a whole, or nothing: no text of a *)
(* mode hides behind a zero.                                                *)
Plain == {<<>>} \cup {Spelled(t) : t \in Texts}

(* What the owners before the last left lies beyond what is cleared, and an *)
(* address written since covers it.                                         *)
Parted(m) ==
    /\ m.old \subseteq ClearEnd .. EepromSize - 1
    /\ \/ "email" \in m.spoiled \/ m.given["email"] = <<>>
       \/ Region("email") \cap m.old = {}

Sound(m) == m \in Memories /\ Kept(m) /\ m.given["mode"] \in Plain /\ Parted(m)

LEMMA StaysParted ==
    ASSUME NEW m, NEW n, Parted(m), n.old \subseteq m.old, n.given["email"] = m.given["email"],
           "email" \in m.spoiled => "email" \in n.spoiled
    PROVE  Parted(n)
  BY DEF Parted

LEMMA CopyParted ==
    ASSUME NEW m \in Memories, Parted(m), NEW f \in Fields \ {"email"}, NEW s
    PROVE  Parted(CopyField(m, f, s))
  <1>1. m.given \in [Fields -> Writings] /\ "email" \in Fields
    BY MemoryType, FieldNames
  <1> DEFINE n == CopyField(m, f, s)
  <1>2. n.given = [m.given EXCEPT ![f] = s] /\ m.spoiled \subseteq n.spoiled /\ n.old \subseteq m.old
    <2>1. /\ n.given = [m.given EXCEPT ![f] = s] /\ n.spoiled = m.spoiled \cup Hit(f, s)
          /\ n.old = m.old \ Span(Start[f], s)
      BY DEF CopyField
    <2> HIDE DEF n
    <2> QED  BY <2>1
  <1> HIDE DEF n
  <1>3. n.given["email"] = m.given["email"]
    BY <1>1, <1>2
  <1>4. Parted(n)
    BY <1>2, <1>3, StaysParted
  <1> QED  BY <1>4 DEF n

LEMMA WriteSound ==
    ASSUME NEW m, Sound(m), NEW f \in Fields, NEW s \in Writings, f = "mode" => s \in Plain
    PROVE  Sound(WriteField(m, f, s))
  <1>1. m \in Memories /\ Kept(m) /\ m.given["mode"] \in Plain /\ Parted(m)
    BY DEF Sound
  <1>2. WriteField(m, f, s) \in Memories /\ Kept(WriteField(m, f, s))
    BY <1>1, WriteKeeps
  <1> DEFINE c == [cells |-> Cleared(m.cells, Region(f)), given |-> m.given,
                   spoiled |-> m.spoiled \ {f}, old |-> m.old \ Region(f), fits |-> m.fits]
             n == CopyField(c, f, s)
  <1>3. WriteField(m, f, s) = n
    BY <1>1, ClearThenCopy
  <1>4. m.given \in [Fields -> Writings] /\ "mode" \in Fields
    BY <1>1, MemoryType, FieldNames
  <1>5. c.given = m.given /\ c.spoiled = m.spoiled \ {f} /\ c.old = m.old \ Region(f)
    OBVIOUS
  <1> HIDE DEF c
  <1>6. /\ n.given = [m.given EXCEPT ![f] = s] /\ n.spoiled = (m.spoiled \ {f}) \cup Hit(f, s)
        /\ n.old = (m.old \ Region(f)) \ Span(Start[f], s)
    <2>1. /\ n.given = [c.given EXCEPT ![f] = s] /\ n.spoiled = c.spoiled \cup Hit(f, s)
          /\ n.old = c.old \ Span(Start[f], s)
      BY DEF CopyField
    <2> QED  BY <1>5, <2>1, Zenon
  <1> HIDE DEF n
  <1>7. n.given["mode"] \in Plain
    BY <1>1, <1>4, <1>6
  <1>8. Parted(n)
    <2>1. CASE f = "email"
      BY <1>1, <1>6, <2>1 DEF Parted
    <2>2. CASE f # "email"
      <3>1. n.given["email"] = m.given["email"]
        BY <1>4, <1>6, <2>2, FieldNames
      <3> QED  BY <1>1, <1>6, <2>2, <3>1, StaysParted
    <2> QED  BY <2>1, <2>2
  <1> QED  BY <1>2, <1>3, <1>7, <1>8 DEF Sound

LEMMA ArgumentSound ==
    ASSUME NEW m, Sound(m), NEW f \in Fields, NEW t \in Texts \cup {NoText}
    PROVE  Sound(WriteArgument(m, f, t))
  <1>1. CASE t = NoText
    BY <1>1 DEF WriteArgument
  <1>2. CASE t # NoText
    <2>1. t \in Texts /\ Spelled(t) \in Writings /\ Spelled(t) \in Plain
      BY <1>2, SpelledType DEF Plain
    <2>2. Sound(WriteField(m, f, Spelled(t)))
      BY <2>1, WriteSound
    <2> QED  BY <1>2, <2>2 DEF WriteArgument
  <1> QED  BY <1>1, <1>2

LEMMA UidSound ==
    ASSUME NEW m, Sound(m), NEW t \in Texts \cup {NoText}
    PROVE  Sound(WriteUid(m, t))
  <1>1. CASE t = NoText
    BY <1>1 DEF WriteUid
  <1>2. CASE t # NoText
    <2> DEFINE s == Spelled(t)
               at == Start["humidLower"]
               cleared == Cleared(m.cells, UidRegion)
               new == Copied(cleared, at, s)
               hit == {f \in Fields : Region(f) \cap (UidRegion \cup Span(at, s)) # {}}
               spoiled == m.spoiled \cup hit
               old == m.old \ (UidRegion \cup Span(at, s))
               fits == m.fits /\ at + Len(s) <= Start["tempHigher"]
    <2>1. WriteUid(m, t) = [cells |-> new, given |-> m.given, spoiled |-> spoiled, old |-> old,
                            fits |-> fits]
      BY <1>2, Zenon DEF WriteUid
    <2>2. /\ m.cells \in [Addresses -> Cells] /\ m.given \in [Fields -> Writings]
          /\ m.spoiled \subseteq Fields /\ m.old \subseteq Addresses
          /\ Kept(m) /\ m.given["mode"] \in Plain /\ Parted(m)
      BY MemoryType DEF Sound
    <2>3. s \in Writings
      BY <1>2, SpelledType
    <2>4. at \in Nat
      BY RegionProperties, FieldNames
    <2>5. /\ cleared \in [Addresses -> Cells]
          /\ \A c \in Addresses : c \notin UidRegion => cleared[c] = m.cells[c]
      BY <2>2, ClearedProperties
    <2> HIDE DEF cleared, s, at
    <2>6. /\ new \in [Addresses -> Cells]
          /\ \A c \in Addresses : c \notin Span(at, s) => new[c] = cleared[c]
      BY <2>3, <2>4, <2>5, CopiedProperties
    <2>7. spoiled \in SUBSET Fields /\ old \in SUBSET Addresses
      BY <2>2
    <2>8. fits \in BOOLEAN
      BY Zenon
    <2> HIDE DEF new, old, fits
    <2>9. WriteUid(m, t) \in Memories
      <3> HIDE DEF spoiled, hit
      <3> DEFINE given == m.given
      <3>1. /\ new \in [Addresses -> Cells] /\ given \in [Fields -> Writings]
            /\ spoiled \in SUBSET Fields /\ old \in SUBSET Addresses
        BY <2>2, <2>6, <2>7
      <3> HIDE DEF given
      <3>2. [cells |-> new, given |-> given, spoiled |-> spoiled, old |-> old, fits |-> fits]
              \in Memories
        BY <2>8, <3>1, MemoryMade
      <3> QED  BY <2>1, <3>2 DEF given
    <2>10. /\ WriteUid(m, t).cells = new /\ WriteUid(m, t).given = m.given
           /\ WriteUid(m, t).spoiled = spoiled /\ WriteUid(m, t).old = old
      BY <2>1
    <2>11. ASSUME NEW f \in Fields \ spoiled PROVE Stands(new, f, m.given[f])
      <3>1. f \notin m.spoiled /\ Region(f) \cap UidRegion = {} /\ Region(f) \cap Span(at, s) = {}
        OBVIOUS
      <3>2. \A c \in Region(f) : new[c] = m.cells[c]
        BY <2>5, <2>6, <3>1, RegionBytes
      <3>3. Stands(m.cells, f, m.given[f])
        BY <2>2, <3>1 DEF Kept
      <3> QED  BY <3>2, <3>3, Untouched
    <2>12. m.spoiled \subseteq spoiled /\ old \subseteq m.old
      BY DEF old
    <2> HIDE DEF spoiled
    <2>13. Parted(WriteUid(m, t))
      BY <2>2, <2>10, <2>12, StaysParted
    <2>14. Kept(WriteUid(m, t))
      BY <2>10, <2>11 DEF Kept
    <2> QED  BY <2>2, <2>9, <2>10, <2>13, <2>14 DEF Sound
  <1> QED  BY <1>1, <1>2

(* The loop that clears for a new owner reaches into the address: every     *)
(* region below is empty, and the address reads empty.                      *)
LEMMA OwnerSound ==
    ASSUME NEW m, Sound(m)
    PROVE  /\ Sound(ClearForOwner(m))
           /\ ClearForOwner(m).given["ssid"] = <<>> /\ ClearForOwner(m).given["pass"] = <<>>
           /\ ClearForOwner(m).spoiled \subseteq {"isSend"}
  <1> DEFINE new == Cleared(m.cells, 0 .. ClearEnd - 1)
             given == [f \in Fields |-> IF f = "isSend" THEN m.given[f] ELSE <<>>]
             spoiled == m.spoiled \cap {"isSend"}
             old == ClearEnd .. EepromSize - 1
  <1>1. /\ m.cells \in [Addresses -> Cells] /\ m.given \in [Fields -> Writings]
        /\ m.spoiled \subseteq Fields /\ m.fits \in BOOLEAN /\ Kept(m) /\ m \in Memories
    BY MemoryType DEF Sound
  <1>2. ClearForOwner(m) = [cells |-> new, given |-> given, spoiled |-> spoiled, old |-> old,
                            fits |-> m.fits]
    <2>1. ClearForOwner(m) = [m EXCEPT !.cells = new, !.given = given, !.spoiled = spoiled,
                                       !.old = old]
      BY Zenon DEF ClearForOwner
    <2> HIDE DEF new, given, spoiled, old
    <2> QED  BY <1>1, <2>1, MemoryGiven
  <1>3. /\ new \in [Addresses -> Cells]
        /\ \A c \in Addresses : new[c] = IF c \in 0 .. ClearEnd - 1 THEN Nul ELSE m.cells[c]
    <2>1. m.cells \in [Addresses -> Cells]
      BY <1>1
    <2>2. \A where :
            /\ Cleared(m.cells, where) \in [Addresses -> Cells]
            /\ \A c \in Addresses :
                 Cleared(m.cells, where)[c] = IF c \in where THEN Nul ELSE m.cells[c]
      BY <2>1, ClearedProperties
    <2> QED  BY <2>2, Zenon
  <1>4. /\ given \in [Fields -> Writings]
        /\ \A f \in Fields : given[f] = IF f = "isSend" THEN m.given[f] ELSE <<>>
    BY <1>1, EmptyType
  <1>5. spoiled \in SUBSET Fields /\ spoiled \subseteq {"isSend"}
    BY <1>1
  <1>6. old \in SUBSET Addresses
    BY RegionProperties DEF Addresses
  <1>7. /\ ClearEnd \in Nat /\ Start["email"] < ClearEnd /\ ClearEnd < Start["isSend"]
        /\ "email" \in Fields /\ "isSend" \in Fields
        /\ \A f \in Fields : Start[f] \in Nat /\ Size[f] \in Nat /\ Size[f] >= 1
        /\ \A f \in Fields \ {"email", "isSend"} : Start[f] + Size[f] <= Start["email"]
    BY RegionProperties, FieldNames
  <1> HIDE DEF new, given, old
  <1>8. ASSUME NEW f \in Fields \ spoiled PROVE Stands(new, f, given[f])
    <2>1. CASE f = "isSend"
      <3>1. Stands(m.cells, f, m.given[f])
        BY <1>1, <2>1 DEF Kept
      <3>2. \A c \in Region(f) : c >= Start["isSend"]
        BY <1>7, <2>1 DEF Region
      <3>3. \A c \in Region(f) : new[c] = m.cells[c]
        BY <1>3, <1>7, <3>2, RegionBytes
      <3> QED  BY <1>4, <2>1, <3>1, <3>3, Untouched
    <2>2. CASE f = "email"
      <3>1. given[f] = <<>>
        BY <1>4, <2>2
      <3>2. Start[f] + 1 - 1 \in Addresses /\ Start[f] + 1 - 1 = Start["email"]
        BY <1>7, <2>2, RegionBytes
      <3>3. new[Start[f] + 1 - 1] = Nul
        BY <1>3, <1>7, <3>2
      <3>4. Begun(new, f, <<>>)
        BY <3>3, EmptyType DEF Begun
      <3> QED  BY <2>2, <3>1, <3>4 DEF Stands
    <2>3. CASE f \notin {"email", "isSend"}
      <3>1. given[f] = <<>>
        BY <1>4, <2>3
      <3>2. \A c \in Region(f) : c \in Addresses /\ c < ClearEnd /\ c >= 0
        <4>1. Region(f) \subseteq Addresses
          BY RegionBytes
        <4>2. Start[f] + Size[f] <= Start["email"]
          BY <1>7, <2>3
        <4> QED  BY <1>7, <4>1, <4>2 DEF Region
      <3>3. \A c \in Region(f) : new[c] = Nul
        <4>1. \A c \in Region(f) : c \in Addresses /\ c \in 0 .. ClearEnd - 1
          BY <1>7, <3>2 DEF Addresses
        <4> QED  BY <1>3, <4>1
      <3>4. Placed(new, f, <<>>)
        BY <3>3, EmptyType, RegionBytes DEF Placed
      <3> QED  BY <2>3, <3>1, <3>4 DEF Stands
    <2> QED  BY <2>1, <2>2, <2>3
  <1>9. ClearForOwner(m) \in Memories
    <2> HIDE DEF spoiled
    <2>1. /\ new \in [Addresses -> Cells] /\ given \in [Fields -> Writings]
          /\ m.fits \in BOOLEAN
      BY <1>1, <1>3, <1>4
    <2> DEFINE fits == m.fits
    <2> HIDE DEF fits
    <2>2. [cells |-> new, given |-> given, spoiled |-> spoiled, old |-> old, fits |-> fits]
            \in Memories
      BY <1>5, <1>6, <2>1, MemoryMade DEF fits
    <2> QED  BY <1>2, <2>2 DEF fits
  <1> HIDE DEF spoiled
  <1>10. /\ ClearForOwner(m).cells = new /\ ClearForOwner(m).given = given
         /\ ClearForOwner(m).spoiled = spoiled /\ ClearForOwner(m).old = old
    BY <1>2
  <1>11. Kept(ClearForOwner(m))
    BY <1>8, <1>10 DEF Kept
  <1>12. /\ given["mode"] = <<>> /\ given["ssid"] = <<>> /\ given["pass"] = <<>>
         /\ given["email"] = <<>>
    BY <1>4, FieldNames
  <1>13. <<>> \in Plain
    BY DEF Plain
  <1>14. Parted(ClearForOwner(m))
    BY <1>10, <1>12 DEF Parted, old
  <1> QED  BY <1>5, <1>9, <1>10, <1>11, <1>12, <1>13, <1>14 DEF Sound

NewOwner(m, q) ==
    CopyField(CopyField(ClearForOwner(m), "ssid", Spelled(q.ssid)), "pass", Spelled(q.pass))

LEMMA NewOwnerSound ==
    ASSUME NEW m, Sound(m), NEW q \in Provisionings, BringsCredentials(q)
    PROVE  Sound(NewOwner(m, q))
  <1> DEFINE cleared == ClearForOwner(m)
             s == Spelled(q.ssid)
             p == Spelled(q.pass)
  <1>0. "ssid" \in Fields /\ "pass" \in Fields /\ "mode" \in Fields
    BY FieldNames
  <1>1. s \in Writings /\ p \in Writings
    <2>1. q.ssid \in Texts /\ q.pass \in Texts
      BY TextsAssumption DEF BringsCredentials
    <2> QED  BY <2>1, SpelledType
  <1>2. /\ Sound(cleared) /\ cleared.given["ssid"] = <<>> /\ cleared.given["pass"] = <<>>
        /\ cleared.spoiled \subseteq {"isSend"}
    BY OwnerSound
  <1> HIDE DEF s, p, cleared
  <1>3. /\ cleared \in Memories /\ Kept(cleared) /\ cleared.given["mode"] \in Plain
        /\ Parted(cleared) /\ cleared.given \in [Fields -> Writings]
    BY <1>2, MemoryType DEF Sound
  <1>4. Placed(cleared.cells, "ssid", <<>>)
    BY <1>0, <1>2, <1>3 DEF Kept, Stands
  <1>5. \A i \in 1 .. Size["ssid"] : cleared.cells[Start["ssid"] + i - 1] = Nul
    BY <1>4, EmptyType DEF Placed
  <1>6. KeptBut(cleared, "ssid")
    BY <1>3 DEF Kept, KeptBut
  <1>7. CopyField(cleared, "ssid", s) \in Memories /\ Kept(CopyField(cleared, "ssid", s))
    BY <1>0, <1>1, <1>3, <1>5, <1>6, CopyKeeps
  <1>8. CopyField(cleared, "ssid", s).given = [cleared.given EXCEPT !["ssid"] = s]
    BY DEF CopyField
  <1>9. /\ CopyField(cleared, "ssid", s).given["pass"] = <<>>
        /\ CopyField(cleared, "ssid", s).given["mode"] \in Plain
    BY <1>0, <1>2, <1>3, <1>8
  <1>9a. Parted(CopyField(cleared, "ssid", s))
    BY <1>0, <1>3, CopyParted
  <1> DEFINE n == CopyField(cleared, "ssid", s)
  <1> HIDE DEF n
  <1>10. /\ n \in Memories /\ Kept(n) /\ n.given["pass"] = <<>> /\ n.given["mode"] \in Plain
         /\ n.given \in [Fields -> Writings] /\ Parted(n)
    BY <1>7, <1>9, <1>9a, MemoryType DEF n
  <1>11. "pass" \notin n.spoiled => Placed(n.cells, "pass", <<>>)
    BY <1>0, <1>10 DEF Kept, Stands
  <1>12. "pass" \notin n.spoiled =>
           \A i \in 1 .. Size["pass"] : n.cells[Start["pass"] + i - 1] = Nul
    BY <1>11, EmptyType DEF Placed
  <1>13. KeptBut(n, "pass")
    BY <1>10 DEF Kept, KeptBut
  <1>14. CopyField(n, "pass", p) \in Memories /\ Kept(CopyField(n, "pass", p))
    BY <1>0, <1>1, <1>10, <1>12, <1>13, CopyKeeps
  <1>15. CopyField(n, "pass", p).given = [n.given EXCEPT !["pass"] = p]
    BY DEF CopyField
  <1>16. CopyField(n, "pass", p).given["mode"] \in Plain
    BY <1>0, <1>10, <1>15
  <1>16a. Parted(CopyField(n, "pass", p))
    BY <1>0, <1>10, CopyParted
  <1>17. Sound(CopyField(n, "pass", p))
    BY <1>14, <1>16, <1>16a DEF Sound
  <1> QED  BY <1>17 DEF n, s, p, cleared, NewOwner

LEMMA RequestSound ==
    ASSUME NEW m, Sound(m), NEW q \in Provisionings
    PROVE  Sound(AfterRequest(m, q))
  <1> DEFINE owner == IF BringsCredentials(q) THEN NewOwner(m, q) ELSE m
             fbhost == WriteArgument(owner, "fbhost", q.fbhost)
             host == IF BringsHost(q) THEN WriteArgument(fbhost, "fbauth", q.fbauth) ELSE owner
             mode == WriteArgument(host, "mode", q.mode)
             named == WriteArgument(mode, "name", q.name)
             interval == WriteArgument(named, "interval", q.interval)
  <1>1. /\ q.ssid \in Texts \cup {NoText} /\ q.pass \in Texts \cup {NoText}
        /\ q.fbhost \in Texts \cup {NoText} /\ q.fbauth \in Texts \cup {NoText}
        /\ q.mode \in Texts \cup {NoText} /\ q.name \in Texts \cup {NoText}
        /\ q.interval \in Texts \cup {NoText} /\ q.uid \in Texts \cup {NoText}
    BY TextsAssumption
  <1>2. /\ "ssid" \in Fields /\ "pass" \in Fields /\ "fbhost" \in Fields /\ "fbauth" \in Fields
        /\ "mode" \in Fields /\ "name" \in Fields /\ "interval" \in Fields
    BY FieldNames
  <1>3. AfterRequest(m, q) = WriteUid(interval, q.uid)
    BY Zenon DEF AfterRequest, NewOwner
  <1>4. Sound(owner)
    BY NewOwnerSound
  <1> HIDE DEF owner
  <1>5. Sound(fbhost)
    BY <1>1, <1>2, <1>4, ArgumentSound
  <1> HIDE DEF fbhost
  <1>6. Sound(host)
    <2>1. Sound(WriteArgument(fbhost, "fbauth", q.fbauth))
      BY <1>1, <1>2, <1>5, ArgumentSound
    <2> QED  BY <1>4, <2>1
  <1> HIDE DEF host
  <1>7. Sound(mode)
    BY <1>1, <1>2, <1>6, ArgumentSound
  <1> HIDE DEF mode
  <1>8. Sound(named)
    BY <1>1, <1>2, <1>7, ArgumentSound
  <1> HIDE DEF named
  <1>9. Sound(interval)
    BY <1>1, <1>2, <1>8, ArgumentSound
  <1> HIDE DEF interval
  <1>10. Sound(WriteUid(interval, q.uid))
    BY <1>1, <1>9, UidSound
  <1> QED  BY <1>3, <1>10

(* A text without zeros that reads as another one has its length. *)
LEMMA ReadsAsSetup ==
    ASSUME NEW s \in Plain, AsRead("mode", s) = Spelled("setup")
    PROVE  Len(s) = Length["setup"]
  <1>1. /\ "setup" \in Texts /\ Length["setup"] \in Nat /\ Length["setup"] >= 1
        /\ Size["mode"] \in Nat /\ Size["mode"] >= 1
    <2>1. "setup" \in Texts
      BY TextsAssumption
    <2>2. Length["setup"] \in Nat \ {0}
      BY <2>1, LayoutAssumption
    <2>3. Size["mode"] \in Nat /\ Size["mode"] >= 1
      BY RegionProperties, FieldNames
    <2> QED  BY <2>1, <2>2, <2>3
  <1>2. Len(Spelled("setup")) = Length["setup"] /\ Spelled("setup")[1] = <<"setup", 1>>
    BY <1>1, SpelledType
  <1>3. CASE s = <<>>
    <2>1. AsRead("mode", s) = <<>>
      <3>1. SubSeq(<<>>, 1, 0) = <<>> /\ 0 < Size["mode"] /\ Len(<<>>) = 0
        BY <1>1
      <3>2. UpToNul(<<>>) = <<>>
        BY EmptyType, WritingType, NoZero
      <3> QED  BY <1>3, <3>1, <3>2 DEF AsRead
    <2> QED  BY <1>1, <1>2, <2>1
  <1>4. CASE s # <<>>
    <2>1. PICK t \in Texts : s = Spelled(t)
      BY <1>4 DEF Plain
    <2>2. /\ s \in Seq(Characters) /\ Len(s) = Length[t] /\ Length[t] \in Nat /\ Length[t] >= 1
          /\ \A i \in 1 .. Length[t] : s[i] = <<t, i>>
      BY <2>1, SpelledType, WritingType, LayoutAssumption
    <2> DEFINE n == IF Len(s) < Size["mode"] THEN Len(s) ELSE Size["mode"]
               start == SubSeq(s, 1, n)
    <2>3. n \in 1 .. Len(s)
      BY <1>1, <2>2
    <2> HIDE DEF n
    <2>4. start \in Seq(Characters) /\ Len(start) = n /\ \A i \in 1 .. n : start[i] = <<t, i>>
      BY <2>2, <2>3
    <2> HIDE DEF start
    <2>5. UpToNul(start) = start
      <3>1. \A i \in 1 .. Len(start) : start[i] # Nul
        <4>1. \A i \in 1 .. n : <<t, i>> # Nul
          BY DEF Nul
        <4> QED  BY <2>4, <4>1
      <3> QED  BY <2>4, <3>1, NoZero
    <2>6. start = Spelled("setup")
      BY <2>5 DEF AsRead, start, n
    <2>7. start[1] = <<t, 1>>
      BY <2>3, <2>4
    <2>8. t = "setup"
      BY <1>2, <2>6, <2>7
    <2> QED  BY <2>2, <2>8
  <1> QED  BY <1>3, <1>4

(* "burst" is as long as "setup", so it can be copied over it. *)
LEMMA LeaveSound ==
    ASSUME NEW m, Sound(m), Holds(m.cells, "mode", "setup")
    PROVE  Sound(CopyField(m, "mode", Spelled("burst")))
  <1> DEFINE s == Spelled("burst")
             g == m.given["mode"]
  <1>1. /\ m \in Memories /\ Kept(m) /\ g \in Plain /\ Parted(m)
        /\ m.given \in [Fields -> Writings] /\ m.cells \in [Addresses -> Cells]
    BY MemoryType DEF Sound
  <1>2. /\ s \in Writings /\ s \in Plain /\ Len(s) = Length["setup"] /\ Length["setup"] \in Nat
    BY TextsAssumption, SpelledType, LayoutAssumption DEF Plain
  <1>3. "mode" \in Fields
    BY FieldNames
  <1>4. g \in Writings
    BY <1>1, <1>3
  <1> HIDE DEF s
  <1>5. ASSUME "mode" \notin m.spoiled
        PROVE  \A i \in 1 .. Size["mode"] : i > Len(s) => m.cells[Start["mode"] + i - 1] = Nul
    <2>1. Stands(m.cells, "mode", g)
      BY <1>1, <1>3, <1>5 DEF Kept
    <2> HIDE DEF g
    <2>2. Reads(m.cells, "mode") = AsRead("mode", g)
      BY <1>1, <1>3, <1>4, <2>1, StandsReadsBack
    <2>3. AsRead("mode", g) = Spelled("setup")
      BY <2>2 DEF Holds
    <2>4. Len(g) = Len(s)
      BY <1>1, <1>2, <2>3, ReadsAsSetup
    <2>5. Placed(m.cells, "mode", g)
      BY <2>1 DEF Stands
    <2> QED  BY <1>2, <2>4, <2>5 DEF Placed
  <1>6. KeptBut(m, "mode")
    BY <1>1 DEF Kept, KeptBut
  <1>7. CopyField(m, "mode", s) \in Memories /\ Kept(CopyField(m, "mode", s))
    BY <1>1, <1>2, <1>3, <1>5, <1>6, CopyKeeps
  <1>8. CopyField(m, "mode", s).given = [m.given EXCEPT !["mode"] = s]
    BY DEF CopyField
  <1>9. CopyField(m, "mode", s).given["mode"] \in Plain
    BY <1>1, <1>2, <1>3, <1>8
  <1>10. Parted(CopyField(m, "mode", s))
    BY <1>1, <1>3, CopyParted
  <1> QED  BY <1>7, <1>9, <1>10 DEF Sound, s

-----------------------------------------------------------------------------
(* Loading and committing *)

LEMMA LoadedSwitch ==
    ASSUME NEW cells
    PROVE  LoadNotify(StoredNotify(cells))["isSend"] \in {On, Off}
  <1>1. "isSend" \in NotifyField /\ "isSend" # "email" /\ "isSend" \notin NumericField
    BY DEF NotifyField, NumericField
  <1>2. StoredNotify(cells)["isSend"] = StoredSwitch(cells)
    BY <1>1 DEF StoredNotify
  <1>3. StoredSwitch(cells) \in {Absent, Off, On}
    BY Zenon DEF StoredSwitch
  <1>4. NotifyDefault["isSend"] = Off
    BY DEF NotifyDefault, NotifyField, NumericField
  <1>5. LoadNotify(StoredNotify(cells))["isSend"] =
          IF StoredNotify(cells)["isSend"] = Absent THEN NotifyDefault["isSend"]
          ELSE StoredNotify(cells)["isSend"]
    BY <1>1 DEF LoadNotify
  <1> QED  BY <1>2, <1>3, <1>4, <1>5

LEMMA LoadedType ==
    ASSUME NEW cells \in [Addresses -> Cells]
    PROVE  LoadedTexts(cells) \subseteq [KeptFields -> Writings]
  <1> DEFINE numbers == [f \in NumericField |-> LoadedNumbers(cells, f)]
             switch == LoadNotify(StoredNotify(cells))["isSend"]
             default(f) == IF f = "email" THEN EmailText[DefaultEmail]
                           ELSE IntervalText[DefaultInterval]
             loaded(level) ==
               [f \in KeptFields |->
                  IF f \in NumericField THEN Spelled(LevelText[level[f]])
                  ELSE IF f = "isSend" THEN Spelled(SwitchText[switch])
                  ELSE LoadedText(cells, f, default(f))]
             levels == {v \in [NumericField -> Levels] :
                          \A f \in NumericField : v[f] \in numbers[f]}
  <1>1. LoadedTexts(cells) = {loaded(level) : level \in levels}
    BY Zenon DEF LoadedTexts
  <1>2. switch \in {On, Off}
    BY LoadedSwitch
  <1> HIDE DEF numbers, switch
  <1>3. ASSUME NEW level \in levels, NEW f \in KeptFields PROVE loaded(level)[f] \in Writings
    <2>1. CASE f \in NumericField
      <3>1. level[f] \in Levels
        BY <2>1
      <3>2. LevelText[level[f]] \in Texts
        BY <3>1, TextsAssumption
      <3>3. Spelled(LevelText[level[f]]) \in Writings
        BY <3>2, SpelledType
      <3> QED  BY <2>1, <3>3
    <2>2. CASE f = "isSend"
      <3>1. SwitchText[switch] \in Texts
        BY <1>2, TextsAssumption
      <3>2. Spelled(SwitchText[switch]) \in Writings
        BY <3>1, SpelledType
      <3>3. f \notin NumericField
        BY <2>2 DEF NumericField
      <3> QED  BY <2>2, <3>2, <3>3
    <2>3. CASE f \notin NumericField /\ f # "isSend"
      <3>1. default(f) \in Texts
        BY TextsAssumption
      <3> DEFINE d == default(f)
      <3> HIDE DEF d
      <3>2. Spelled(d) \in Writings
        BY <3>1, SpelledType DEF d
      <3>3. Raw(cells, f) \in Writings
        BY RawType, FieldNames
      <3>4. LoadedText(cells, f, d) \in Writings
        BY <3>2, <3>3 DEF LoadedText
      <3> QED  BY <2>3, <3>4 DEF d
    <2> QED  BY <2>1, <2>2, <2>3
  <1>4. ASSUME NEW level \in levels PROVE loaded(level) \in [KeptFields -> Writings]
    BY <1>3
  <1> HIDE DEF loaded, levels
  <1> QED  BY <1>1, <1>4

LEMMA CloudType == CloudTexts \subseteq [KeptFields -> Writings]
  <1>1. {<<>>} \cup {Spelled(t) : t \in Texts} \subseteq Writings
    BY EmptyType, SpelledType
  <1>2. CloudTexts \subseteq [KeptFields -> {<<>>} \cup {Spelled(t) : t \in Texts}]
    BY TextsAssumption
  <1> DEFINE W == {<<>>} \cup {Spelled(t) : t \in Texts}
  <1> HIDE DEF W
  <1> QED  BY <1>1, <1>2 DEF W

LEMMA KeepOrderFacts ==
    /\ Len(KeepOrder) = 7
    /\ KeepOrder[1] = "humidLower" /\ KeepOrder[2] = "humidHigher" /\ KeepOrder[3] = "tempLower"
    /\ KeepOrder[4] = "tempHigher" /\ KeepOrder[5] = "email" /\ KeepOrder[6] = "isSend"
    /\ KeepOrder[7] = "interval"
    /\ KeptFields = {KeepOrder[j] : j \in 1 .. 7}
  <1>1. /\ Len(KeepOrder) = 7
        /\ KeepOrder[1] = "humidLower" /\ KeepOrder[2] = "humidHigher" /\ KeepOrder[3] = "tempLower"
        /\ KeepOrder[4] = "tempHigher" /\ KeepOrder[5] = "email" /\ KeepOrder[6] = "isSend"
        /\ KeepOrder[7] = "interval"
    BY DEF KeepOrder, WriteOrder
  <1>2. {KeepOrder[j] : j \in 1 .. 7} =
          {KeepOrder[1], KeepOrder[2], KeepOrder[3], KeepOrder[4], KeepOrder[5], KeepOrder[6],
           KeepOrder[7]}
    <2>1. \A j : j \in 1 .. 7 <=> j = 1 \/ j = 2 \/ j = 3 \/ j = 4 \/ j = 5 \/ j = 6 \/ j = 7
      OBVIOUS
    <2> QED  BY <2>1, Zenon
  <1>3. KeptFields = {"humidLower", "humidHigher", "tempLower", "tempHigher", "email", "isSend",
                      "interval"}
    BY DEF KeptFields, NotifyField, NumericField
  <1> QED  BY <1>1, <1>2, <1>3

(* The commits before the last go upwards: a text never runs into a setting *)
(* that was committed before it.                                           *)
LEMMA CommitsAscend ==
    ASSUME NEW j \in 1 .. 6, NEW k \in 1 .. 6, j < k, NEW s \in Writings
    PROVE  /\ KeepOrder[j] \in Fields \ {KeepOrder[k]}
           /\ Region(KeepOrder[j]) \cap Span(Start[KeepOrder[k]], s) = {}
  <1> DEFINE f == KeepOrder[j]
             g == KeepOrder[k]
  <1>1. f \in Fields /\ g \in Fields /\ SourceStart[f] < SourceStart[g]
    <2>1. /\ SourceStart["humidLower"] = 318 /\ SourceStart["humidHigher"] = 328
          /\ SourceStart["tempLower"] = 338 /\ SourceStart["tempHigher"] = 348
          /\ SourceStart["email"] = 358 /\ SourceStart["isSend"] = 422
      BY DEF SourceStart, Fields, NotifyField, NumericField
    <2>2. f \in Fields /\ g \in Fields
      BY KeepOrderFacts, FieldNames
    <2>3. \A i \in 1 .. 6 : SourceStart[KeepOrder[i]] =
            CASE i = 1 -> 318 [] i = 2 -> 328 [] i = 3 -> 338 [] i = 4 -> 348 [] i = 5 -> 358
              [] i = 6 -> 422
      BY <2>1, KeepOrderFacts
    <2> QED  BY <2>2, <2>3
  <1> HIDE DEF f, g
  <1>2. Start[f] + Size[f] <= Start[g]
    BY <1>1, LayoutAssumption
  <1>3. Start[f] \in Nat /\ Size[f] \in Nat /\ Start[g] \in Nat /\ Len(s) \in Nat
    BY <1>1, RegionProperties, WritingType
  <1>4. Region(f) \cap Span(Start[g], s) = {}
    BY <1>2, <1>3 DEF Region, Span
  <1>5. SourceStart[f] \in Nat /\ SourceStart[g] \in Nat
    BY <1>1, FieldNames
  <1>6. f # g
    BY <1>1, <1>5
  <1> QED  BY <1>1, <1>4, <1>6 DEF f, g

-----------------------------------------------------------------------------
(* The inductive invariant: the memory is sound; the texts in RAM can be   *)
(* written; what the commits of this wake have written stands, and after   *)
(* the last of them, the interval, whatever it did not run into.           *)

RamInv ==
    /\ step \in 0 .. Len(KeepOrder) + 1
    /\ step = 0 => texts = NothingLoaded
    /\ step # 0 => texts \in [KeptFields -> Writings]
    /\ cuts \in 0 .. MaxCuts

Spared(f) == f = "interval" \/ Region(f) \cap Span(Start["interval"], texts["interval"]) = {}

HealInv ==
    /\ step <= 7 => \A j \in 1 .. 6 :
         j < step => Placed(mem.cells, KeepOrder[j], texts[KeepOrder[j]])
    /\ step = 8 => \A f \in KeptFields : Spared(f) => Placed(mem.cells, f, texts[f])

Inv == Sound(mem) /\ RamInv /\ HealInv

LEMMA BlankSound ==
    ASSUME NEW cell \in {Nul, Erased}
    PROVE  Sound(Blank(cell))
  <1> DEFINE m == Blank(cell)
             cells == [c \in 0 .. EepromSize - 1 |-> cell]
             given == [f \in Fields |-> <<>>]
             spoiled == IF cell = Nul THEN {} ELSE Fields
             old == {}
             fits == TRUE
  <1>1. m = [cells |-> cells, given |-> given, spoiled |-> spoiled, old |-> old, fits |-> fits]
    BY Zenon DEF Blank
  <1>2. /\ cells \in [Addresses -> Cells] /\ given \in [Fields -> Writings]
        /\ spoiled \in SUBSET Fields /\ old \in SUBSET Addresses /\ fits \in BOOLEAN
    <2>1. cells \in [Addresses -> Cells]
      BY DEF Addresses, Cells
    <2>2. given \in [Fields -> Writings]
      BY EmptyType
    <2> QED  BY <2>1, <2>2
  <1>3. given["mode"] \in Plain
    BY FieldNames DEF Plain
  <1>4. ASSUME NEW f \in Fields \ spoiled PROVE Stands(cells, f, given[f])
    <2>1. cell = Nul /\ given[f] = <<>>
      OBVIOUS
    <2>2. \A c \in Addresses : cells[c] = Nul
      BY <2>1 DEF Addresses
    <2> HIDE DEF cells
    <2>3. Placed(cells, f, <<>>)
      BY <2>2, EmptyType, RegionBytes DEF Placed
    <2> QED  BY <2>1, <2>3, EmptyType, PlacedIsBegun
  <1> HIDE DEF m, cells, given, spoiled, old, fits
  <1>5. m \in Memories
    BY <1>1, <1>2, MemoryMade
  <1>6. m.cells = cells /\ m.given = given /\ m.spoiled = spoiled /\ m.old = old
    BY <1>1
  <1>7. Kept(m)
    BY <1>4, <1>6 DEF Kept
  <1>8. Parted(m)
    BY <1>6 DEF Parted, old
  <1> QED  BY <1>3, <1>5, <1>6, <1>7, <1>8 DEF Sound, m

LEMMA InitInv == Init => Inv
  <1> SUFFICES ASSUME Init PROVE Inv
    OBVIOUS
  <1>1. Sound(mem)
    BY BlankSound DEF Init
  <1>2. step = 0 /\ texts = NothingLoaded /\ cuts = 0
    BY DEF Init
  <1>3. RamInv
    BY <1>2, KeepOrderFacts, LayoutAssumption DEF RamInv
  <1>4. HealInv
    BY <1>2 DEF HealInv
  <1> QED  BY <1>1, <1>3, <1>4 DEF Inv

(* A reset forgets the texts, and with them what was committed. *)
LEMMA ResetInv ==
    ASSUME Reset, Sound(mem)', cuts' \in 0 .. MaxCuts
    PROVE  Inv'
  <1>1. step' = 0 /\ texts' = NothingLoaded
    BY DEF Reset
  <1>2. RamInv'
    BY <1>1, KeepOrderFacts DEF RamInv
  <1>3. HealInv'
    BY <1>1 DEF HealInv
  <1> QED  BY <1>2, <1>3 DEF Inv

(* One commit: what it writes stands, and all before it. *)
LEMMA KeepHeals ==
    ASSUME Inv, Keep
    PROVE  Inv'
  <1> DEFINE f == KeepOrder[step]
             s == texts[f]
             new == WriteField(mem, f, s)
  <1>1. /\ step \in 1 .. 7 /\ mem' = new /\ step' = step + 1 /\ texts' = texts /\ cuts' = cuts
    BY KeepOrderFacts DEF Keep
  <1>2. texts \in [KeptFields -> Writings] /\ Sound(mem) /\ cuts \in 0 .. MaxCuts /\ HealInv
    BY <1>1 DEF Inv, RamInv
  <1>3. f \in KeptFields /\ f \in Fields /\ f # "mode"
    <2>1. f \in KeptFields
      BY <1>1, KeepOrderFacts
    <2>2. "mode" \notin KeptFields
      BY DEF KeptFields, NotifyField, NumericField
    <2> QED  BY <2>1, <2>2, FieldNames
  <1>4. s \in Writings
    BY <1>2, <1>3
  <1> HIDE DEF f
  <1>5. mem \in Memories /\ Kept(mem)
    BY <1>2 DEF Sound
  <1> HIDE DEF s
  <1>6. Sound(new)
    BY <1>2, <1>3, <1>4, WriteSound
  <1>7. /\ Placed(new.cells, f, s)
        /\ \A g \in Fields \ {f} : \A t :
             Region(g) \cap Span(Start[f], s) = {} /\ Placed(mem.cells, g, t)
                 => Placed(new.cells, g, t)
    BY <1>3, <1>4, <1>5, WriteKeeps
  <1> HIDE DEF new
  <1>8. Sound(mem)'
    BY <1>1, <1>6 DEF Sound, Memories, Kept, Parted
  <1>9. RamInv'
    BY <1>1, <1>2, KeepOrderFacts DEF RamInv
  <1>10. CASE step < 7
    <2>1. step \in 1 .. 6 /\ step' <= 7 /\ step' # 8
      BY <1>1, <1>10
    <2>2. ASSUME NEW j \in 1 .. 6, j < step'
          PROVE  Placed(new.cells, KeepOrder[j], texts[KeepOrder[j]])
      <3>1. CASE j = step
        BY <1>7, <3>1 DEF f, s
      <3>2. CASE j < step
        <4>1. Placed(mem.cells, KeepOrder[j], texts[KeepOrder[j]])
          BY <1>2, <2>1, <3>2 DEF HealInv
        <4>2. /\ KeepOrder[j] \in Fields \ {f}
              /\ Region(KeepOrder[j]) \cap Span(Start[f], s) = {}
          BY <1>4, <2>1, <3>2, CommitsAscend DEF f
        <4> QED  BY <1>7, <4>1, <4>2
      <3> QED  BY <1>1, <2>1, <2>2, <3>1, <3>2
    <2>3. HealInv'
      BY <1>1, <2>1, <2>2 DEF HealInv, Placed
    <2> QED  BY <1>8, <1>9, <2>3 DEF Inv
  <1>11. CASE step = 7
    <2>1. step' = 8 /\ f = "interval" /\ s = texts["interval"]
      BY <1>1, <1>11, KeepOrderFacts DEF f, s
    <2>2. ASSUME NEW g \in KeptFields, Spared(g) PROVE Placed(new.cells, g, texts[g])
      <3>1. CASE g = "interval"
        BY <1>7, <2>1, <3>1
      <3>2. CASE g # "interval"
        <4>1. Region(g) \cap Span(Start[f], s) = {} /\ g \in Fields \ {f}
          BY <2>1, <2>2, <3>2, FieldNames DEF Spared
        <4>2. PICK j \in 1 .. 7 : g = KeepOrder[j]
          BY KeepOrderFacts
        <4>3. j \in 1 .. 6 /\ j < step
          BY <1>11, <3>2, <4>2, KeepOrderFacts
        <4>4. Placed(mem.cells, g, texts[g])
          BY <1>2, <1>11, <4>2, <4>3 DEF HealInv
        <4> QED  BY <1>7, <4>1, <4>4
      <3> QED  BY <3>1, <3>2
    <2>3. HealInv'
      BY <1>1, <2>1, <2>2 DEF HealInv, Spared, Placed
    <2> QED  BY <1>8, <1>9, <2>3 DEF Inv
  <1> QED  BY <1>1, <1>10, <1>11

LEMMA NextInv == Inv /\ [Next]_vars => Inv'
  <1> SUFFICES ASSUME Inv, [Next]_vars PROVE Inv'
    OBVIOUS
  <1>1. Sound(mem) /\ RamInv /\ HealInv /\ cuts \in 0 .. MaxCuts /\ mem.cells \in [Addresses -> Cells]
    BY MemoryType DEF Inv, RamInv, Sound
  <1>2. CASE UNCHANGED vars
    BY <1>1, <1>2 DEF vars, Inv, Sound, Memories, Kept, Parted, Stands, Placed, Begun, RamInv, HealInv, Spared
  <1>3. CASE PowerCycle
    <2>1. Reset /\ mem' = mem
      BY <1>3 DEF PowerCycle
    <2>2. Sound(mem)'
      BY <1>1, <2>1 DEF Sound, Memories, Kept, Parted
    <2>3. cuts' \in 0 .. MaxCuts
      BY <1>1, <1>3, LayoutAssumption DEF PowerCycle
    <2> QED  BY <2>1, <2>2, <2>3, ResetInv
  <1>4. CASE Load
    <2>1. step' = 1 /\ mem' = mem /\ cuts' = cuts /\ texts' \in [KeptFields -> Writings]
      BY <1>1, <1>4, LoadedType DEF Load
    <2>2. Sound(mem)'
      BY <1>1, <2>1 DEF Sound, Memories, Kept, Parted
    <2>3. RamInv'
      BY <1>1, <2>1, KeepOrderFacts DEF RamInv
    <2>4. HealInv'
      BY <2>1 DEF HealInv
    <2> QED  BY <2>2, <2>3, <2>4 DEF Inv
  <1>5. ASSUME NEW q \in Provisionings, Provision(q) PROVE Inv'
    <2>1. Reset /\ mem' = AfterRequest(mem, q) /\ cuts' = cuts
      BY <1>5 DEF Provision
    <2> DEFINE new == AfterRequest(mem, q)
    <2>2. Sound(new)
      BY <1>1, RequestSound
    <2> HIDE DEF new
    <2>3. mem' = new
      BY <2>1 DEF new
    <2>4. Sound(mem)'
      BY <2>2, <2>3 DEF Sound, Memories, Kept, Parted
    <2> QED  BY <1>1, <2>1, <2>4, ResetInv
  <1>6. CASE LeaveSetup
    <2> DEFINE new == CopyField(mem, "mode", Spelled("burst"))
    <2>1. Reset /\ mem' = new /\ cuts' = cuts
      BY <1>6 DEF LeaveSetup
    <2>2. Sound(new)
      BY <1>1, <1>6, LeaveSound DEF LeaveSetup
    <2> HIDE DEF new
    <2>3. Sound(mem)'
      BY <2>1, <2>2 DEF Sound, Memories, Kept, Parted
    <2> QED  BY <1>1, <2>1, <2>3, ResetInv
  <1>7. ASSUME NEW t \in CloudTexts, Refresh(t) PROVE Inv'
    <2>1. step = 1 /\ step' = 1 /\ mem' = mem /\ cuts' = cuts /\ texts' \in [KeptFields -> Writings]
      BY <1>7, CloudType DEF Refresh
    <2>2. Sound(mem)'
      BY <1>1, <2>1 DEF Sound, Memories, Kept, Parted
    <2>3. RamInv'
      BY <1>1, <2>1, KeepOrderFacts DEF RamInv
    <2>4. HealInv'
      BY <2>1 DEF HealInv
    <2> QED  BY <2>2, <2>3, <2>4 DEF Inv
  <1>8. CASE Keep
    BY <1>8, KeepHeals
  <1> QED  BY <1>2, <1>3, <1>4, <1>5, <1>6, <1>7, <1>8 DEF Next

(* No request, reset, commit or power failure breaks the invariant.         *)
THEOREM Invariant == Spec => []Inv
  <1> QED  BY InitInv, NextInv, PTL DEF Spec

(* The memory holds bytes, the observer remembers fields and addresses, and *)
(* no address beyond the end is written.                                   *)
THEOREM TypeCorrect == Spec => []TypeOK
  <1>1. Inv => TypeOK
    <2> SUFFICES ASSUME Inv PROVE TypeOK
      OBVIOUS
    <2>1. /\ mem.cells \in [Addresses -> Cells] /\ mem.given \in [Fields -> Writings]
          /\ mem.spoiled \subseteq Fields /\ mem.old \subseteq Addresses /\ mem.fits \in BOOLEAN
      BY MemoryType DEF Inv, Sound
    <2>2. DOMAIN texts = IF step = 0 THEN {} ELSE KeptFields
      BY DEF Inv, RamInv, NothingLoaded
    <2>3. DOMAIN mem.cells = 0 .. EepromSize - 1 /\ \A c \in DOMAIN mem.cells : mem.cells[c] \in Cells
      BY <2>1 DEF Addresses
    <2>4. DOMAIN mem.given = Fields /\ mem.old \subseteq DOMAIN mem.cells
      BY <2>1
    <2>5. step \in 0 .. Len(KeepOrder) + 1 /\ cuts \in 0 .. MaxCuts
      BY DEF Inv, RamInv
    <2> QED  BY <2>1, <2>2, <2>3, <2>4, <2>5, Zenon DEF TypeOK
  <1> QED  BY <1>1, Invariant, PTL

(* Whatever sequence of requests, resets and commits there was, and however *)
(* long the texts: a setting no other text has run into reads back as it    *)
(* was written, as far as its region goes.                                  *)
THEOREM AlwaysUnspoiledReadsBack == Spec => []UnspoiledReadsBack
  <1>1. Inv => UnspoiledReadsBack
    <2> SUFFICES ASSUME Inv, NEW f \in Fields \ mem.spoiled
                 PROVE  Reads(mem.cells, f) = AsRead(f, mem.given[f])
      BY DEF UnspoiledReadsBack
    <2>1. mem \in Memories /\ Kept(mem)
      BY DEF Inv, Sound
    <2>2. mem.cells \in [Addresses -> Cells] /\ mem.given[f] \in Writings
      BY <2>1, MemoryType
    <2>3. Stands(mem.cells, f, mem.given[f])
      BY <2>1 DEF Kept
    <2> QED  BY <2>2, <2>3, StandsReadsBack
  <1> QED  BY <1>1, Invariant, PTL

(* After the seven commits of writeLocalNotificationInfo every setting      *)
(* reads as its text in RAM, but those the interval, committed last, ran    *)
(* into.                                                                    *)
THEOREM CommitsAlwaysHeal == Spec => []CommitsHeal
  <1>1. Inv => CommitsHeal
    <2> SUFFICES ASSUME Inv, step > Len(KeepOrder), NEW f \in KeptFields, Spared(f)
                 PROVE  Reads(mem.cells, f) = AsRead(f, texts[f])
      BY DEF CommitsHeal, Spared
    <2>1. step = 8
      BY KeepOrderFacts DEF Inv, RamInv
    <2>2. Placed(mem.cells, f, texts[f])
      BY <2>1 DEF Inv, HealInv
    <2>3. mem.cells \in [Addresses -> Cells] /\ texts[f] \in Writings /\ f \in Fields
      BY <2>1, MemoryType, FieldNames DEF Inv, Sound, RamInv
    <2> QED  BY <2>2, <2>3, PlacedIsBegun, BegunReadsBack
  <1> QED  BY <1>1, Invariant, PTL

(* What is read of a region stops before its first zero. *)
LEMMA ReadStopsAtZero ==
    ASSUME NEW cells \in [Addresses -> Cells], NEW f \in Fields
    PROVE  /\ Len(Reads(cells, f)) \in 0 .. Size[f]
           /\ \A i \in 1 .. Size[f] : cells[Start[f] + i - 1] = Nul => Len(Reads(cells, f)) < i
  <1> DEFINE raw == Raw(cells, f)
             zeros == {i \in DOMAIN raw : raw[i] = Nul}
  <1>1. /\ raw \in Seq(Cells) /\ Len(raw) = Size[f] /\ Size[f] \in Nat
        /\ \A i \in 1 .. Size[f] : raw[i] = cells[Start[f] + i - 1]
    BY RawType, RegionProperties
  <1>2. Reads(cells, f) = IF zeros = {} THEN raw ELSE SubSeq(raw, 1, Min(zeros) - 1)
    BY DEF Reads, UpToNul
  <1> HIDE DEF raw
  <1>3. CASE zeros = {}
    BY <1>1, <1>2, <1>3
  <1>4. CASE zeros # {}
    <2>1. zeros \subseteq Nat /\ zeros \subseteq 1 .. Size[f]
      BY <1>1
    <2>2. Min(zeros) \in zeros /\ \A i \in zeros : Min(zeros) <= i
      BY <1>4, <2>1, MinProperties
    <2> DEFINE k == Min(zeros)
    <2> HIDE DEF k
    <2>3. k \in 1 .. Size[f] /\ \A i \in 1 .. Size[f] : raw[i] = Nul => k <= i
      BY <1>1, <2>1, <2>2 DEF k
    <2>4. Reads(cells, f) = SubSeq(raw, 1, k - 1)
      BY <1>2, <1>4 DEF k
    <2>5. Len(Reads(cells, f)) = k - 1
      BY <1>1, <2>3, <2>4
    <2>6. ASSUME NEW i \in 1 .. Size[f], cells[Start[f] + i - 1] = Nul
          PROVE  Len(Reads(cells, f)) < i
      <3>1. k <= i
        BY <1>1, <2>3, <2>6
      <3> QED  BY <2>3, <2>5, <3>1
    <2>7. Len(Reads(cells, f)) \in 0 .. Size[f]
      BY <1>1, <2>3, <2>5
    <2> QED  BY <2>6, <2>7
  <1> QED  BY <1>3, <1>4

(* A new owner's device reads nothing of the one before, beyond the switch  *)
(* and the end of an address that another text has run into: the regions    *)
(* below are cleared as a whole, and the address reads as empty until it is *)
(* written, which clears the rest of it.                                    *)
THEOREM NothingOfPreviousOwnerIsRead == Spec => []NothingOfPreviousOwner
  <1>1. Inv => NothingOfPreviousOwner
    <2> SUFFICES ASSUME Inv, NEW f \in Fields \ {"isSend"}, ~(f = "email" /\ Adjoined)
                 PROVE  Visible(f) \cap mem.old = {}
      BY DEF NothingOfPreviousOwner
    <2>1. mem \in Memories /\ Kept(mem) /\ Parted(mem)
      BY DEF Inv, Sound
    <2>2. mem.cells \in [Addresses -> Cells] /\ mem.given \in [Fields -> Writings]
      BY <2>1, MemoryType
    <2> DEFINE n == Len(Reads(mem.cells, f))
    <2>3. n \in 0 .. Size[f] /\ \A i \in 1 .. Size[f] :
            mem.cells[Start[f] + i - 1] = Nul => n < i
      BY <2>2, ReadStopsAtZero
    <2>4. Visible(f) = Start[f] .. Start[f] + n - 1
      BY DEF Visible
    <2>5. /\ Start[f] \in Nat /\ Size[f] \in Nat /\ Size[f] >= 1 /\ ClearEnd \in Nat
          /\ Start["email"] < ClearEnd
      BY RegionProperties
    <2> HIDE DEF n
    <2>6. mem.old \subseteq ClearEnd .. EepromSize - 1
      BY <2>1 DEF Parted
    <2>7. EepromSize \in Nat
      BY RegionProperties
    <2>8. CASE f # "email"
      <3>1. Start[f] + Size[f] <= Start["email"] /\ Start["email"] \in Nat
        BY <2>8, RegionProperties, FieldNames
      <3> QED  BY <2>3, <2>4, <2>5, <2>6, <2>7, <3>1
    <2>9. CASE f = "email" /\ "email" \in mem.spoiled
      <3>1. mem.cells[ClearEnd - 1] = Nul
        BY <2>9 DEF Adjoined
      <3>2. CASE ClearEnd <= Start[f] + Size[f]
        <4>1. PICK i \in 1 .. Size[f] : Start[f] + i - 1 = ClearEnd - 1
          <5>1. ClearEnd - Start[f] \in 1 .. Size[f]
            BY <2>5, <2>9, <3>2
          <5>2. Start[f] + (ClearEnd - Start[f]) - 1 = ClearEnd - 1
            BY <2>5
          <5> QED  BY <5>1, <5>2
        <4>2. n < i
          BY <2>3, <3>1, <4>1
        <4> QED  BY <2>3, <2>4, <2>5, <2>6, <2>7, <4>1, <4>2
      <3>3. CASE ~(ClearEnd <= Start[f] + Size[f])
        BY <2>3, <2>4, <2>5, <2>6, <2>7, <3>3
      <3> QED  BY <3>2, <3>3
    <2>10. CASE f = "email" /\ "email" \notin mem.spoiled /\ mem.given["email"] = <<>>
      <3>1. Begun(mem.cells, f, <<>>)
        BY <2>1, <2>10 DEF Kept, Stands
      <3>2. mem.cells[Start[f] + 1 - 1] = Nul
        BY <2>5, <3>1, EmptyType DEF Begun
      <3>3. n < 1
        BY <2>3, <2>5, <3>2
      <3> QED  BY <2>3, <2>4, <2>5, <3>3
    <2>11. CASE f = "email" /\ Region("email") \cap mem.old = {}
      <3>1. Visible(f) \subseteq Region(f)
        BY <2>3, <2>4, <2>5 DEF Region
      <3> QED  BY <2>11, <3>1
    <2> QED  BY <2>1, <2>8, <2>9, <2>10, <2>11 DEF Parted
  <1> QED  BY <1>1, Invariant, PTL

-----------------------------------------------------------------------------
(* What is read of a region *)

LEMMA SpelledFacts ==
    ASSUME NEW t \in Texts
    PROVE  /\ Len(Spelled(t)) >= 1 /\ Spelled(t)[1] = <<t, 1>>
           /\ \A i \in 1 .. Len(Spelled(t)) : Spelled(t)[i] # Nul
           /\ \A u \in Texts : Spelled(t) = Spelled(u) => t = u
  <1>1. \A u \in Texts : Len(Spelled(u)) >= 1 /\ Spelled(u)[1] = <<u, 1>>
    <2> SUFFICES ASSUME NEW u \in Texts PROVE Len(Spelled(u)) >= 1 /\ Spelled(u)[1] = <<u, 1>>
      OBVIOUS
    <2>1. Len(Spelled(u)) = Length[u] /\ Length[u] \in Nat \ {0}
      BY SpelledType, LayoutAssumption
    <2> QED  BY <2>1, SpelledType
  <1>2. \A u \in Texts : Spelled(t) = Spelled(u) => t = u
    <2> SUFFICES ASSUME NEW u \in Texts, Spelled(t) = Spelled(u) PROVE t = u
      OBVIOUS
    <2>1. <<t, 1>> = <<u, 1>>
      BY <1>1
    <2> QED  BY <2>1
  <1>3. \A i \in 1 .. Len(Spelled(t)) : Spelled(t)[i] # Nul
    <2> SUFFICES ASSUME NEW i \in 1 .. Len(Spelled(t)) PROVE Spelled(t)[i] # Nul
      OBVIOUS
    <2>1. Spelled(t)[i] = <<t, i>>
      BY SpelledType
    <2> QED  BY <2>1 DEF Nul
  <1> QED  BY <1>1, <1>2, <1>3

(* A text that fits reads as itself. *)
LEMMA FittingText ==
    ASSUME NEW f \in Fields, NEW t \in Texts, Len(Spelled(t)) <= Size[f]
    PROVE  AsRead(f, Spelled(t)) = Spelled(t)
  <1> DEFINE s == Spelled(t)
             n == IF Len(s) < Size[f] THEN Len(s) ELSE Size[f]
  <1>1. /\ s \in Seq(Characters) /\ Len(s) \in Nat /\ Size[f] \in Nat
        /\ \A i \in 1 .. Len(s) : s[i] # Nul /\ Len(s) <= Size[f]
    BY SpelledType, SpelledFacts, WritingType, RegionProperties
  <1> HIDE DEF s
  <1>2. n = Len(s)
    BY <1>1 DEF s
  <1>3. SubSeq(s, 1, n) = s
    BY <1>1, <1>2
  <1>4. UpToNul(s) = s
    BY <1>1, NoZero
  <1> QED  BY <1>3, <1>4 DEF AsRead, s

(* The first byte decides whether a region reads as empty. *)
LEMMA FirstByte ==
    ASSUME NEW cells \in [Addresses -> Cells], NEW f \in Fields
    PROVE  /\ cells[Start[f]] = Nul => Reads(cells, f) = <<>>
           /\ cells[Start[f]] # Nul => /\ Reads(cells, f) # <<>>
                                       /\ Reads(cells, f)[1] = cells[Start[f]]
                                       /\ Head(Reads(cells, f)) = cells[Start[f]]
           /\ Reads(cells, f) \in Seq(Cells)
  <1> DEFINE raw == Raw(cells, f)
             zeros == {i \in DOMAIN raw : raw[i] = Nul}
  <1>1. /\ raw \in Seq(Cells) /\ Len(raw) = Size[f] /\ Size[f] \in Nat /\ Size[f] >= 1
        /\ Start[f] \in Nat /\ \A i \in 1 .. Size[f] : raw[i] = cells[Start[f] + i - 1]
    BY RawType, RegionProperties
  <1>2. raw[1] = cells[Start[f]]
    <2>1. raw[1] = cells[Start[f] + 1 - 1] /\ Start[f] + 1 - 1 = Start[f]
      BY <1>1
    <2> QED  BY <2>1
  <1>3. Reads(cells, f) = UpToNul(raw)
    BY DEF Reads
  <1> HIDE DEF raw
  <1>4. CASE raw[1] = Nul
    <2>1. UpToNul(raw) = SubSeq(raw, 1, 1 - 1)
      BY <1>1, <1>4, FirstZero
    <2>2. SubSeq(raw, 1, 1 - 1) = <<>>
      BY <1>1
    <2> QED  BY <1>2, <1>3, <1>4, <2>1, <2>2
  <1>5. CASE raw[1] # Nul
    <2>1. CASE zeros = {}
      <3>1. UpToNul(raw) = raw
        BY <2>1 DEF UpToNul
      <3> QED  BY <1>1, <1>2, <1>3, <1>5, <3>1
    <2>2. CASE zeros # {}
      <3>1. zeros \subseteq Nat /\ zeros \subseteq 1 .. Size[f]
        BY <1>1
      <3>2. Min(zeros) \in zeros
        BY <2>2, <3>1, MinProperties
      <3> DEFINE k == Min(zeros)
      <3>3. UpToNul(raw) = SubSeq(raw, 1, k - 1)
        BY <2>2 DEF UpToNul
      <3>4. k \in 2 .. Size[f]
        <4>1. k \in 1 .. Size[f] /\ raw[k] = Nul
          BY <3>1, <3>2
        <4>2. k # 1
          BY <1>5, <4>1
        <4> HIDE DEF k
        <4> QED  BY <1>1, <4>1, <4>2
      <3> HIDE DEF k
      <3>5. /\ SubSeq(raw, 1, k - 1) \in Seq(Cells) /\ Len(SubSeq(raw, 1, k - 1)) = k - 1
            /\ SubSeq(raw, 1, k - 1)[1] = raw[1]
        BY <1>1, <3>4
      <3> DEFINE s == SubSeq(raw, 1, k - 1)
      <3> HIDE DEF s
      <3>6. s \in Seq(Cells) /\ Len(s) = k - 1 /\ s[1] = raw[1]
        BY <3>5 DEF s
      <3>7. Len(s) # 0
        BY <3>4, <3>6
      <3>8. s # <<>>
        BY <3>7, EmptyType
      <3>9. Head(s) = s[1]
        BY <3>6, <3>7, <3>8
      <3> QED  BY <1>2, <1>3, <1>5, <3>3, <3>6, <3>8, <3>9 DEF s
    <2> QED  BY <2>1, <2>2
  <1> QED  BY <1>4, <1>5

-----------------------------------------------------------------------------
(* What a write does to the regions, when its text fits *)

(* The region reads the same, zeros included. *)
Alike(new, cells, f) ==
    /\ Raw(new, f) = Raw(cells, f) /\ Reads(new, f) = Reads(cells, f)
    /\ new[Start[f]] = cells[Start[f]]

LEMMA FrameAlike ==
    ASSUME NEW cells, NEW new, NEW f \in Fields, \A c \in Region(f) : new[c] = cells[c]
    PROVE  Alike(new, cells, f)
  <1>1. \A i \in 1 .. Size[f] : new[Start[f] + i - 1] = cells[Start[f] + i - 1]
    BY RegionBytes
  <1>2. Raw(new, f) = Raw(cells, f)
    BY <1>1 DEF Raw
  <1>3. Start[f] \in Region(f)
    BY RegionProperties DEF Region
  <1> QED  BY <1>2, <1>3 DEF Alike, Reads

LEMMA FittingCopy ==
    ASSUME NEW m, m.cells \in [Addresses -> Cells], NEW f \in Fields, NEW s \in Writings,
           CopyField(m, f, s).fits
    PROVE  /\ m.fits /\ Len(s) <= Size[f]
           /\ CopyField(m, f, s).cells \in [Addresses -> Cells]
           /\ \A c \in Addresses : CopyField(m, f, s).cells[c] =
                IF c \in Span(Start[f], s) THEN s[c - Start[f] + 1] ELSE m.cells[c]
           /\ Span(Start[f], s) \subseteq Region(f)
           /\ \A g \in Fields \ {f} : Alike(CopyField(m, f, s).cells, m.cells, g)
  <1> DEFINE n == CopyField(m, f, s)
  <1>1. n.cells = Copied(m.cells, Start[f], s) /\ n.fits = (m.fits /\ Len(s) <= Size[f])
    BY DEF CopyField
  <1> HIDE DEF n
  <1>2. m.fits /\ Len(s) <= Size[f]
    BY <1>1 DEF n
  <1>3. Start[f] \in Nat /\ Size[f] \in Nat /\ Len(s) \in Nat
    BY RegionProperties, WritingType
  <1>4. /\ n.cells \in [Addresses -> Cells]
        /\ \A c \in Addresses :
             n.cells[c] = IF c \in Span(Start[f], s) THEN s[c - Start[f] + 1] ELSE m.cells[c]
    BY <1>1, <1>3, CopiedProperties
  <1>5. Span(Start[f], s) \subseteq Region(f)
    BY <1>2, <1>3 DEF Span, Region
  <1>6. ASSUME NEW g \in Fields \ {f} PROVE Alike(n.cells, m.cells, g)
    <2>1. \A c \in Region(g) : c \in Addresses /\ c \notin Span(Start[f], s)
      BY <1>5, RegionBytes
    <2>2. \A c \in Region(g) : n.cells[c] = m.cells[c]
      BY <1>4, <2>1
    <2> QED  BY <2>2, FrameAlike
  <1> QED  BY <1>2, <1>4, <1>5, <1>6 DEF n

(* Over zeros, the text reads back. *)
LEMMA CopyReads ==
    ASSUME NEW m, m.cells \in [Addresses -> Cells], NEW f \in Fields, NEW s \in Writings,
           \A i \in 1 .. Size[f] : i > Len(s) => m.cells[Start[f] + i - 1] = Nul
    PROVE  Reads(CopyField(m, f, s).cells, f) = AsRead(f, s)
  <1> DEFINE new == Copied(m.cells, Start[f], s)
  <1>1. CopyField(m, f, s).cells = new
    BY DEF CopyField
  <1>2. Start[f] \in Nat
    BY RegionProperties
  <1>3. new \in [Addresses -> Cells] /\ Placed(new, f, s)
    BY <1>2, CopiedProperties, CopiedIsPlaced
  <1> HIDE DEF new
  <1>4. Reads(new, f) = AsRead(f, s)
    BY <1>3, PlacedIsBegun, BegunReadsBack
  <1> QED  BY <1>1, <1>4

LEMMA FittingWrite ==
    ASSUME NEW m \in Memories, NEW f \in Fields, NEW s \in Writings, WriteField(m, f, s).fits
    PROVE  /\ m.fits /\ Len(s) <= Size[f]
           /\ WriteField(m, f, s).cells \in [Addresses -> Cells]
           /\ Reads(WriteField(m, f, s).cells, f) = AsRead(f, s)
           /\ \A g \in Fields \ {f} : Alike(WriteField(m, f, s).cells, m.cells, g)
  <1> DEFINE new == Cleared(m.cells, Region(f))
             c == [cells |-> new, given |-> m.given, spoiled |-> m.spoiled \ {f},
                   old |-> m.old \ Region(f), fits |-> m.fits]
             n == CopyField(c, f, s)
  <1>1. WriteField(m, f, s) = n
    BY ClearThenCopy
  <1>2. m.cells \in [Addresses -> Cells]
    BY MemoryType
  <1>3. /\ new \in [Addresses -> Cells]
        /\ \A a \in Addresses : new[a] = IF a \in Region(f) THEN Nul ELSE m.cells[a]
    BY <1>2, ClearedProperties
  <1> HIDE DEF new
  <1>4. c.cells = new /\ c.fits = m.fits
    OBVIOUS
  <1> HIDE DEF c
  <1>5. \A i \in 1 .. Size[f] : c.cells[Start[f] + i - 1] = Nul
    BY <1>3, <1>4, RegionBytes
  <1>6. c.cells \in [Addresses -> Cells]
    BY <1>3, <1>4
  <1>7. n.fits
    BY <1>1
  <1>8. /\ c.fits /\ Len(s) <= Size[f] /\ n.cells \in [Addresses -> Cells]
        /\ \A g \in Fields \ {f} : Alike(n.cells, c.cells, g)
    BY <1>6, <1>7, FittingCopy
  <1>9. Reads(n.cells, f) = AsRead(f, s)
    BY <1>5, <1>6, CopyReads
  <1>10. ASSUME NEW g \in Fields \ {f} PROVE Alike(c.cells, m.cells, g)
    <2>1. \A a \in Region(g) : c.cells[a] = m.cells[a]
      <3>1. Region(g) \subseteq Addresses /\ Region(g) \cap Region(f) = {}
        BY RegionBytes
      <3> QED  BY <1>3, <1>4, <3>1
    <2> QED  BY <2>1, FrameAlike
  <1>11. \A g \in Fields \ {f} : Alike(n.cells, m.cells, g)
    BY <1>8, <1>10 DEF Alike
  <1> HIDE DEF n
  <1> QED  BY <1>1, <1>4, <1>8, <1>9, <1>11

-----------------------------------------------------------------------------
(* The parts of the record, and the regions each depends on *)

StoredCreds(cells) ==
    IF HomeCredentials(cells) THEN "home"
    ELSE IF Reads(cells, "ssid") = <<>> \/ Erased = cells[Start["ssid"]] THEN Absent ELSE "wrong"
StoredMode(cells) ==
    IF Holds(cells, "mode", "setup") THEN "setup"
    ELSE IF Holds(cells, "mode", "burst") THEN "burst" ELSE Absent

LEMMA RecordParts ==
    ASSUME NEW cells
    PROVE  Record(cells) = [creds |-> StoredCreds(cells), mode |-> StoredMode(cells),
                            interval |-> StoredInterval(cells), notify |-> StoredNotify(cells)]
  BY Zenon DEF Record, StoredCreds, StoredMode

LEMMA NotifyParts ==
    ASSUME NEW cells
    PROVE  /\ StoredNotify(cells) = [f \in NotifyField |-> StoredNotify(cells)[f]]
           /\ \A f \in NumericField : StoredNotify(cells)[f] = StoredNumber(cells, f)
           /\ StoredNotify(cells)["email"] = StoredEmail(cells)
           /\ StoredNotify(cells)["isSend"] = StoredSwitch(cells)
  BY DEF StoredNotify, NotifyField, NumericField

LEMMA SameReading ==
    ASSUME NEW cells, NEW new
    PROVE  /\ Reads(new, "interval") = Reads(cells, "interval")
                => StoredInterval(new) = StoredInterval(cells)
           /\ Reads(new, "email") = Reads(cells, "email") => StoredEmail(new) = StoredEmail(cells)
  <1>1. ASSUME Reads(new, "interval") = Reads(cells, "interval")
        PROVE  StoredInterval(new) = StoredInterval(cells)
    <2> DEFINE Of(s) == LET like == {v \in Intervals : s = Spelled(IntervalText[v])}
                        IN  IF like = {} THEN Absent ELSE CHOOSE v \in like : TRUE
    <2>1. /\ StoredInterval(new) = Of(Reads(new, "interval"))
          /\ StoredInterval(cells) = Of(Reads(cells, "interval"))
      BY Zenon DEF StoredInterval, Holds
    <2> HIDE DEF Of
    <2> QED  BY <1>1, <2>1
  <1>2. ASSUME Reads(new, "email") = Reads(cells, "email")
        PROVE  StoredEmail(new) = StoredEmail(cells)
    <2> DEFINE Of(s) == LET like == {v \in Emails \ {NoEmail} : s = Spelled(EmailText[v])}
                        IN  IF like = {} THEN Absent ELSE CHOOSE v \in like : TRUE
    <2>1. /\ StoredEmail(new) = Of(Reads(new, "email"))
          /\ StoredEmail(cells) = Of(Reads(cells, "email"))
      BY Zenon DEF StoredEmail, Holds
    <2> HIDE DEF Of
    <2> QED  BY <1>2, <2>1
  <1> QED  BY <1>1, <1>2

LEMMA PartsAlike ==
    ASSUME NEW cells, NEW new
    PROVE  /\ Alike(new, cells, "ssid") /\ Alike(new, cells, "pass")
                => StoredCreds(new) = StoredCreds(cells)
           /\ Alike(new, cells, "mode") => StoredMode(new) = StoredMode(cells)
           /\ Alike(new, cells, "interval") => StoredInterval(new) = StoredInterval(cells)
           /\ \A f \in NotifyField :
                Alike(new, cells, f) => StoredNotify(new)[f] = StoredNotify(cells)[f]
  <1>1. Alike(new, cells, "ssid") /\ Alike(new, cells, "pass")
          => StoredCreds(new) = StoredCreds(cells)
    BY DEF Alike, StoredCreds, HomeCredentials, Holds
  <1>2. Alike(new, cells, "mode") => StoredMode(new) = StoredMode(cells)
    BY DEF Alike, StoredMode, Holds
  <1>3. Alike(new, cells, "interval") => StoredInterval(new) = StoredInterval(cells)
    BY SameReading DEF Alike
  <1>4. ASSUME NEW f \in NotifyField, Alike(new, cells, f)
        PROVE  StoredNotify(new)[f] = StoredNotify(cells)[f]
    <2>1. CASE f \in NumericField
      <3>1. StoredNumber(new, f) = StoredNumber(cells, f)
        BY <1>4 DEF Alike, StoredNumber
      <3> QED  BY <2>1, <3>1, NotifyParts
    <2>2. CASE f = "email"
      <3>1. StoredEmail(new) = StoredEmail(cells)
        BY <1>4, <2>2, SameReading DEF Alike
      <3> QED  BY <2>2, <3>1, NotifyParts
    <2>3. CASE f = "isSend"
      <3>1. StoredSwitch(new) = StoredSwitch(cells)
        BY <1>4, <2>3 DEF Alike, StoredSwitch
      <3> QED  BY <2>3, <3>1, NotifyParts
    <2> QED  BY <2>1, <2>2, <2>3 DEF NotifyField
  <1> QED  BY <1>1, <1>2, <1>3, <1>4

(* What a write to one region leaves of the record. *)
LEMMA PartsElsewhere ==
    ASSUME NEW cells, NEW new, NEW f \in Fields, \A g \in Fields \ {f} : Alike(new, cells, g)
    PROVE  /\ f \notin {"ssid", "pass"} => StoredCreds(new) = StoredCreds(cells)
           /\ f # "mode" => StoredMode(new) = StoredMode(cells)
           /\ f # "interval" => StoredInterval(new) = StoredInterval(cells)
           /\ f \notin NotifyField => StoredNotify(new) = StoredNotify(cells)
  <1>1. {"ssid", "pass", "mode", "interval"} \cup NotifyField \subseteq Fields
    BY DEF Fields, NotifyField, NumericField
  <1>2. ASSUME f \notin NotifyField PROVE StoredNotify(new) = StoredNotify(cells)
    <2> DEFINE a == StoredNotify(new)
               b == StoredNotify(cells)
    <2>1. a = [g \in NotifyField |-> a[g]] /\ b = [g \in NotifyField |-> b[g]]
      BY NotifyParts
    <2>2. \A g \in NotifyField : a[g] = b[g]
      BY <1>1, <1>2, PartsAlike
    <2> HIDE DEF a, b
    <2>3. a = b
      BY <2>1, <2>2
    <2> QED  BY <2>3 DEF a, b
  <1>3. f \notin {"ssid", "pass"} => StoredCreds(new) = StoredCreds(cells)
    BY <1>1, PartsAlike
  <1>4. f # "mode" => StoredMode(new) = StoredMode(cells)
    BY <1>1, PartsAlike
  <1>5. f # "interval" => StoredInterval(new) = StoredInterval(cells)
    BY <1>1, PartsAlike
  <1> QED  BY <1>2, <1>3, <1>4, <1>5

-----------------------------------------------------------------------------
(* What the texts that are written are read as *)

LEMMA StoredNumberFacts ==
    ASSUME NEW cells \in [Addresses -> Cells], NEW f \in NumericField
    PROVE  /\ cells[Start[f]] = Nul => StoredNumber(cells, f) = Absent
           /\ cells[Start[f]] \notin {Nul, Erased} => StoredNumber(cells, f) \in Levels
  <1> DEFINE s == Reads(cells, f)
             like == {v \in Levels : s # <<>> /\ s = AsRead(f, Spelled(LevelText[v]))}
  <1>1. StoredNumber(cells, f) = IF s = <<>> \/ Head(s) = Erased THEN Absent
                                 ELSE IF like = {} THEN 0 ELSE CHOOSE v \in like : TRUE
    BY Zenon DEF StoredNumber
  <1>2. /\ cells[Start[f]] = Nul => s = <<>>
        /\ cells[Start[f]] # Nul => s # <<>> /\ Head(s) = cells[Start[f]]
    BY FirstByte, FieldNames DEF Fields, NotifyField
  <1>3. like # {} => (CHOOSE v \in like : TRUE) \in Levels
    OBVIOUS
  <1>4. 0 \in Levels
    BY LevelsAssumption
  <1> HIDE DEF s, like
  <1> QED  BY <1>1, <1>2, <1>3, <1>4

(* What starts with a piece of a uid is no number. *)
LEMMA UidIsNoNumber ==
    ASSUME NEW cells \in [Addresses -> Cells], NEW f \in NumericField, NEW t \in UidTexts, NEW i,
           t \in Texts, cells[Start[f]] = <<t, i>>
    PROVE  StoredNumber(cells, f) = 0
  <1> DEFINE s == Reads(cells, f)
             like == {v \in Levels : s # <<>> /\ s = AsRead(f, Spelled(LevelText[v]))}
  <1>1. StoredNumber(cells, f) = IF s = <<>> \/ Head(s) = Erased THEN Absent
                                 ELSE IF like = {} THEN 0 ELSE CHOOSE v \in like : TRUE
    BY Zenon DEF StoredNumber
  <1>2. cells[Start[f]] # Nul /\ cells[Start[f]] # Erased
    BY ValuesAssumption DEF Nul, Erased
  <1>3. s # <<>> /\ Head(s) = <<t, i>> /\ s[1] = <<t, i>>
    BY <1>2, FirstByte, FieldNames DEF Fields, NotifyField
  <1>4. ASSUME NEW v \in Levels, s = AsRead(f, Spelled(LevelText[v])) PROVE FALSE
    <2> DEFINE u == LevelText[v]
    <2>1. u \in Texts /\ u # t
      BY TextsAssumption, ValuesAssumption
    <2> HIDE DEF u
    <2> DEFINE w == Spelled(u)
               n == IF Len(w) < Size[f] THEN Len(w) ELSE Size[f]
    <2>2. /\ w \in Seq(Characters) /\ Len(w) >= 1 /\ w[1] = <<u, 1>> /\ Len(w) \in Nat
          /\ \A k \in 1 .. Len(w) : w[k] # Nul
      BY <2>1, SpelledType, SpelledFacts, WritingType
    <2>3. Size[f] \in Nat /\ Size[f] >= 1
      BY RegionProperties DEF Fields, NotifyField
    <2> HIDE DEF w
    <2>4. n \in 1 .. Len(w)
      BY <2>2, <2>3
    <2> HIDE DEF n
    <2> DEFINE start == SubSeq(w, 1, n)
    <2>5. /\ start \in Seq(Characters) /\ Len(start) = n /\ start[1] = w[1]
          /\ \A k \in 1 .. n : start[k] # Nul
      BY <2>2, <2>4
    <2> HIDE DEF start
    <2>6. UpToNul(start) = start
      BY <2>5, NoZero
    <2>7. s = start
      BY <1>4, <2>6 DEF AsRead, start, n, w, u
    <2>8. <<t, i>> = <<u, 1>>
      BY <1>3, <2>2, <2>5, <2>7
    <2> QED  BY <2>1, <2>8
  <1>5. like = {}
    BY <1>4
  <1>6. <<t, i>> # Erased
    BY <1>2
  <1> HIDE DEF s, like
  <1> QED  BY <1>1, <1>3, <1>5, <1>6

LEMMA StoredIntervalFacts ==
    ASSUME NEW cells
    PROVE  /\ Reads(cells, "interval") = <<>> => StoredInterval(cells) = Absent
           /\ \A v \in Intervals :
                Reads(cells, "interval") = Spelled(IntervalText[v]) => StoredInterval(cells) = v
  <1> DEFINE like == {v \in Intervals : Holds(cells, "interval", IntervalText[v])}
  <1>1. StoredInterval(cells) = IF like = {} THEN Absent ELSE CHOOSE v \in like : TRUE
    BY Zenon DEF StoredInterval
  <1>2. \A v \in Intervals : IntervalText[v] \in Texts
    BY ValuesAssumption
  <1>3. ASSUME Reads(cells, "interval") = <<>> PROVE StoredInterval(cells) = Absent
    <2>1. \A v \in Intervals : Spelled(IntervalText[v]) # <<>>
      BY <1>2, SpelledFacts, EmptyType
    <2>2. like = {}
      BY <1>3, <2>1 DEF Holds
    <2> QED  BY <1>1, <2>2
  <1>4. ASSUME NEW v \in Intervals, Reads(cells, "interval") = Spelled(IntervalText[v])
        PROVE  StoredInterval(cells) = v
    <2>1. \A w \in Intervals : Spelled(IntervalText[v]) = Spelled(IntervalText[w]) => w = v
      BY <1>2, SpelledFacts, ValuesAssumption
    <2>2. like = {v}
      BY <1>4, <2>1 DEF Holds
    <2> HIDE DEF like
    <2> QED  BY <1>1, <2>2
  <1> QED  BY <1>3, <1>4

LEMMA StoredEmailFacts ==
    ASSUME NEW cells
    PROVE  /\ Reads(cells, "email") = <<>> => StoredEmail(cells) = Absent
           /\ StoredEmail(cells) \in (Emails \ {NoEmail}) \cup {Absent}
  <1> DEFINE like == {v \in Emails \ {NoEmail} : Holds(cells, "email", EmailText[v])}
  <1>1. StoredEmail(cells) = IF like = {} THEN Absent ELSE CHOOSE v \in like : TRUE
    BY Zenon DEF StoredEmail
  <1>2. like # {} => (CHOOSE v \in like : TRUE) \in Emails \ {NoEmail}
    OBVIOUS
  <1>3. ASSUME Reads(cells, "email") = <<>> PROVE StoredEmail(cells) = Absent
    <2>1. \A v \in Emails \ {NoEmail} : Spelled(EmailText[v]) # <<>>
      BY ValuesAssumption, SpelledFacts, EmptyType
    <2>2. like = {}
      BY <1>3, <2>1 DEF Holds
    <2> QED  BY <1>1, <2>2
  <1> HIDE DEF like
  <1>4. StoredEmail(cells) \in (Emails \ {NoEmail}) \cup {Absent}
    BY <1>1, <1>2
  <1> QED  BY <1>3, <1>4

LEMMA StoredSwitchFacts ==
    ASSUME NEW cells
    PROVE  Reads(cells, "isSend") # <<>> => StoredSwitch(cells) \in {On, Off}
  BY Zenon DEF StoredSwitch

-----------------------------------------------------------------------------
(* A commit keeps one setting *)

(* What the texts in RAM are: those the firmware writes for a value, or, at *)
(* the interval, what it has read.                                          *)
Writes(cells, f, s) ==
    /\ f \in NumericField \cup {"isSend"} => \E t \in Texts : s = Spelled(t)
    /\ f = "interval" => \/ s = Raw(cells, "interval")
                         \/ \E v \in Intervals : s = Spelled(IntervalText[v])

WithField(r, f, v) == [r EXCEPT !.notify = [@ EXCEPT ![f] = v]]

LEMMA FieldKept ==
    ASSUME NEW cells, NEW new, NEW f \in NotifyField, NEW v,
           \A g \in Fields \ {f} : Alike(new, cells, g), StoredNotify(new)[f] = v
    PROVE  Record(new) = WithField(Record(cells), f, v)
  <1>1. /\ f \in Fields \ {"ssid", "pass", "mode", "interval"} /\ NotifyField \subseteq Fields
        /\ {"ssid", "pass", "mode", "interval"} \subseteq Fields
    BY DEF Fields, NotifyField, NumericField
  <1>2. /\ StoredCreds(new) = StoredCreds(cells) /\ StoredMode(new) = StoredMode(cells)
        /\ StoredInterval(new) = StoredInterval(cells)
        /\ \A g \in NotifyField \ {f} : StoredNotify(new)[g] = StoredNotify(cells)[g]
    BY <1>1, PartsAlike
  <1>3. StoredNotify(new) = [StoredNotify(cells) EXCEPT ![f] = v]
    <2> DEFINE a == StoredNotify(new)
               b == StoredNotify(cells)
    <2>1. a = [g \in NotifyField |-> a[g]] /\ b = [g \in NotifyField |-> b[g]]
      BY NotifyParts
    <2>2. a[f] = v /\ \A g \in NotifyField \ {f} : a[g] = b[g]
      BY <1>2
    <2> HIDE DEF a, b
    <2>3. a = [b EXCEPT ![f] = v]
      BY <2>1, <2>2
    <2> QED  BY <2>3 DEF a, b
  <1>4. /\ Record(new) = [creds |-> StoredCreds(cells), mode |-> StoredMode(cells),
                          interval |-> StoredInterval(cells), notify |-> StoredNotify(new)]
        /\ Record(cells) = [creds |-> StoredCreds(cells), mode |-> StoredMode(cells),
                            interval |-> StoredInterval(cells), notify |-> StoredNotify(cells)]
    BY <1>2, RecordParts
  <1> DEFINE r == Record(cells)
  <1> HIDE DEF r
  <1>5. r.notify = StoredNotify(cells) /\ Record(new) = [r EXCEPT !.notify = StoredNotify(new)]
    BY <1>4 DEF r
  <1> QED  BY <1>3, <1>5 DEF r, WithField

LEMMA IntervalKept ==
    ASSUME NEW cells, NEW new, NEW v, \A g \in Fields \ {"interval"} : Alike(new, cells, g),
           StoredInterval(new) = v
    PROVE  Record(new) = [Record(cells) EXCEPT !.interval = v]
  <1>1. "interval" \in Fields /\ "interval" \notin NotifyField
    BY DEF Fields, NotifyField, NumericField
  <1>2. /\ StoredCreds(new) = StoredCreds(cells) /\ StoredMode(new) = StoredMode(cells)
        /\ StoredNotify(new) = StoredNotify(cells)
    BY <1>1, PartsElsewhere
  <1> QED  BY <1>2, RecordParts

LEMMA ModeKept ==
    ASSUME NEW cells, NEW new, NEW v, \A g \in Fields \ {"mode"} : Alike(new, cells, g),
           StoredMode(new) = v
    PROVE  Record(new) = [Record(cells) EXCEPT !.mode = v]
  <1>1. "mode" \in Fields /\ "mode" \notin NotifyField
    BY DEF Fields, NotifyField, NumericField
  <1>2. /\ StoredCreds(new) = StoredCreds(cells) /\ StoredInterval(new) = StoredInterval(cells)
        /\ StoredNotify(new) = StoredNotify(cells)
    BY <1>1, PartsElsewhere
  <1> QED  BY <1>2, RecordParts

LEMMA CommitKeeps ==
    ASSUME NEW m \in Memories, NEW f \in KeptFields, NEW s \in Writings, Writes(m.cells, f, s),
           WriteField(m, f, s).fits
    PROVE  LET old == Record(m.cells)
               new == Record(WriteField(m, f, s).cells)
           IN  \/ new = old
               \/ /\ f \in NotifyField
                  /\ \E v \in FieldValues(f) :
                       new = WithField(old, f, Store(f, v))
               \/ \E v \in Intervals : new = [old EXCEPT !.interval = v]
  <1> DEFINE cells == m.cells
             new == WriteField(m, f, s).cells
  <1>1. /\ cells \in [Addresses -> Cells] /\ f \in Fields /\ f \in NotifyField \cup {"interval"}
    BY MemoryType, FieldNames DEF KeptFields
  <1>2. /\ Len(s) <= Size[f] /\ new \in [Addresses -> Cells] /\ Reads(new, f) = AsRead(f, s)
        /\ \A g \in Fields \ {f} : Alike(new, cells, g)
    BY <1>1, FittingWrite
  <1> HIDE DEF cells, new
  <1>3. ASSUME NEW t \in Texts, s = Spelled(t)
        PROVE  /\ Reads(new, f) = Spelled(t) /\ Reads(new, f) # <<>>
               /\ new[Start[f]] = <<t, 1>>
    <2>1. Reads(new, f) = Spelled(t)
      BY <1>1, <1>2, <1>3, FittingText
    <2>2. Spelled(t) # <<>> /\ Spelled(t)[1] = <<t, 1>>
      BY SpelledFacts, EmptyType
    <2>3. new[Start[f]] # Nul
      BY <1>1, <1>2, <2>1, <2>2, FirstByte
    <2>4. new[Start[f]] = Reads(new, f)[1]
      BY <1>1, <1>2, <2>3, FirstByte
    <2> QED  BY <2>1, <2>2, <2>4
  <1>4. ASSUME f \in NotifyField, NEW v \in FieldValues(f), StoredNotify(new)[f] = Store(f, v)
        PROVE  \E w \in FieldValues(f) :
                 Record(new) = WithField(Record(cells), f, Store(f, w))
    <2>1. Record(new) = WithField(Record(cells), f, Store(f, v))
      BY <1>2, <1>4, FieldKept
    <2> QED  BY <2>1
  <1>5. CASE f \in NumericField
    <2>1. PICK t \in Texts : s = Spelled(t)
      BY <1>5 DEF Writes
    <2>2. new[Start[f]] \notin {Nul, Erased}
      <3>1. new[Start[f]] = <<t, 1>>
        BY <1>3, <2>1
      <3> QED  BY <3>1, ValuesAssumption DEF Nul, Erased
    <2>3. StoredNumber(new, f) \in Levels
      BY <1>2, <1>5, <2>2, StoredNumberFacts
    <2>4. StoredNotify(new)[f] = Store(f, StoredNumber(new, f)) /\ FieldValues(f) = Levels
      BY <1>5, NotifyParts DEF Store, FieldValues, NumericField
    <2>5. f \in NotifyField
      BY <1>5 DEF NotifyField
    <2> QED  BY <1>4, <2>3, <2>4, <2>5 DEF new, cells
  <1>6. CASE f = "email"
    <2>1. StoredEmail(new) \in (Emails \ {NoEmail}) \cup {Absent}
      BY StoredEmailFacts
    <2>2. FieldValues(f) = Emails /\ NoEmail \in Emails /\ f \in NotifyField
      BY <1>6, EmailsAssumption DEF FieldValues, NumericField, NotifyField
    <2>3. \E v \in FieldValues(f) : StoredNotify(new)[f] = Store(f, v)
      BY <1>6, <2>1, <2>2, NotifyParts DEF Store
    <2> QED  BY <1>4, <2>2, <2>3 DEF new, cells
  <1>7. CASE f = "isSend"
    <2>1. PICK t \in Texts : s = Spelled(t)
      BY <1>7 DEF Writes
    <2>2. StoredSwitch(new) \in {On, Off}
      BY <1>3, <1>7, <2>1, StoredSwitchFacts
    <2>3. FieldValues(f) = {On, Off} /\ f \in NotifyField /\ f # "email"
      BY <1>7 DEF FieldValues, NumericField, NotifyField
    <2>4. StoredNotify(new)[f] = Store(f, StoredSwitch(new))
      BY <1>7, <2>3, NotifyParts DEF Store
    <2> QED  BY <1>4, <2>2, <2>3, <2>4 DEF new, cells
  <1>8. CASE f = "interval"
    <2>1. CASE s = Raw(cells, "interval")
      <3>1. Reads(new, f) = Reads(cells, f)
        <4>1. Len(s) = Size[f] /\ s \in Seq(Characters)
          BY <1>1, <1>8, <2>1, RawType, WritingType
        <4>2. AsRead(f, s) = UpToNul(SubSeq(s, 1, Size[f])) /\ SubSeq(s, 1, Size[f]) = s
          BY <4>1, <1>1, RegionProperties DEF AsRead
        <4> QED  BY <1>2, <1>8, <2>1, <4>2 DEF Reads
      <3>2. StoredInterval(new) = StoredInterval(cells)
        BY <1>8, <3>1, SameReading
      <3>3. Record(new) = [Record(cells) EXCEPT !.interval = StoredInterval(cells)]
        BY <1>2, <1>8, <3>2, IntervalKept
      <3>4. Record(new) = Record(cells)
        BY <3>3, RecordParts
      <3> QED  BY <3>4 DEF new, cells
    <2>2. CASE s # Raw(cells, "interval")
      <3>1. PICK v \in Intervals : s = Spelled(IntervalText[v])
        BY <1>8, <2>2 DEF Writes, cells
      <3>2. IntervalText[v] \in Texts
        BY ValuesAssumption
      <3>3. StoredInterval(new) = v
        BY <1>3, <1>8, <3>1, <3>2, StoredIntervalFacts
      <3>4. Record(new) = [Record(cells) EXCEPT !.interval = v]
        BY <1>2, <1>8, <3>3, IntervalKept
      <3> QED  BY <3>4 DEF new, cells
    <2> QED  BY <2>1, <2>2
  <1> QED  BY <1>1, <1>5, <1>6, <1>7, <1>8 DEF NotifyField

-----------------------------------------------------------------------------
(* The end of setup mode *)

LEMMA LeaveFollows ==
    ASSUME NEW m \in Memories, Holds(m.cells, "mode", "setup"),
           CopyField(m, "mode", Spelled("burst")).fits
    PROVE  /\ Record(m.cells).mode = "setup"
           /\ Record(CopyField(m, "mode", Spelled("burst")).cells) =
                [Record(m.cells) EXCEPT !.mode = "burst"]
  <1> DEFINE cells == m.cells
             s == Spelled("burst")
             new == CopyField(m, "mode", s).cells
             raw == Raw(cells, "mode")
             zeros == {i \in DOMAIN raw : raw[i] = Nul}
  <1>1. cells \in [Addresses -> Cells] /\ "mode" \in Fields /\ Start["mode"] \in Nat
    BY MemoryType, RegionProperties, FieldNames
  <1>2. /\ s \in Writings /\ Len(s) = Length["setup"] /\ Length["setup"] \in Nat
        /\ Len(Spelled("setup")) = Length["setup"] /\ "burst" \in Texts /\ "setup" \in Texts
    BY TextsAssumption, SpelledType, LayoutAssumption
  <1>3. /\ Len(s) <= Size["mode"] /\ new \in [Addresses -> Cells]
        /\ \A c \in Addresses : new[c] =
             IF c \in Span(Start["mode"], s) THEN s[c - Start["mode"] + 1] ELSE cells[c]
        /\ \A g \in Fields \ {"mode"} : Alike(new, cells, g)
    BY <1>1, <1>2, FittingCopy
  <1>4. /\ raw \in Seq(Cells) /\ Len(raw) = Size["mode"] /\ Size["mode"] \in Nat
        /\ \A i \in 1 .. Size["mode"] : raw[i] = cells[Start["mode"] + i - 1]
    BY <1>1, RawType, RegionProperties
  <1>5. UpToNul(raw) = Spelled("setup")
    BY DEF Holds, Reads
  <1> HIDE DEF cells, s, new, raw
  <1>6. Len(s) < Size["mode"] => cells[Start["mode"] + (Len(s) + 1) - 1] = Nul
    <2> SUFFICES ASSUME Len(s) < Size["mode"]
                 PROVE  cells[Start["mode"] + (Len(s) + 1) - 1] = Nul
      OBVIOUS
    <2>1. UpToNul(raw) = IF zeros = {} THEN raw ELSE SubSeq(raw, 1, Min(zeros) - 1)
      BY DEF UpToNul
    <2>2. zeros # {}
      BY <1>2, <1>4, <1>5, <2>1
    <2>3. zeros \subseteq Nat /\ zeros \subseteq 1 .. Size["mode"]
      BY <1>4
    <2>4. Min(zeros) \in zeros
      BY <2>2, <2>3, MinProperties
    <2> DEFINE k == Min(zeros)
    <2>5. k \in 1 .. Size["mode"] /\ raw[k] = Nul /\ UpToNul(raw) = SubSeq(raw, 1, k - 1)
      BY <2>1, <2>2, <2>3, <2>4
    <2> HIDE DEF k
    <2>6. Len(SubSeq(raw, 1, k - 1)) = k - 1
      BY <1>4, <2>5
    <2>7. k = Len(s) + 1
      BY <1>2, <1>5, <2>5, <2>6
    <2>8. Len(s) + 1 \in 1 .. Size["mode"] /\ raw[Len(s) + 1] = Nul
      BY <2>5, <2>7
    <2> QED  BY <1>4, <2>8
  <1>7. ASSUME NEW i \in 1 .. Size["mode"]
        PROVE  /\ i <= Len(s) => new[Start["mode"] + i - 1] = s[i]
               /\ i = Len(s) + 1 => new[Start["mode"] + i - 1] = Nul
    <2>1. PICK c \in Addresses : c = Start["mode"] + i - 1
      BY <1>1, RegionBytes
    <2>2. c \in Span(Start["mode"], s) <=> i <= Len(s)
      BY <1>1, <1>2, <2>1 DEF Span
    <2>3. c - Start["mode"] + 1 = i
      BY <1>1, <2>1
    <2>4. i <= Len(s) => new[c] = s[i]
      BY <1>3, <2>2, <2>3
    <2>5. i = Len(s) + 1 => new[c] = Nul
      <3> SUFFICES ASSUME i = Len(s) + 1 PROVE new[c] = Nul
        OBVIOUS
      <3>1. ~(i <= Len(s)) /\ Len(s) < Size["mode"]
        BY <1>2, <1>4
      <3>2. cells[c] = Nul
        BY <1>6, <2>1, <3>1
      <3> QED  BY <1>3, <2>2, <3>1, <3>2
    <2> QED  BY <2>1, <2>4, <2>5
  <1>8. Begun(new, "mode", s)
    BY <1>7 DEF Begun
  <1>9. Reads(new, "mode") = s
    <2>1. Reads(new, "mode") = AsRead("mode", s)
      BY <1>1, <1>2, <1>3, <1>8, BegunReadsBack
    <2> QED  BY <1>1, <1>2, <1>3, <2>1, FittingText DEF s
  <1>10. StoredMode(new) = "burst"
    <2>1. s # Spelled("setup")
      BY <1>2, SpelledFacts DEF s
    <2> QED  BY <1>9, <2>1 DEF StoredMode, Holds, s
  <1>11. StoredMode(cells) = "setup"
    BY DEF StoredMode, cells
  <1>12. Record(new) = [Record(cells) EXCEPT !.mode = "burst"]
    BY <1>3, <1>10, ModeKept
  <1>13. Record(cells).mode = "setup"
    BY <1>11, RecordParts
  <1> QED  BY <1>12, <1>13 DEF new, cells, s

-----------------------------------------------------------------------------
(* A request, part by part *)

(* A part of /setting that is cleared and written. *)
LEMMA ArgumentFollows ==
    ASSUME NEW m \in Memories, NEW f \in {"fbhost", "fbauth", "mode", "name", "interval"},
           NEW t \in Texts \cup {NoText}, WriteArgument(m, f, t).fits
    PROVE  /\ m.fits
           /\ StoredCreds(WriteArgument(m, f, t).cells) = StoredCreds(m.cells)
           /\ StoredNotify(WriteArgument(m, f, t).cells) = StoredNotify(m.cells)
           /\ f # "mode" \/ t = NoText
                => StoredMode(WriteArgument(m, f, t).cells) = StoredMode(m.cells)
           /\ f # "interval" \/ t = NoText
                => StoredInterval(WriteArgument(m, f, t).cells) = StoredInterval(m.cells)
           /\ t # NoText => Reads(WriteArgument(m, f, t).cells, f) = Spelled(t)
  <1> DEFINE n == WriteArgument(m, f, t)
  <1>1. CASE t = NoText
    <2>1. n = m
      BY <1>1 DEF WriteArgument
    <2> HIDE DEF n
    <2> QED  BY <1>1, <2>1 DEF n
  <1>2. CASE t # NoText
    <2>1. t \in Texts /\ Spelled(t) \in Writings
      BY <1>2, SpelledType
    <2>2. n = WriteField(m, f, Spelled(t))
      BY <1>2 DEF WriteArgument
    <2>3. f \in Fields /\ f \notin NotifyField /\ f \notin {"ssid", "pass"}
      BY DEF Fields, NotifyField, NumericField
    <2>4. WriteField(m, f, Spelled(t)).fits
      BY <2>2
    <2>5. /\ m.fits /\ Len(Spelled(t)) <= Size[f]
          /\ Reads(n.cells, f) = AsRead(f, Spelled(t))
          /\ \A g \in Fields \ {f} : Alike(n.cells, m.cells, g)
      BY <2>1, <2>2, <2>3, <2>4, FittingWrite
    <2>6. Reads(n.cells, f) = Spelled(t)
      BY <2>1, <2>3, <2>5, FittingText
    <2> HIDE DEF n
    <2>7. /\ StoredCreds(n.cells) = StoredCreds(m.cells)
          /\ StoredNotify(n.cells) = StoredNotify(m.cells)
          /\ f # "mode" => StoredMode(n.cells) = StoredMode(m.cells)
          /\ f # "interval" => StoredInterval(n.cells) = StoredInterval(m.cells)
      BY <2>3, <2>5, PartsElsewhere
    <2> QED  BY <1>2, <2>5, <2>6, <2>7 DEF n
  <1> QED  BY <1>1, <1>2

(* The thresholds up to the third start with a piece of the uid, the fourth *)
(* and the address are empty; what lies below and beyond is untouched.      *)
LEMMA FieldOrder ==
    /\ \A f \in {"ssid", "pass", "fbhost", "fbauth", "mode", "name", "interval"} :
         Start[f] + Size[f] <= Start["humidLower"]
    /\ Start["humidLower"] < Start["humidHigher"] /\ Start["humidHigher"] < Start["tempLower"]
    /\ Start["tempLower"] < Start["tempHigher"] /\ Start["tempHigher"] < Start["email"]
    /\ ClearEnd = Start["humidLower"] + UidSize
  <1>1. /\ SourceStart["humidLower"] = 318 /\ SourceStart["humidHigher"] = 328
        /\ SourceStart["tempLower"] = 338 /\ SourceStart["tempHigher"] = 348
        /\ SourceStart["email"] = 358
    BY DEF SourceStart, Fields, NotifyField, NumericField
  <1>2. \A f \in {"ssid", "pass", "fbhost", "fbauth", "mode", "name", "interval"} :
          f \in Fields /\ SourceStart[f] < 318
    BY DEF SourceStart, Fields, NotifyField, NumericField
  <1>3. {"humidLower", "humidHigher", "tempLower", "tempHigher", "email"} \subseteq Fields
    BY FieldNames
  <1>4. \A f, g \in Fields : /\ SourceStart[f] < SourceStart[g] => Start[f] < Start[g]
                             /\ Start[f] < Start[g] => Start[f] + Size[f] <= Start[g]
    BY LayoutAssumption
  <1>5. /\ Start["humidLower"] < Start["humidHigher"] /\ Start["humidHigher"] < Start["tempLower"]
        /\ Start["tempLower"] < Start["tempHigher"] /\ Start["tempHigher"] < Start["email"]
    BY <1>1, <1>3, <1>4
  <1>6. \A f \in {"ssid", "pass", "fbhost", "fbauth", "mode", "name", "interval"} :
          Start[f] + Size[f] <= Start["humidLower"]
    BY <1>1, <1>2, <1>3, <1>4
  <1> QED  BY <1>5, <1>6, LayoutAssumption

LEMMA UidCells ==
    ASSUME NEW m \in Memories, NEW t \in UidTexts, t \in Texts, WriteUid(m, t).fits
    PROVE  /\ m.fits /\ Start["humidLower"] + Length[t] <= Start["tempHigher"]
           /\ WriteUid(m, t).cells \in [Addresses -> Cells]
           /\ \A c \in Addresses : WriteUid(m, t).cells[c] =
                IF c \in Start["humidLower"] .. Start["humidLower"] + Length[t] - 1
                THEN <<t, c - Start["humidLower"] + 1>>
                ELSE IF c \in UidRegion THEN Nul ELSE m.cells[c]
  <1> DEFINE s == Spelled(t)
             at == Start["humidLower"]
             cleared == Cleared(m.cells, UidRegion)
             new == Copied(cleared, at, s)
             fits == m.fits /\ at + Len(s) <= Start["tempHigher"]
  <1>1. t # NoText
    BY DEF UidTexts
  <1>2. WriteUid(m, t).cells = new /\ WriteUid(m, t).fits = fits
    BY <1>1 DEF WriteUid
  <1>3. s \in Writings /\ Len(s) = Length[t] /\ \A i \in 1 .. Length[t] : s[i] = <<t, i>>
    BY SpelledType
  <1>4. at \in Nat /\ Length[t] \in Nat
    BY RegionProperties, FieldNames, LayoutAssumption
  <1>5. m.cells \in [Addresses -> Cells]
    BY MemoryType
  <1>6. /\ cleared \in [Addresses -> Cells]
        /\ \A c \in Addresses : cleared[c] = IF c \in UidRegion THEN Nul ELSE m.cells[c]
    BY <1>5, ClearedProperties
  <1>7. fits
    BY <1>2
  <1> HIDE DEF cleared, s, at
  <1>8. /\ new \in [Addresses -> Cells]
        /\ \A c \in Addresses : new[c] = IF c \in Span(at, s) THEN s[c - at + 1] ELSE cleared[c]
    BY <1>3, <1>4, <1>6, CopiedProperties
  <1> HIDE DEF new
  <1>9. ASSUME NEW c \in Addresses
        PROVE  new[c] = IF c \in at .. at + Length[t] - 1 THEN <<t, c - at + 1>>
                        ELSE IF c \in UidRegion THEN Nul ELSE m.cells[c]
    <2>1. Span(at, s) = at .. at + Length[t] - 1
      BY <1>3 DEF Span
    <2>2. CASE c \in Span(at, s)
      <3>1. c - at + 1 \in 1 .. Length[t]
        BY <1>4, <2>1, <2>2
      <3>2. s[c - at + 1] = <<t, c - at + 1>>
        BY <1>3, <3>1
      <3> QED  BY <1>8, <2>1, <2>2, <3>2
    <2>3. CASE c \notin Span(at, s)
      BY <1>6, <1>8, <2>1, <2>3
    <2> QED  BY <2>2, <2>3
  <1> QED  BY <1>2, <1>3, <1>7, <1>8, <1>9 DEF at

LEMMA UidFollows ==
    ASSUME NEW m \in Memories, NEW t \in UidTexts, t \in Texts, WriteUid(m, t).fits
    PROVE  /\ m.fits
           /\ StoredCreds(WriteUid(m, t).cells) = StoredCreds(m.cells)
           /\ StoredMode(WriteUid(m, t).cells) = StoredMode(m.cells)
           /\ StoredInterval(WriteUid(m, t).cells) = StoredInterval(m.cells)
           /\ StoredNotify(WriteUid(m, t).cells) = UidOverNotify(StoredNotify(m.cells))
  <1> DEFINE new == WriteUid(m, t).cells
             cells == m.cells
             at == Start["humidLower"]
             n == Length[t]
  <1>1. /\ m.fits /\ at + n <= Start["tempHigher"] /\ new \in [Addresses -> Cells]
        /\ \A c \in Addresses : new[c] = IF c \in at .. at + n - 1 THEN <<t, c - at + 1>>
                                         ELSE IF c \in UidRegion THEN Nul ELSE cells[c]
    BY UidCells
  <1>2. /\ cells \in [Addresses -> Cells] /\ n \in Nat /\ at \in Nat
        /\ \A f \in Fields : Start[f] \in Nat /\ Size[f] \in Nat /\ Size[f] >= 1
        /\ UidSize \in Nat /\ Start["email"] < ClearEnd /\ ClearEnd < Start["isSend"]
    BY MemoryType, RegionProperties, FieldNames, LayoutAssumption
  <1>3. /\ \A f \in {"ssid", "pass", "fbhost", "fbauth", "mode", "name", "interval"} :
             Start[f] + Size[f] <= at
        /\ at < Start["humidHigher"] /\ Start["humidHigher"] < Start["tempLower"]
        /\ Start["tempLower"] < Start["tempHigher"] /\ Start["tempHigher"] < Start["email"]
        /\ ClearEnd = at + UidSize
    BY FieldOrder
  <1>4. Start["tempLower"] < at + n
    BY ValuesAssumption
  <1>5. /\ "humidLower" \in Fields /\ "humidHigher" \in Fields /\ "tempLower" \in Fields
        /\ "tempHigher" \in Fields /\ "email" \in Fields /\ "isSend" \in Fields
        /\ {"ssid", "pass", "fbhost", "fbauth", "mode", "name", "interval"} \subseteq Fields
    BY FieldNames
  <1>6. UidRegion = at .. ClearEnd - 1
    <2>1. ClearEnd = at + UidSize /\ at \in Nat /\ UidSize \in Nat
      BY <1>2, <1>3
    <2>2. UidRegion = at .. at + UidSize - 1
      BY Zenon DEF UidRegion
    <2> HIDE DEF at
    <2>3. at + UidSize - 1 = ClearEnd - 1
      BY <2>1
    <2> QED  BY <2>2, <2>3
  <1>7. \A f \in Fields : Start[f] \in Addresses /\ Region(f) \subseteq Addresses
    <2> SUFFICES ASSUME NEW f \in Fields PROVE Start[f] \in Addresses /\ Region(f) \subseteq Addresses
      OBVIOUS
    <2>1. Start[f] \in Region(f)
      BY <1>2 DEF Region
    <2> QED  BY <2>1, RegionBytes
  <1> HIDE DEF new, cells, at, n
  <1>8. ASSUME NEW f \in {"ssid", "pass", "mode", "interval", "isSend"}
        PROVE  Alike(new, cells, f)
    <2>1. \A c \in Region(f) : c \in Addresses /\ (c < at \/ c >= Start["isSend"])
      <3>1. f \in Fields
        BY <1>5
      <3>2. CASE f = "isSend"
        BY <1>2, <1>7, <3>1, <3>2 DEF Region
      <3>3. CASE f # "isSend"
        BY <1>2, <1>3, <1>7, <3>1, <3>3 DEF Region
      <3> QED  BY <3>2, <3>3
    <2>2. \A c \in Region(f) : c \notin at .. at + n - 1 /\ c \notin UidRegion
      <3>1. /\ Start["isSend"] \in Nat /\ Start["tempHigher"] \in Nat /\ Start["email"] \in Nat
            /\ ClearEnd \in Nat
        BY <1>2, <1>5, RegionProperties
      <3>2. at + n <= Start["isSend"] /\ ClearEnd <= Start["isSend"]
        BY <1>1, <1>2, <1>3, <3>1
      <3> QED  BY <1>2, <1>6, <2>1, <3>1, <3>2 DEF Addresses
    <2>3. \A c \in Region(f) : new[c] = cells[c]
      BY <1>1, <2>1, <2>2
    <2> QED  BY <1>5, <2>3, FrameAlike
  <1>9. ASSUME NEW f \in {"humidLower", "humidHigher", "tempLower"}
        PROVE  StoredNotify(new)[f] = 0
    <2>1. f \in Fields /\ f \in NumericField
      BY <1>5 DEF NumericField
    <2>2. Start[f] \in at .. at + n - 1
      <3>1. /\ Start["humidHigher"] \in Nat /\ Start["tempLower"] \in Nat
        BY <1>2, <1>5
      <3>2. Start["humidLower"] = at
        BY DEF at
      <3>3. at < at + n /\ Start["humidHigher"] < at + n /\ at < Start["tempLower"]
        BY <1>2, <1>3, <1>4, <3>1
      <3> QED  BY <1>2, <1>3, <1>4, <3>1, <3>2, <3>3
    <2>3. PICK i : new[Start[f]] = <<t, i>>
      BY <1>1, <1>7, <2>1, <2>2
    <2> QED  BY <1>1, <2>1, <2>3, UidIsNoNumber, NotifyParts
  <1>10. ASSUME NEW f \in {"tempHigher", "email"} PROVE new[Start[f]] = Nul
    <2>1. /\ Start["tempHigher"] \in Nat /\ Start["email"] \in Nat /\ ClearEnd \in Nat
          /\ Start["humidHigher"] \in Nat /\ Start["tempLower"] \in Nat
      BY <1>2, <1>5, RegionProperties
    <2>2. Start[f] \notin at .. at + n - 1 /\ Start[f] \in UidRegion
      <3>1. Start[f] >= Start["tempHigher"] /\ Start[f] <= Start["email"] /\ Start[f] \in Nat
        BY <1>3, <2>1
      <3>2. at + n - 1 < Start[f] /\ at <= Start[f] /\ Start[f] <= ClearEnd - 1
        BY <1>1, <1>2, <1>3, <2>1, <3>1
      <3> QED  BY <1>2, <1>6, <2>1, <3>1, <3>2
    <2> QED  BY <1>1, <1>5, <1>7, <2>2
  <1>11. StoredNotify(new)["tempHigher"] = Absent
    BY <1>1, <1>10, StoredNumberFacts, NotifyParts DEF NumericField
  <1>12. StoredNotify(new)["email"] = Absent
    BY <1>1, <1>5, <1>10, FirstByte, StoredEmailFacts, NotifyParts
  <1>13. StoredNotify(new)["isSend"] = StoredNotify(cells)["isSend"]
    BY <1>8, PartsAlike DEF NotifyField
  <1>14. StoredNotify(new) = UidOverNotify(StoredNotify(cells))
    <2> DEFINE a == StoredNotify(new)
               b == StoredNotify(cells)
    <2>1. a = [g \in NotifyField |-> a[g]]
      BY NotifyParts
    <2>2. /\ a["humidLower"] = 0 /\ a["humidHigher"] = 0 /\ a["tempLower"] = 0
          /\ a["tempHigher"] = Absent /\ a["email"] = Absent /\ a["isSend"] = b["isSend"]
      BY <1>9, <1>11, <1>12, <1>13
    <2> HIDE DEF a, b
    <2>3. a = UidOverNotify(b)
      BY <2>1, <2>2 DEF UidOverNotify, NotifyField, NumericField
    <2> QED  BY <2>3 DEF a, b
  <1>15. /\ StoredCreds(new) = StoredCreds(cells) /\ StoredMode(new) = StoredMode(cells)
         /\ StoredInterval(new) = StoredInterval(cells)
    BY <1>8, PartsAlike
  <1> QED  BY <1>1, <1>14, <1>15 DEF new, cells

(* Credentials clear everything below isSendNotify that is read. *)
LEMMA OwnerCells ==
    ASSUME NEW m \in Memories
    PROVE  /\ ClearForOwner(m).cells \in [Addresses -> Cells]
           /\ ClearForOwner(m).fits = m.fits
           /\ \A f \in Fields \ {"isSend"} : ClearForOwner(m).cells[Start[f]] = Nul
           /\ \A f \in {"ssid", "pass"} : \A i \in 1 .. Size[f] :
                ClearForOwner(m).cells[Start[f] + i - 1] = Nul
           /\ Alike(ClearForOwner(m).cells, m.cells, "isSend")
  <1> DEFINE n == ClearForOwner(m)
             where == 0 .. ClearEnd - 1
             cells == Cleared(m.cells, where)
             given == [f \in Fields |-> IF f = "isSend" THEN m.given[f] ELSE <<>>]
             spoiled == m.spoiled \cap {"isSend"}
             old == ClearEnd .. EepromSize - 1
  <1>1. n = [cells |-> cells, given |-> given, spoiled |-> spoiled, old |-> old, fits |-> m.fits]
    <2>1. n = [m EXCEPT !.cells = cells, !.given = given, !.spoiled = spoiled, !.old = old]
      BY Zenon DEF ClearForOwner
    <2> HIDE DEF n, cells, given, spoiled, old
    <2> QED  BY <2>1, MemoryGiven
  <1> HIDE DEF where
  <1>2. /\ cells \in [Addresses -> Cells]
        /\ \A c \in Addresses : cells[c] = IF c \in where THEN Nul ELSE m.cells[c]
    BY MemoryType, ClearedProperties
  <1> HIDE DEF n, cells, given, spoiled, old
  <1>3. n.cells = cells /\ n.fits = m.fits
    BY <1>1
  <1>4. /\ ClearEnd \in Nat /\ Start["email"] < ClearEnd /\ ClearEnd < Start["isSend"]
        /\ \A f \in Fields : Start[f] \in Nat /\ Size[f] \in Nat /\ Size[f] >= 1
        /\ \A f \in Fields \ {"email", "isSend"} : Start[f] + Size[f] <= Start["email"]
        /\ \A f \in Fields : Region(f) \subseteq Addresses
        /\ \A f \in Fields : \A i \in 1 .. Size[f] : Start[f] + i - 1 \in Region(f)
        /\ "email" \in Fields /\ "isSend" \in Fields /\ "ssid" \in Fields /\ "pass" \in Fields
    BY RegionProperties, RegionBytes, FieldNames
  <1>5. ASSUME NEW f \in Fields \ {"isSend"} PROVE cells[Start[f]] = Nul
    <2>1. Start[f] <= Start["email"]
      BY <1>4
    <2>2. Start[f] \in where
      BY <1>4, <2>1 DEF where
    <2>3. Start[f] \in Addresses
      BY <1>4 DEF Region
    <2> QED  BY <1>2, <2>2, <2>3
  <1>6. ASSUME NEW f \in {"ssid", "pass"}, NEW i \in 1 .. Size[f]
        PROVE  cells[Start[f] + i - 1] = Nul
    <2>1. f \in Fields \ {"email", "isSend"}
      BY <1>4
    <2>2. Start[f] + i - 1 \in Addresses
      BY <1>4, <2>1
    <2>3. Start[f] + i - 1 \in where
      <3>1. Start[f] \in Nat /\ Size[f] \in Nat /\ Start["email"] \in Nat
        BY <1>4, <2>1
      <3>2. Start[f] + Size[f] <= Start["email"]
        BY <1>4, <2>1
      <3> QED  BY <1>4, <3>1, <3>2 DEF where
    <2> QED  BY <1>2, <2>2, <2>3
  <1>7. Alike(cells, m.cells, "isSend")
    <2>1. \A c \in Region("isSend") : c \in Addresses /\ c \notin where
      BY <1>4 DEF Region, where
    <2>2. \A c \in Region("isSend") : cells[c] = m.cells[c]
      BY <1>2, <2>1
    <2> QED  BY <1>4, <2>2, FrameAlike
  <1> QED  BY <1>2, <1>3, <1>5, <1>6, <1>7 DEF n

LEMMA OwnerFollows ==
    ASSUME NEW m, Sound(m), NEW q \in Provisionings, BringsCredentials(q), NewOwner(m, q).fits
    PROVE  /\ m.fits
           /\ StoredCreds(NewOwner(m, q).cells) = AsRequest(q).creds
           /\ StoredMode(NewOwner(m, q).cells) = Absent
           /\ StoredInterval(NewOwner(m, q).cells) = Absent
           /\ StoredNotify(NewOwner(m, q).cells) = ClearedNotify(StoredNotify(m.cells))
  <1> DEFINE s == Spelled(q.ssid)
             p == Spelled(q.pass)
             m0 == ClearForOwner(m)
             m1 == CopyField(m0, "ssid", s)
             new == NewOwner(m, q)
  <1>1. /\ m0.cells \in [Addresses -> Cells] /\ m0.fits = m.fits
        /\ \A f \in Fields \ {"isSend"} : m0.cells[Start[f]] = Nul
        /\ \A f \in {"ssid", "pass"} : \A i \in 1 .. Size[f] : m0.cells[Start[f] + i - 1] = Nul
        /\ Alike(m0.cells, m.cells, "isSend")
    BY OwnerCells DEF Sound
  <1>2. q.ssid \in Texts /\ q.pass \in Texts
    BY TextsAssumption DEF BringsCredentials
  <1>3. s \in Writings /\ p \in Writings
    BY <1>2, SpelledType
  <1>4. new = CopyField(m1, "pass", p)
    BY DEF NewOwner
  <1>5. /\ {"ssid", "pass", "mode", "interval"} \cup NotifyField \subseteq Fields
        /\ "ssid" \in Fields /\ "pass" \in Fields
    BY DEF Fields, NotifyField, NumericField
  <1> HIDE DEF s, p, m0, new
  <1>6. m1.cells = Copied(m0.cells, Start["ssid"], s)
    BY DEF CopyField
  <1>7. m1.cells \in [Addresses -> Cells]
    BY <1>1, <1>3, <1>5, <1>6, CopiedProperties, RegionProperties
  <1>8. Reads(m1.cells, "ssid") = AsRead("ssid", s)
    BY <1>1, <1>3, <1>5, CopyReads
  <1> HIDE DEF m1
  <1>9. /\ m1.fits /\ new.cells \in [Addresses -> Cells] /\ Len(p) <= Size["pass"]
        /\ \A g \in Fields \ {"pass"} : Alike(new.cells, m1.cells, g)
    BY <1>3, <1>4, <1>5, <1>7, FittingCopy DEF new
  <1>10. /\ m0.fits /\ Len(s) <= Size["ssid"]
         /\ \A g \in Fields \ {"ssid"} : Alike(m1.cells, m0.cells, g)
    BY <1>1, <1>3, <1>5, <1>9, FittingCopy DEF m1
  <1>11. Reads(new.cells, "pass") = AsRead("pass", p)
    <2>1. \A i \in 1 .. Size["pass"] : m1.cells[Start["pass"] + i - 1] = Nul
      <3>1. Raw(m1.cells, "pass") = Raw(m0.cells, "pass")
        BY <1>5, <1>10 DEF Alike
      <3>2. \A i \in 1 .. Size["pass"] :
              /\ Raw(m1.cells, "pass")[i] = m1.cells[Start["pass"] + i - 1]
              /\ Raw(m0.cells, "pass")[i] = m0.cells[Start["pass"] + i - 1]
        BY <1>1, <1>5, <1>7, RawType
      <3> QED  BY <1>1, <3>1, <3>2
    <2> QED  BY <1>3, <1>4, <1>5, <1>7, <2>1, CopyReads
  <1>12. Reads(new.cells, "ssid") = s /\ Reads(new.cells, "pass") = p
    <2>1. AsRead("ssid", s) = s /\ AsRead("pass", p) = p
      BY <1>2, <1>5, <1>9, <1>10, FittingText DEF s, p
    <2>2. Reads(new.cells, "ssid") = Reads(m1.cells, "ssid")
      BY <1>5, <1>9 DEF Alike
    <2> QED  BY <1>8, <1>11, <2>1, <2>2
  <1>13. StoredCreds(new.cells) = AsRequest(q).creds
    <2>1. HomeCredentials(new.cells) <=> q.ssid = HomeSsid /\ q.pass = HomePass
      <3>1. /\ s = Spelled(HomeSsid) <=> q.ssid = HomeSsid
            /\ p = Spelled(HomePass) <=> q.pass = HomePass
        BY <1>2, SpelledFacts, ValuesAssumption DEF s, p
      <3> QED  BY <1>12, <3>1 DEF HomeCredentials, Holds
    <2>2. s # <<>> /\ s[1] = <<q.ssid, 1>>
      BY <1>2, SpelledFacts, EmptyType DEF s
    <2>3. new.cells[Start["ssid"]] # Nul
      BY <1>5, <1>9, <1>12, <2>2, FirstByte
    <2>4. new.cells[Start["ssid"]] = <<q.ssid, 1>>
      BY <1>5, <1>9, <1>12, <2>2, <2>3, FirstByte
    <2>5. Erased # new.cells[Start["ssid"]]
      BY <1>2, <2>4, ValuesAssumption DEF Erased
    <2>6. StoredCreds(new.cells) = IF HomeCredentials(new.cells) THEN "home" ELSE "wrong"
      BY <1>12, <2>2, <2>5 DEF StoredCreds
    <2>7. AsRequest(q).creds = IF q.ssid = HomeSsid /\ q.pass = HomePass THEN "home" ELSE "wrong"
      BY DEF AsRequest
    <2> QED  BY <2>1, <2>6, <2>7
  <1>14. ASSUME NEW f \in Fields \ {"ssid", "pass"} PROVE Alike(new.cells, m0.cells, f)
    BY <1>9, <1>10 DEF Alike
  <1>15. ASSUME NEW f \in Fields \ {"ssid", "pass", "isSend"}
         PROVE  new.cells[Start[f]] = Nul /\ Reads(new.cells, f) = <<>>
    <2>1. new.cells[Start[f]] = Nul
      BY <1>1, <1>14 DEF Alike
    <2> QED  BY <1>9, <2>1, FirstByte
  <1>16. StoredMode(new.cells) = Absent
    <2>1. Spelled("setup") # <<>> /\ Spelled("burst") # <<>>
      BY TextsAssumption, SpelledFacts, EmptyType
    <2>2. Reads(new.cells, "mode") = <<>>
      BY <1>5, <1>15
    <2> QED  BY <2>1, <2>2 DEF StoredMode, Holds
  <1>17. StoredInterval(new.cells) = Absent
    BY <1>5, <1>15, StoredIntervalFacts
  <1>18. StoredNotify(new.cells) = ClearedNotify(StoredNotify(m.cells))
    <2> DEFINE a == StoredNotify(new.cells)
               b == StoredNotify(m.cells)
    <2>1. a = [g \in NotifyField |-> a[g]]
      BY NotifyParts
    <2>2. \A f \in NumericField : a[f] = Absent
      <3> SUFFICES ASSUME NEW f \in NumericField PROVE a[f] = Absent
        OBVIOUS
      <3>1. f \in Fields \ {"ssid", "pass", "isSend"}
        BY DEF Fields, NotifyField, NumericField
      <3>2. StoredNumber(new.cells, f) = Absent
        BY <1>9, <1>15, <3>1, StoredNumberFacts
      <3> QED  BY <3>2, NotifyParts
    <2>3. a["email"] = Absent
      <3>1. "email" \in Fields \ {"ssid", "pass", "isSend"}
        BY FieldNames
      <3> QED  BY <1>15, <3>1, StoredEmailFacts, NotifyParts
    <2>4. a["isSend"] = b["isSend"]
      <3>1. Alike(new.cells, m.cells, "isSend")
        BY <1>1, <1>5, <1>14, FieldNames DEF Alike
      <3> QED  BY <3>1, PartsAlike DEF NotifyField
    <2> HIDE DEF a, b
    <2>5. a = ClearedNotify(b)
      BY <2>1, <2>2, <2>3, <2>4 DEF ClearedNotify, ErasedNotify, NotifyField, NumericField
    <2> QED  BY <2>5 DEF a, b
  <1> QED  BY <1>1, <1>10, <1>13, <1>16, <1>17, <1>18 DEF new

LEMMA RequestFollows ==
    ASSUME NEW m, Sound(m), NEW q \in Provisionings, AfterRequest(m, q).fits
    PROVE  Record(AfterRequest(m, q).cells) = AfterSetting(AsRequest(q), Record(m.cells))
  <1> DEFINE owner == IF BringsCredentials(q) THEN NewOwner(m, q) ELSE m
             fbhost == WriteArgument(owner, "fbhost", q.fbhost)
             host == IF BringsHost(q) THEN WriteArgument(fbhost, "fbauth", q.fbauth) ELSE owner
             mode == WriteArgument(host, "mode", q.mode)
             named == WriteArgument(mode, "name", q.name)
             interval == WriteArgument(named, "interval", q.interval)
             last == WriteUid(interval, q.uid)
             r == AsRequest(q)
             base == IF r.creds = Absent THEN Record(m.cells)
                     ELSE [creds |-> r.creds, mode |-> Absent, interval |-> Absent,
                           notify |-> ClearedNotify(Record(m.cells).notify)]
  <1>1. /\ q.fbhost \in Texts \cup {NoText} /\ q.fbauth \in Texts \cup {NoText}
        /\ q.mode \in Texts \cup {NoText} /\ q.name \in Texts \cup {NoText}
        /\ q.interval \in Texts \cup {NoText} /\ q.uid \in Texts \cup {NoText}
    BY TextsAssumption
  <1>2. /\ "fbhost" \in Fields /\ "fbauth" \in Fields /\ "mode" \in Fields /\ "name" \in Fields
        /\ "interval" \in Fields
    BY FieldNames
  <1>3. AfterRequest(m, q) = last
    BY Zenon DEF AfterRequest, NewOwner
  <1>4. Sound(owner)
    BY NewOwnerSound
  <1>5. Sound(fbhost)
    <2> HIDE DEF owner
    <2> QED  BY <1>1, <1>2, <1>4, ArgumentSound
  <1>6. Sound(host)
    <2> HIDE DEF owner, fbhost
    <2>1. Sound(WriteArgument(fbhost, "fbauth", q.fbauth))
      BY <1>1, <1>2, <1>5, ArgumentSound
    <2> QED  BY <1>4, <2>1
  <1>7. Sound(mode)
    <2> HIDE DEF host
    <2> QED  BY <1>1, <1>2, <1>6, ArgumentSound
  <1>8. Sound(named)
    <2> HIDE DEF mode
    <2> QED  BY <1>1, <1>2, <1>7, ArgumentSound
  <1>9. Sound(interval)
    <2> HIDE DEF named
    <2> QED  BY <1>1, <1>2, <1>8, ArgumentSound
  <1>10. last.fits
    BY <1>3
  (* Backwards, every part fits; forwards, each changes its part of the record. *)
  <1>11. /\ interval.fits
         /\ StoredCreds(last.cells) = StoredCreds(interval.cells)
         /\ StoredMode(last.cells) = StoredMode(interval.cells)
         /\ StoredInterval(last.cells) = StoredInterval(interval.cells)
         /\ StoredNotify(last.cells) = IF r.uid THEN UidOverNotify(StoredNotify(interval.cells))
                                       ELSE StoredNotify(interval.cells)
    <2> HIDE DEF interval
    <2>1. r.uid = (q.uid # NoText)
      BY DEF AsRequest
    <2>2. CASE q.uid = NoText
      <3>1. last = interval
        BY <2>2 DEF WriteUid
      <3> HIDE DEF last, r
      <3> QED  BY <1>10, <2>1, <2>2, <3>1
    <2>3. CASE q.uid # NoText
      <3>1. q.uid \in UidTexts /\ q.uid \in Texts /\ interval \in Memories
        BY <1>1, <1>9, <2>3 DEF UidTexts, Sound
      <3> HIDE DEF r
      <3>2. /\ interval.fits
            /\ StoredCreds(last.cells) = StoredCreds(interval.cells)
            /\ StoredMode(last.cells) = StoredMode(interval.cells)
            /\ StoredInterval(last.cells) = StoredInterval(interval.cells)
            /\ StoredNotify(last.cells) = UidOverNotify(StoredNotify(interval.cells))
        BY <1>10, <3>1, UidFollows
      <3> QED  BY <2>1, <2>3, <3>2
    <2> QED  BY <2>2, <2>3
  <1> HIDE DEF last
  <1>12. /\ named.fits
         /\ StoredCreds(interval.cells) = StoredCreds(named.cells)
         /\ StoredMode(interval.cells) = StoredMode(named.cells)
         /\ StoredNotify(interval.cells) = StoredNotify(named.cells)
         /\ StoredInterval(interval.cells) = OrOld(r.interval, StoredInterval(named.cells))
    <2> HIDE DEF named
    <2>1. /\ named.fits
          /\ StoredCreds(interval.cells) = StoredCreds(named.cells)
          /\ StoredMode(interval.cells) = StoredMode(named.cells)
          /\ StoredNotify(interval.cells) = StoredNotify(named.cells)
          /\ q.interval = NoText => StoredInterval(interval.cells) = StoredInterval(named.cells)
          /\ q.interval # NoText => Reads(interval.cells, "interval") = Spelled(q.interval)
      BY <1>1, <1>8, <1>11, ArgumentFollows DEF Sound
    <2> HIDE DEF interval
    <2>2. r.interval = IF q.interval = NoText THEN Absent
                       ELSE CHOOSE v \in Intervals : IntervalText[v] = q.interval
      BY DEF AsRequest
    <2>3. StoredInterval(interval.cells) = OrOld(r.interval, StoredInterval(named.cells))
      <3> HIDE DEF r
      <3>1. CASE q.interval = NoText
        BY <2>1, <2>2, <3>1 DEF OrOld
      <3>2. CASE q.interval # NoText
        <4>1. \E v \in Intervals : IntervalText[v] = q.interval
          BY <3>2, ValuesAssumption
        <4>2. r.interval \in Intervals /\ IntervalText[r.interval] = q.interval
          BY <2>2, <3>2, <4>1
        <4>3. StoredInterval(interval.cells) = r.interval
          BY <2>1, <3>2, <4>2, StoredIntervalFacts
        <4>4. r.interval # Absent
          BY <4>2, ValuesAssumption
        <4> QED  BY <4>3, <4>4 DEF OrOld
      <3> QED  BY <3>1, <3>2
    <2> QED  BY <2>1, <2>3
  <1> HIDE DEF interval
  <1>13. /\ mode.fits
         /\ StoredCreds(named.cells) = StoredCreds(mode.cells)
         /\ StoredMode(named.cells) = StoredMode(mode.cells)
         /\ StoredNotify(named.cells) = StoredNotify(mode.cells)
         /\ StoredInterval(named.cells) = StoredInterval(mode.cells)
    <2> HIDE DEF mode, r
    <2> QED  BY <1>1, <1>7, <1>12, ArgumentFollows DEF Sound
  <1> HIDE DEF named
  <1>14. /\ host.fits
         /\ StoredCreds(mode.cells) = StoredCreds(host.cells)
         /\ StoredMode(mode.cells) = OrOld(r.mode, StoredMode(host.cells))
         /\ StoredNotify(mode.cells) = StoredNotify(host.cells)
         /\ StoredInterval(mode.cells) = StoredInterval(host.cells)
    <2> HIDE DEF host
    <2>1. /\ host.fits
          /\ StoredCreds(mode.cells) = StoredCreds(host.cells)
          /\ StoredInterval(mode.cells) = StoredInterval(host.cells)
          /\ StoredNotify(mode.cells) = StoredNotify(host.cells)
          /\ q.mode = NoText => StoredMode(mode.cells) = StoredMode(host.cells)
          /\ q.mode # NoText => Reads(mode.cells, "mode") = Spelled(q.mode)
      BY <1>1, <1>6, <1>13, ArgumentFollows DEF Sound
    <2> HIDE DEF mode
    <2>2. r.mode = IF q.mode = NoText THEN Absent ELSE "setup"
      BY DEF AsRequest
    <2>3. StoredMode(mode.cells) = OrOld(r.mode, StoredMode(host.cells))
      <3> HIDE DEF r
      <3>1. CASE q.mode = NoText
        BY <2>1, <2>2, <3>1 DEF OrOld
      <3>2. CASE q.mode # NoText
        <4>1. q.mode = "setup" /\ r.mode = "setup" /\ r.mode # Absent
          BY <2>2, <3>2, ValuesAssumption
        <4>2. StoredMode(mode.cells) = "setup"
          BY <2>1, <3>2, <4>1 DEF StoredMode, Holds
        <4> QED  BY <4>1, <4>2 DEF OrOld
      <3> QED  BY <3>1, <3>2
    <2> QED  BY <2>1, <2>3
  <1> HIDE DEF mode
  <1>15. /\ owner.fits
         /\ StoredCreds(host.cells) = StoredCreds(owner.cells)
         /\ StoredMode(host.cells) = StoredMode(owner.cells)
         /\ StoredNotify(host.cells) = StoredNotify(owner.cells)
         /\ StoredInterval(host.cells) = StoredInterval(owner.cells)
    <2> HIDE DEF owner, r
    <2>1. CASE ~BringsHost(q)
      BY <1>14, <2>1
    <2>2. CASE BringsHost(q)
      <3> DEFINE fbauth == WriteArgument(fbhost, "fbauth", q.fbauth)
      <3>1. host = fbauth
        BY <2>2
      <3>2. fbauth.fits
        BY <1>14, <3>1
      <3> HIDE DEF host
      <3>3. /\ fbhost.fits
            /\ StoredCreds(fbauth.cells) = StoredCreds(fbhost.cells)
            /\ StoredMode(fbauth.cells) = StoredMode(fbhost.cells)
            /\ StoredNotify(fbauth.cells) = StoredNotify(fbhost.cells)
            /\ StoredInterval(fbauth.cells) = StoredInterval(fbhost.cells)
        <4> HIDE DEF fbhost
        <4> QED  BY <1>1, <1>5, <3>2, ArgumentFollows DEF Sound
      <3> HIDE DEF fbauth
      <3>4. /\ owner.fits
            /\ StoredCreds(fbhost.cells) = StoredCreds(owner.cells)
            /\ StoredMode(fbhost.cells) = StoredMode(owner.cells)
            /\ StoredNotify(fbhost.cells) = StoredNotify(owner.cells)
            /\ StoredInterval(fbhost.cells) = StoredInterval(owner.cells)
        BY <1>1, <1>4, <3>3, ArgumentFollows DEF Sound
      <3> HIDE DEF fbhost
      <3> QED  BY <3>1, <3>3, <3>4
    <2> QED  BY <2>1, <2>2
  <1> HIDE DEF host, fbhost
  <1>16. /\ StoredCreds(owner.cells) = base.creds /\ StoredMode(owner.cells) = base.mode
         /\ StoredInterval(owner.cells) = base.interval /\ StoredNotify(owner.cells) = base.notify
    <2>1. /\ Record(m.cells).creds = StoredCreds(m.cells)
          /\ Record(m.cells).mode = StoredMode(m.cells)
          /\ Record(m.cells).interval = StoredInterval(m.cells)
          /\ Record(m.cells).notify = StoredNotify(m.cells)
      BY RecordParts
    <2>2. CASE BringsCredentials(q)
      <3> DEFINE n == NewOwner(m, q)
      <3>1. owner = n
        BY <2>2
      <3>2. r.creds # Absent
        BY <2>2, ValuesAssumption DEF AsRequest
      <3> HIDE DEF r, owner
      <3>3. /\ StoredCreds(n.cells) = r.creds /\ StoredMode(n.cells) = Absent
            /\ StoredInterval(n.cells) = Absent
            /\ StoredNotify(n.cells) = ClearedNotify(StoredNotify(m.cells))
        BY <1>15, <2>2, <3>1, OwnerFollows DEF r
      <3> HIDE DEF n
      <3>4. base = [creds |-> r.creds, mode |-> Absent, interval |-> Absent,
                    notify |-> ClearedNotify(StoredNotify(m.cells))]
        BY <2>1, <3>2
      <3> HIDE DEF base
      <3> QED  BY <3>1, <3>3, <3>4
    <2>3. CASE ~BringsCredentials(q)
      <3>1. owner = m
        BY <2>3
      <3>2. r.creds = Absent
        BY <2>3 DEF AsRequest
      <3>3. base = Record(m.cells)
        BY <3>2
      <3> HIDE DEF base, owner
      <3> QED  BY <2>1, <3>1, <3>3
    <2> QED  BY <2>2, <2>3
  <1> HIDE DEF owner
  <1>17. Record(last.cells) =
           [creds |-> base.creds, mode |-> OrOld(r.mode, base.mode),
            interval |-> OrOld(r.interval, base.interval),
            notify |-> IF r.uid THEN UidOverNotify(base.notify) ELSE base.notify]
    <2> HIDE DEF r, base
    <2>1. StoredCreds(last.cells) = base.creds
      BY <1>11, <1>12, <1>13, <1>14, <1>15, <1>16
    <2>2. StoredMode(last.cells) = OrOld(r.mode, base.mode)
      BY <1>11, <1>12, <1>13, <1>14, <1>15, <1>16
    <2>3. StoredInterval(last.cells) = OrOld(r.interval, base.interval)
      BY <1>11, <1>12, <1>13, <1>14, <1>15, <1>16
    <2>4. StoredNotify(last.cells) = IF r.uid THEN UidOverNotify(base.notify) ELSE base.notify
      BY <1>11, <1>12, <1>13, <1>14, <1>15, <1>16
    <2> QED  BY <2>1, <2>2, <2>3, <2>4, RecordParts
  <1>18. AfterSetting(r, Record(m.cells)) =
           [creds |-> base.creds, mode |-> OrOld(r.mode, base.mode),
            interval |-> OrOld(r.interval, base.interval),
            notify |-> IF r.uid THEN UidOverNotify(base.notify) ELSE base.notify]
    <2> HIDE DEF r
    <2> QED  BY Zenon DEF AfterSetting
  <1> QED  BY <1>3, <1>17, <1>18

-----------------------------------------------------------------------------
(* The bytes follow the record.  As long as every text fitted, the texts in *)
(* RAM are those of values, and an interval that was loaded is still what   *)
(* its region holds when it is written back: the commits before it leave    *)
(* that region alone.                                                       *)

FollowInv ==
    step \in 1 .. 7 /\ mem.fits =>
        \A f \in KeptFields : Writes(mem.cells, f, texts[f]) \/ Len(texts[f]) > Size[f]

LEMMA LoadedAreWritten ==
    ASSUME NEW cells, NEW t \in LoadedTexts(cells), NEW f \in KeptFields
    PROVE  Writes(cells, f, t[f])
  <1> DEFINE numbers == [g \in NumericField |-> LoadedNumbers(cells, g)]
             switch == LoadNotify(StoredNotify(cells))["isSend"]
             default(g) == IF g = "email" THEN EmailText[DefaultEmail]
                           ELSE IntervalText[DefaultInterval]
             loaded(level) ==
               [g \in KeptFields |->
                  IF g \in NumericField THEN Spelled(LevelText[level[g]])
                  ELSE IF g = "isSend" THEN Spelled(SwitchText[switch])
                  ELSE LoadedText(cells, g, default(g))]
             levels == {v \in [NumericField -> Levels] :
                          \A g \in NumericField : v[g] \in numbers[g]}
  <1>1. LoadedTexts(cells) = {loaded(level) : level \in levels}
    BY Zenon DEF LoadedTexts
  <1>2. PICK level \in levels : t = loaded(level)
    BY <1>1
  <1>3. level \in [NumericField -> Levels]
    OBVIOUS
  <1>4. switch \in {On, Off}
    BY LoadedSwitch
  <1> HIDE DEF levels, switch
  <1>5. /\ t[f] = IF f \in NumericField THEN Spelled(LevelText[level[f]])
                  ELSE IF f = "isSend" THEN Spelled(SwitchText[switch])
                  ELSE LoadedText(cells, f, default(f))
    BY <1>2
  <1>6. CASE f \in NumericField
    <2>1. LevelText[level[f]] \in Texts
      BY <1>3, <1>6, TextsAssumption
    <2>2. f # "interval"
      BY <1>6 DEF NumericField
    <2> QED  BY <1>5, <1>6, <2>1, <2>2 DEF Writes
  <1>7. CASE f = "isSend"
    <2>1. SwitchText[switch] \in Texts
      BY <1>4, TextsAssumption
    <2>2. f \notin NumericField
      BY <1>7 DEF NumericField
    <2> QED  BY <1>5, <1>7, <2>1, <2>2 DEF Writes
  <1>8. CASE f = "interval"
    <2>1. f \notin NumericField \cup {"isSend", "email"}
      BY <1>8 DEF NumericField
    <2>2. t[f] = LoadedText(cells, f, IntervalText[DefaultInterval])
      BY <1>5, <2>1
    <2> QED  BY <1>8, <2>1, <2>2, IntervalsAssumption DEF Writes, LoadedText
  <1>9. CASE f = "email"
    BY <1>9 DEF Writes, NumericField
  <1> QED  BY <1>6, <1>7, <1>8, <1>9 DEF KeptFields, NotifyField

LEMMA CloudIsWritten ==
    ASSUME NEW cells, NEW t \in CloudTexts, NEW f \in KeptFields
    PROVE  Writes(cells, f, t[f]) \/ Len(t[f]) > Size[f]
  <1>1. t \in [KeptFields -> {<<>>} \cup {Spelled(u) : u \in Texts}]
    BY TextsAssumption
  <1>2. /\ f \in NumericField \cup {"isSend"} => t[f] # <<>>
        /\ \/ Len(t["interval"]) > Size["interval"]
           \/ \E v \in Intervals : t["interval"] = Spelled(IntervalText[v])
    BY ValuesAssumption
  <1>3. t[f] # <<>> => \E u \in Texts : t[f] = Spelled(u)
    BY <1>1
  <1> QED  BY <1>2, <1>3 DEF Writes

LEMMA FollowInit == Init => FollowInv
  BY DEF Init, FollowInv

LEMMA FollowStep == Inv /\ FollowInv /\ [Next]_vars => FollowInv'
  <1> SUFFICES ASSUME Inv, FollowInv, [Next]_vars PROVE FollowInv'
    OBVIOUS
  <1>1. mem \in Memories /\ RamInv
    BY DEF Inv, Sound
  <1>2. CASE UNCHANGED vars
    BY <1>2 DEF vars, FollowInv
  <1>3. CASE PowerCycle
    BY <1>3 DEF PowerCycle, Reset, FollowInv
  <1>4. CASE Load
    <2>1. mem' = mem /\ texts' \in LoadedTexts(mem.cells)
      BY <1>4 DEF Load
    <2>2. \A f \in KeptFields : Writes(mem.cells, f, texts'[f])
      BY <2>1, LoadedAreWritten
    <2>3. \A f \in KeptFields : Writes(mem'.cells, f, texts'[f])
      BY <2>1, <2>2
    <2> QED  BY <2>3 DEF FollowInv
  <1>5. ASSUME NEW q \in Provisionings, Provision(q) PROVE FollowInv'
    BY <1>5 DEF Provision, Reset, FollowInv
  <1>6. CASE LeaveSetup
    BY <1>6 DEF LeaveSetup, Reset, FollowInv
  <1>7. ASSUME NEW t \in CloudTexts, Refresh(t) PROVE FollowInv'
    <2>1. texts' = t
      BY <1>7 DEF Refresh
    <2>2. \A f \in KeptFields :
            Writes(mem'.cells, f, texts'[f]) \/ Len(texts'[f]) > Size[f]
      BY <2>1, CloudIsWritten
    <2> QED  BY <2>2 DEF FollowInv
  <1>8. CASE Keep
    <2> SUFFICES ASSUME step' \in 1 .. 7, mem'.fits, NEW f \in KeptFields
                 PROVE  Writes(mem'.cells, f, texts'[f]) \/ Len(texts'[f]) > Size[f]
      BY DEF FollowInv
    <2> DEFINE g == KeepOrder[step]
               s == texts[g]
    <2>1. /\ step \in 1 .. 7 /\ step' = step + 1 /\ texts' = texts
          /\ mem' = WriteField(mem, g, s)
      BY <1>8, KeepOrderFacts DEF Keep
    <2>2. step \in 1 .. 6
      BY <2>1
    <2>3. g \in KeptFields /\ g \in Fields /\ s \in Writings
      BY <1>1, <2>1, KeepOrderFacts, FieldNames DEF RamInv
    <2>4. g # "interval"
      <3>1. /\ KeepOrder[1] = "humidLower" /\ KeepOrder[2] = "humidHigher"
            /\ KeepOrder[3] = "tempLower" /\ KeepOrder[4] = "tempHigher"
            /\ KeepOrder[5] = "email" /\ KeepOrder[6] = "isSend"
        BY KeepOrderFacts
      <3>2. step = 1 \/ step = 2 \/ step = 3 \/ step = 4 \/ step = 5 \/ step = 6
        BY <2>2
      <3> QED  BY <3>1, <3>2
    <2> HIDE DEF g, s
    <2>5. WriteField(mem, g, s).fits
      BY <2>1
    <2>6. mem.fits /\ \A h \in Fields \ {g} : Alike(WriteField(mem, g, s).cells, mem.cells, h)
      BY <1>1, <2>3, <2>5, FittingWrite
    <2>7. Raw(mem'.cells, "interval") = Raw(mem.cells, "interval")
      BY <2>1, <2>4, <2>6, FieldNames DEF Alike
    <2>8. Writes(mem.cells, f, texts[f]) \/ Len(texts[f]) > Size[f]
      BY <2>1, <2>6 DEF FollowInv
    <2> QED  BY <2>1, <2>7, <2>8 DEF Writes
  <1> QED  BY <1>2, <1>3, <1>4, <1>5, <1>6, <1>7, <1>8 DEF Next

LEMMA SameFields ==
    /\ Bytes!NotifyField = NotifyField
    /\ \A f : Bytes!FieldValues(f) = FieldValues(f)
    /\ \A f, v : Bytes!Store(f, v) = Store(f, v)
  <1>1. Bytes!NumericField = NumericField
    BY DEF NumericField, Bytes!NumericField
  <1>2. Bytes!NotifyField = NotifyField
    BY <1>1 DEF NotifyField, Bytes!NotifyField
  <1>3. \A f : Bytes!FieldValues(f) = FieldValues(f)
    BY <1>1 DEF FieldValues, Bytes!FieldValues
  <1>4. \A f, v : Bytes!Store(f, v) = Store(f, v)
    BY DEF Store, Bytes!Store
  <1> QED  BY <1>2, <1>3, <1>4

LEMMA SameSetting == \A q, r : Bytes!AfterSetting(q, r) = AfterSetting(q, r)
  <1> SUFFICES ASSUME NEW q, NEW r PROVE Bytes!AfterSetting(q, r) = AfterSetting(q, r)
    OBVIOUS
  <1>1. Bytes!ErasedNotify = ErasedNotify
    BY SameFields DEF ErasedNotify, Bytes!ErasedNotify
  <1>2. \A n : Bytes!ClearedNotify(n) = ClearedNotify(n)
    BY <1>1 DEF ClearedNotify, Bytes!ClearedNotify
  <1>3. \A n : Bytes!UidOverNotify(n) = UidOverNotify(n)
    BY SameFields DEF UidOverNotify, Bytes!UidOverNotify
  <1>4. \A new, old : Bytes!OrOld(new, old) = OrOld(new, old)
    BY DEF OrOld, Bytes!OrOld
  <1> QED  BY <1>2, <1>3, <1>4 DEF AfterSetting, Bytes!AfterSetting

LEMMA BytesStep ==
    Inv /\ FollowInv /\ [Next]_vars =>
        [mem'.fits => UNCHANGED Record(mem.cells) \/ Bytes!Next]_mem
  <1> SUFFICES ASSUME Inv, FollowInv, [Next]_vars, mem' # mem, mem'.fits
               PROVE  UNCHANGED Record(mem.cells) \/ Bytes!Next
    OBVIOUS
  <1> DEFINE r == Record(mem.cells)
             n == Record(mem'.cells)
  <1>1. Record(mem.cells)' = n
    OBVIOUS
  <1>2. Sound(mem) /\ mem \in Memories /\ RamInv
    BY DEF Inv, Sound
  <1>3. CASE Keep
    <2> DEFINE f == KeepOrder[step]
               s == texts[f]
    <2>1. step \in 1 .. 7 /\ mem' = WriteField(mem, f, s)
      BY <1>3, KeepOrderFacts DEF Keep
    <2>2. f \in KeptFields /\ f \in Fields /\ s \in Writings
      BY <1>2, <2>1, KeepOrderFacts, FieldNames DEF RamInv
    <2> HIDE DEF f
    <2>3. mem.fits /\ Len(s) <= Size[f] /\ Size[f] \in Nat /\ Len(s) \in Nat
      <3> HIDE DEF s
      <3> QED  BY <1>2, <2>1, <2>2, FittingWrite, RegionProperties, WritingType
    <2>4. Writes(mem.cells, f, s)
      BY <2>1, <2>2, <2>3 DEF FollowInv
    <2> HIDE DEF s
    <2> DEFINE new == Record(WriteField(mem, f, s).cells)
    <2>5. \/ new = r
          \/ /\ f \in NotifyField
             /\ \E v \in FieldValues(f) : new = WithField(r, f, Store(f, v))
          \/ \E v \in Intervals : new = [r EXCEPT !.interval = v]
      BY <1>2, <2>1, <2>2, <2>4, CommitKeeps
    <2>6. n = new
      BY <2>1
    <2> HIDE DEF r, n, new
    <2>7. CASE n = r
      BY <1>1, <2>7 DEF r
    <2>8. CASE f \in NotifyField /\ \E v \in FieldValues(f) : new = WithField(r, f, Store(f, v))
      <3>1. PICK v \in FieldValues(f) : n = WithField(r, f, Store(f, v))
        BY <2>6, <2>8
      <3>2. Bytes!KeepField(f, v)
        BY <1>1, <3>1, SameFields DEF Bytes!KeepField, WithField, r
      <3>3. f \in Bytes!NotifyField /\ v \in Bytes!FieldValues(f)
        BY <2>8, <3>1, SameFields
      <3> QED  BY <3>2, <3>3 DEF Bytes!Next
    <2>9. CASE \E v \in Intervals : new = [r EXCEPT !.interval = v]
      <3>1. PICK v \in Intervals : n = [r EXCEPT !.interval = v]
        BY <2>6, <2>9
      <3>2. Bytes!KeepInterval(v)
        BY <1>1, <3>1 DEF Bytes!KeepInterval, r
      <3> QED  BY <3>2 DEF Bytes!Next
    <2> QED  BY <2>5, <2>6, <2>7, <2>8, <2>9
  <1>4. CASE LeaveSetup
    <2> DEFINE new == CopyField(mem, "mode", Spelled("burst"))
    <2>1. mem' = new /\ Holds(mem.cells, "mode", "setup")
      BY <1>4 DEF LeaveSetup
    <2>2. new.fits
      BY <2>1
    <2>3. r.mode = "setup" /\ Record(new.cells) = [r EXCEPT !.mode = "burst"]
      BY <1>2, <2>1, <2>2, LeaveFollows
    <2> HIDE DEF new
    <2>4. n = [r EXCEPT !.mode = "burst"]
      BY <2>1, <2>3
    <2> HIDE DEF r, n
    <2>5. Bytes!LeaveSetup
      BY <1>1, <2>3, <2>4 DEF Bytes!LeaveSetup, r
    <2> QED  BY <2>5 DEF Bytes!Next
  <1>5. ASSUME NEW q \in Provisionings, Provision(q)
        PROVE  UNCHANGED Record(mem.cells) \/ Bytes!Next
    <2> DEFINE new == AfterRequest(mem, q)
    <2>1. mem' = new
      BY <1>5 DEF Provision
    <2>2. new.fits
      BY <2>1
    <2>3. Record(new.cells) = AfterSetting(AsRequest(q), r)
      BY <1>2, <2>2, RequestFollows
    <2> HIDE DEF new
    <2>4. n = AfterSetting(AsRequest(q), r)
      BY <2>1, <2>3
    <2> HIDE DEF r, n
    <2>5. Bytes!Provision(AsRequest(q))
      BY <1>1, <2>4, SameSetting DEF Bytes!Provision, r
    <2>6. AsRequest(q) \in Requests
      BY ValuesAssumption
    <2> QED  BY <2>5, <2>6 DEF Bytes!Next
  <1> QED
    BY <1>3, <1>4, <1>5 DEF Next, PowerCycle, Load, Refresh, vars

(* As long as every text fits, the bytes implement SettingsStore: each      *)
(* request, the end of setup mode and each commit does to the record the    *)
(* bytes carry what the abstract store does, or leaves it.                  *)
THEOREM BytesAlwaysFollowRecord == Spec => BytesFollowRecord
  <1>1. Spec => []Inv
    BY Invariant
  <1> QED  BY <1>1, FollowInit, FollowStep, BytesStep, PTL DEF Spec, BytesFollowRecord
=============================================================================
