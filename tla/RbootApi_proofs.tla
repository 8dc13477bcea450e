-------------------------- MODULE RbootApi_proofs ----------------------------
(***************************************************************************)
(* Proofs about the two halves of rboot-api.c: the flash writer, module    *)
(* RbootWrite, for every size of sectors, every number of them and every   *)
(* way to cut the stream into calls, and the boot configuration, module    *)
(* BootConfig, for every board and application.                            *)
(* The writer's invariant Inv says of a session that what lies behind      *)
(* start_addr is stored, and that what is erased ahead of it has not been  *)
(* programmed again.  That of the configuration, Known, says what each     *)
(* step of a save has in its buffer and in the sector.                     *)
(***************************************************************************)
EXTENDS RbootWrite, BootConfig, SequenceTheorems, TLAPS

Bytes == Pad .. MaxFed
End   == Sectors * SectorSize

LEMMA Sizes ==
    /\ End \in Nat /\ MaxFed \in Nat /\ AddrSpace \in Nat /\ Addrs = 0 .. End - 1
    /\ AddrSpace >= End + MaxFed + 4 /\ SectorSize \in Nat \ {0}
    /\ Starts \subseteq Addrs
BY WriterAssumption DEF End, Addrs

\* Sectors are in the order of their addresses.
LEMMA SectorOrder ==
    /\ \A a \in Nat : Sector(a) \in Nat /\ Sector(a) <= a
    /\ \A a, b \in Nat : a <= b => Sector(a) <= Sector(b)
<1>1. SectorSize \in Nat \ {0}
  BY Sizes
<1>2. \A a \in Nat : a \div SectorSize \in Nat /\ a \div SectorSize <= a
  BY <1>1
<1>3. ASSUME NEW a \in Nat, NEW b \in Nat, a <= b
      PROVE  a \div SectorSize <= b \div SectorSize
  BY <1>1, <1>3
<1>4. QED
  BY <1>2, <1>3 DEF Sector

LEMMA WholeWords ==
    \A n \in Nat : /\ Words(n) \in 0..n /\ n - Words(n) \in 0..3
                   /\ n \in 5..7 => Words(n) = 4
BY DEF Words

\* The unsigned subtraction wraps only for an empty write at the first address.
LEMMA LastSector ==
    ASSUME start_addr \in 0..End, NEW len \in 0 .. MaxFed + 4
    PROVE  /\ lastsect(len) \in 0..AddrSpace
           /\ \A a \in Nat : a < start_addr + len /\ len > 0 => Sector(a) <= lastsect(len)
<1> DEFINE last == (start_addr + len - 1 + AddrSpace) % AddrSpace
<1>0. AddrSpace \in Nat \ {0} /\ start_addr + len - 1 < AddrSpace /\ start_addr \in Nat
      /\ len \in Nat
  BY Sizes
<1>1. last \in 0 .. AddrSpace - 1
  BY <1>0
<1>2. len > 0 => last = start_addr + len - 1
  <2>1. ASSUME NEW x \in 0 .. AddrSpace - 1 PROVE (x + AddrSpace) % AddrSpace = x
    BY <1>0
  <2>2. QED
    BY <1>0, <2>1
<1>3. lastsect(len) = Sector(last)
  BY DEF lastsect
<1> HIDE DEF last
<1>4. QED
  BY <1>0, <1>1, <1>2, <1>3, SectorOrder

-----------------------------------------------------------------------------
(****************************** The invariant *******************************)

Clean == \A a \in Addrs : a >= start_addr /\ Sector(a) <= last_sector_erased =>
                              flash[a] = Erased

Streaming ==
    /\ base \in Starts /\ base <= start_addr /\ fed - Written \in 0..3
    /\ \A i \in 1..Written : flash[base + i - 1] = i
    /\ extra_bytes = [i \in 1..(fed - Written) |-> Written + i]
    /\ Clean
    /\ \A a \in Addrs : base <= a /\ a < start_addr => Sector(a) <= last_sector_erased

Inv == TypeOK /\ NeverMixed /\ WholeAfterEnd /\ (phase = "writing" => Streaming)

LEMMA InvAtStart == Init => Inv
<1>1. <<>> \in Seq(Pad .. MaxFed) /\ Len(<<>>) <= 3
  BY EmptySeq
<1>2. Init => TypeOK
  BY <1>1, Sizes DEF Init, TypeOK, Cells, Mixed, Old, End
<1>3. QED
  BY <1>2 DEF Init, Inv, NeverMixed, WholeAfterEnd, Mixed, Old

\* Programming fills cells that are erased, or have been erased just before.
LEMMA ProgrammedCells ==
    ASSUME TypeOK, Clean, NEW values \in Seq(Bytes), NEW len \in 0 .. Len(values),
           len <= MaxFed + 4, NEW n \in 0..len
    PROVE  /\ Programmed(values, len, n) \in [Addrs -> Cells]
           /\ \A a \in Addrs : Programmed(values, len, n)[a] =
                 IF a \in start_addr .. start_addr + n - 1
                 THEN values[a - start_addr + 1]
                 ELSE IF Sector(a) > last_sector_erased /\ Sector(a) <= erased_to(len)
                      THEN Erased ELSE flash[a]
           /\ NeverMixed => \A a \in Addrs : Programmed(values, len, n)[a] # Mixed
           /\ erased_to(len) \in -1 .. AddrSpace /\ erased_to(len) >= last_sector_erased
           /\ \A a \in Nat : a < start_addr + len /\ len > 0 => Sector(a) <= erased_to(len)
<1>1. /\ start_addr \in 0..End /\ last_sector_erased \in -1 .. AddrSpace
      /\ flash \in [Addrs -> Cells] /\ len \in 0 .. MaxFed + 4 /\ Len(values) \in Nat
      /\ \A a \in Addrs : a \in Nat /\ Sector(a) \in Nat
  <2>1. /\ start_addr \in 0..End /\ last_sector_erased \in -1 .. AddrSpace
        /\ flash \in [Addrs -> Cells]
    BY DEF TypeOK, End
  <2>2. Len(values) \in Nat
    BY LenProperties
  <2>3. len \in 0 .. MaxFed + 4
    BY <2>2, Sizes
  <2>4. \A a \in Addrs : a \in Nat /\ Sector(a) \in Nat
    BY Sizes, SectorOrder
  <2>5. QED
    BY <2>1, <2>2, <2>3, <2>4
<1>2. /\ erased_to(len) \in -1 .. AddrSpace /\ erased_to(len) >= last_sector_erased
      /\ \A a \in Nat : a < start_addr + len /\ len > 0 => Sector(a) <= erased_to(len)
  <2>1. /\ lastsect(len) \in 0..AddrSpace
        /\ \A a \in Nat : a < start_addr + len /\ len > 0 => Sector(a) <= lastsect(len)
    <3>1. start_addr \in 0..End /\ len \in 0 .. MaxFed + 4
      BY <1>1
    <3>2. QED
      BY <3>1, LastSector
  <2>2. /\ erased_to(len) \in {lastsect(len), last_sector_erased}
        /\ erased_to(len) >= lastsect(len) /\ erased_to(len) >= last_sector_erased
    BY <1>1, <2>1, Sizes DEF erased_to
  <2>3. erased_to(len) \in -1 .. AddrSpace /\ erased_to(len) \in Int
    BY <1>1, <2>1, <2>2, Sizes
  <2>4. ASSUME NEW a \in Nat, a < start_addr + len, len > 0
        PROVE  Sector(a) <= erased_to(len)
    <3>1. Sector(a) \in Nat
      BY SectorOrder
    <3>2. Sector(a) <= lastsect(len)
      BY <2>1, <2>4
    <3>3. lastsect(len) \in Nat
      BY <2>1, Sizes
    <3>4. QED
      BY <2>2, <2>3, <3>1, <3>2, <3>3
  <2>5. QED
    BY <2>2, <2>3, <2>4
<1>3. \A i \in 1..len : values[i] \in Bytes
  <2>1. \A i \in 1 .. Len(values) : values[i] \in Bytes
    BY ElementOfSeq
  <2>2. QED
    BY <1>1, <2>1
<1> DEFINE p == Programmed(values, len, n)
<1>4. ASSUME NEW a \in Addrs
      PROVE  p[a] = IF a \in start_addr .. start_addr + n - 1
                    THEN values[a - start_addr + 1]
                    ELSE IF Sector(a) > last_sector_erased /\ Sector(a) <= erased_to(len)
                         THEN Erased ELSE flash[a]
  <2> DEFINE now == IF Sector(a) \in last_sector_erased + 1 .. erased_to(len)
                    THEN Erased ELSE flash[a]
  <2>1. p[a] = IF a \in start_addr .. start_addr + n - 1
               THEN IF now = Erased THEN values[a - start_addr + 1] ELSE Mixed
               ELSE now
    BY DEF Programmed
  <2>2. Sector(a) \in last_sector_erased + 1 .. erased_to(len)
            <=> Sector(a) > last_sector_erased /\ Sector(a) <= erased_to(len)
    BY <1>1, <1>2
  <2>3. a \in start_addr .. start_addr + n - 1 => now = Erased
    <3>1. ASSUME a \in start_addr .. start_addr + n - 1
          PROVE  Sector(a) <= erased_to(len) /\ a >= start_addr
      BY <1>1, <1>2, <3>1
    <3>2. QED
      BY <1>1, <1>2, <2>2, <3>1 DEF Clean
  <2> HIDE DEF now
  <2>4. QED
    BY <2>1, <2>2, <2>3 DEF now
<1>5. ASSUME NEW a \in Addrs
      PROVE  p[a] \in Cells /\ (flash[a] # Mixed => p[a] # Mixed)
  <2>1. CASE a \in start_addr .. start_addr + n - 1
    <3>1. a - start_addr + 1 \in 1..len
      BY <1>1, <2>1
    <3>2. values[a - start_addr + 1] \in Bytes
      BY <1>3, <3>1
    <3>3. p[a] = values[a - start_addr + 1]
      BY <1>4, <2>1
    <3> HIDE DEF p
    <3>4. QED
      BY <3>2, <3>3, Sizes DEF Bytes, Cells, Pad, Mixed
  <2>2. CASE a \notin start_addr .. start_addr + n - 1
    <3>1. p[a] \in {Erased, flash[a]}
      BY <1>4, <2>2
    <3> HIDE DEF p
    <3>2. QED
      BY <1>1, <3>1, Sizes DEF Cells, Erased, Mixed
  <2>3. QED
    BY <2>1, <2>2
<1>6. p = [a \in Addrs |-> p[a]]
  BY DEF Programmed
<1> HIDE DEF p
<1>7. p \in [Addrs -> Cells]
  BY <1>5, <1>6
<1>8. QED
  BY <1>2, <1>4, <1>5, <1>7 DEF p, NeverMixed

\* One call of rboot_write_flash, whatever it is handed.
LEMMA CallKeeps ==
    ASSUME TypeOK, Clean, NeverMixed, NEW data \in Seq(Bytes),
           NEW ret \in Returns, Len(data) <= MaxFed + 1 \/ Len(data) = 4,
           Len(extra_bytes) + Len(data) <= MaxFed + 4,
           rboot_write_flash(data, ret)
    PROVE  /\ flash' \in [Addrs -> Cells] /\ start_addr' \in 0..End
           /\ last_sector_erased' \in -1 .. AddrSpace
           /\ extra_bytes' \in Seq(Bytes) /\ Len(extra_bytes') <= 3
           /\ NeverMixed'
<1> DEFINE j == joined(data)
           len == Words(Len(j))
<1>1. j \in Seq(Bytes) /\ Len(j) \in Nat /\ Len(j) <= MaxFed + 4
  <2>1. extra_bytes \in Seq(Bytes)
    BY DEF TypeOK, Bytes
  <2>2. j \in Seq(Bytes) /\ Len(j) = Len(extra_bytes) + Len(data) /\ Len(j) \in Nat
    BY <2>1, ConcatProperties, LenProperties DEF joined
  <2>3. QED
    BY <2>2
<1>2. len \in 0 .. Len(j) /\ Len(j) - len \in 0..3 /\ len <= MaxFed + 4
  BY <1>1, WholeWords, Sizes
<1>3. CASE UNCHANGED <<flash, status>>
  BY <1>3 DEF status, TypeOK, End, Bytes, NeverMixed
<1>4. CASE /\ extra_bytes' = SubSeq(j, len + 1, Len(j))
           /\ last_sector_erased' = erased_to(len)
           /\ \/ /\ start_addr + len <= End
                 /\ flash' = Programmed(j, len, len)
                 /\ start_addr' = start_addr + len
              \/ /\ \E n \in 0..len : flash' = Programmed(j, len, n)
                 /\ UNCHANGED start_addr
  <2> HIDE DEF j, len
  <2>1. extra_bytes' \in Seq(Bytes) /\ Len(extra_bytes') <= 3
    <3>1. \A i \in len + 1 .. Len(j) : i \in 1 .. Len(j)
      BY <1>1, <1>2
    <3>2. \A i \in len + 1 .. Len(j) : j[i] \in Bytes
      BY <1>1, <3>1, ElementOfSeq
    <3>3. len + 1 \in Int /\ Len(j) \in Int
      BY <1>1, <1>2
    <3>4. /\ SubSeq(j, len + 1, Len(j)) \in Seq(Bytes)
          /\ Len(SubSeq(j, len + 1, Len(j))) =
                IF len + 1 <= Len(j) THEN Len(j) - (len + 1) + 1 ELSE 0
      BY <3>2, <3>3, SubSeqProperties
    <3>5. QED
      BY <1>1, <1>2, <1>4, <3>4
  <2>2. \E n \in 0..len : flash' = Programmed(j, len, n)
    BY <1>1, <1>2, <1>4
  <2>3. /\ flash' \in [Addrs -> Cells] /\ NeverMixed'
        /\ last_sector_erased' \in -1 .. AddrSpace
    BY <1>1, <1>2, <1>4, <2>2, ProgrammedCells DEF NeverMixed
  <2>4. start_addr' \in 0..End
    <3>1. start_addr \in 0..End /\ End \in Nat /\ len \in Nat
      BY <1>1, <1>2, Sizes DEF TypeOK, End
    <3>2. start_addr' = start_addr \/ (start_addr' = start_addr + len /\ start_addr + len <= End)
      BY <1>4
    <3>3. QED
      BY <3>1, <3>2
  <2>5. QED
    BY <2>1, <2>3, <2>4
<1>5. QED
  BY <1>3, <1>4 DEF rboot_write_flash, End

-----------------------------------------------------------------------------
(******************************* A session **********************************)

\* The bytes of the stream from w + 1 on.
LEMMA StreamBytes ==
    ASSUME NEW w \in Nat, NEW k \in Nat, w + k <= MaxFed
    PROVE  /\ [i \in 1..k |-> w + i] \in Seq(Bytes)
           /\ Len([i \in 1..k |-> w + i]) = k
<1> DEFINE b == [i \in 1..k |-> w + i]
<1>1. \A i \in 1..k : w + i \in Bytes
  BY Sizes DEF Bytes, Pad
<1>2. b \in [1..k -> Bytes]
  BY <1>1
<1>3. b \in Seq(Bytes)
  BY <1>2, SeqDef
<1>4. DOMAIN b = 1..k
  OBVIOUS
<1>5. Len(b) = k
  BY <1>3, <1>4, LenProperties
<1>6. QED
  BY <1>3, <1>5

\* What is handed over next follows what is waiting.
LEMMA JoinedBytes ==
    ASSUME NEW w \in Nat, NEW k \in 0..3, NEW n \in Nat, w + k + n <= MaxFed,
           extra_bytes = [i \in 1..k |-> w + i]
    PROVE  LET j == joined([i \in 1..n |-> w + k + i])
           IN j \in Seq(Bytes) /\ Len(j) = k + n /\ \A i \in 1 .. k + n : j[i] = w + i
<1> DEFINE data == [i \in 1..n |-> w + k + i]
<1>1. extra_bytes \in Seq(Bytes) /\ Len(extra_bytes) = k
  <2>1. k \in Nat /\ w + k <= MaxFed
    BY Sizes
  <2>2. QED
    BY <2>1, StreamBytes
<1>2. data \in Seq(Bytes) /\ Len(data) = n
  <2>1. w + k \in Nat
    OBVIOUS
  <2>2. QED
    BY <2>1, StreamBytes
<1>3. /\ \A i \in 1..k : extra_bytes[i] = w + i
      /\ \A i \in 1..n : data[i] = w + k + i
  OBVIOUS
<1> HIDE DEF data
<1>4. /\ extra_bytes \o data \in Seq(Bytes) /\ Len(extra_bytes \o data) = k + n
      /\ \A i \in 1 .. k + n : (extra_bytes \o data)[i] =
             IF i <= k THEN extra_bytes[i] ELSE data[i - k]
  BY <1>1, <1>2, ConcatProperties
<1>5. ASSUME NEW i \in 1 .. k + n PROVE (extra_bytes \o data)[i] = w + i
  <2>0. k \in Int /\ n \in Int /\ i \in Int
    OBVIOUS
  <2>1. CASE i <= k
    BY <1>3, <1>4, <2>1
  <2>2. CASE i > k
    <3>1. i - k \in 1..n /\ w + k + (i - k) = w + i
      BY <2>2
    <3>2. QED
      BY <1>3, <1>4, <2>2, <3>1
  <2>3. i <= k \/ i > k
    BY <2>0
  <2>4. QED
    BY <2>1, <2>2, <2>3
<1>6. QED
  BY <1>4, <1>5 DEF joined, data

LEMMA WriteKeeps ==
    ASSUME Inv, NEW n \in ChunkLens, NEW ret \in Returns, Write(n, ret)
    PROVE  Inv'
<1> DEFINE data == [i \in 1..n |-> fed + i]
<1>1. /\ phase = "writing" /\ fed + n <= MaxFed /\ fed' = fed + n /\ UNCHANGED base
      /\ phase' = (IF ret = "ok" THEN "writing" ELSE "failed")
      /\ rboot_write_flash(data, ret)
  BY DEF Write
<1>2. /\ TypeOK /\ NeverMixed /\ Streaming /\ n \in Nat \ {0}
      /\ start_addr \in 0..End /\ base \in 0 .. End - 1 /\ fed \in 0..MaxFed
      /\ last_sector_erased \in -1 .. AddrSpace
  BY <1>1, Sizes, WriterAssumption DEF Inv, TypeOK, End, Streaming
<1>3. PICK w \in Nat, k \in 0..3 :
         /\ w = Written /\ k = fed - Written /\ w + k = fed /\ w + k + n <= MaxFed
         /\ start_addr = base + w
  <2>1. /\ Written \in Nat /\ fed - Written \in 0..3
        /\ Written + (fed - Written) = fed /\ Written + (fed - Written) + n <= MaxFed
        /\ start_addr = base + Written
    BY <1>1, <1>2, Sizes DEF Streaming, Written
  <2>2. QED
    BY <2>1
<1>4. extra_bytes = [i \in 1..k |-> w + i]
  BY <1>2, <1>3 DEF Streaming
<1>5. data \in Seq(Bytes) /\ Len(data) = n
  <2>1. fed \in Nat /\ n \in Nat /\ fed + n <= MaxFed
    BY <1>1, <1>2, Sizes
  <2>2. QED
    BY <2>1, StreamBytes
<1> DEFINE j == joined(data)
<1>6. j \in Seq(Bytes) /\ Len(j) = k + n /\ \A i \in 1 .. k + n : j[i] = w + i
  <2>1. data = [i \in 1..n |-> w + k + i]
    BY <1>3
  <2>2. n \in Nat
    BY <1>2
  <2> HIDE DEF data
  <2>3. QED
    BY <1>3, <1>4, <2>1, <2>2, JoinedBytes
<1> DEFINE len == Words(k + n)
<1>7. len \in 0 .. k + n /\ k + n - len \in 0..3 /\ k + n \in Nat
  <2>1. k + n \in Nat
    BY <1>2, <1>3
  <2>2. PICK m \in Nat : m = k + n
    BY <2>1
  <2>3. Words(m) \in 0..m /\ m - Words(m) \in 0..3
    BY <2>2, WholeWords
  <2>4. len = Words(m)
    BY <2>2
  <2> HIDE DEF len
  <2>5. QED
    BY <1>2, <1>3, <2>1, <2>2, <2>3, <2>4
<1>8. /\ flash' \in [Addrs -> Cells] /\ start_addr' \in 0..End
      /\ last_sector_erased' \in -1 .. AddrSpace
      /\ extra_bytes' \in Seq(Bytes) /\ Len(extra_bytes') <= 3
      /\ NeverMixed'
  <2>1. Len(extra_bytes) + Len(data) <= MaxFed + 4 /\ Len(data) <= MaxFed + 1
    <3>1. extra_bytes \in Seq(Bytes) /\ Len(extra_bytes) <= 3
      BY <1>2 DEF TypeOK, Bytes
    <3>2. Len(extra_bytes) \in Nat
      BY <3>1, LenProperties
    <3> HIDE DEF data
    <3>3. QED
      BY <1>1, <1>2, <1>5, <3>1, <3>2, Sizes
  <2> HIDE DEF data
  <2>2. QED
    BY <1>1, <1>2, <1>5, <2>1, CallKeeps DEF Streaming
<1>9. TypeOK'
  <2>1. fed' \in 0..MaxFed
    BY <1>1, <1>2
  <2>2. base' \in Starts \cup {0} /\ phase' \in {"idle", "writing", "failed", "ended"}
    BY <1>1, <1>2 DEF Streaming
  <2>3. QED
    BY <1>8, <2>1, <2>2 DEF TypeOK, End, Bytes
<1>10. CASE ret # "ok"
  BY <1>1, <1>8, <1>9, <1>10 DEF Inv, WholeAfterEnd
<1>11. CASE ret = "ok"
  <2>1. /\ extra_bytes' = SubSeq(j, len + 1, k + n)
        /\ last_sector_erased' = erased_to(len)
        /\ start_addr + len <= End
        /\ flash' = Programmed(j, len, len)
        /\ start_addr' = start_addr + len
    BY <1>1, <1>6, <1>11 DEF rboot_write_flash, End
  <2>2. Clean
    BY <1>2 DEF Streaming
  <2> HIDE DEF data, j, len
  <2>3. len \in 0 .. Len(j) /\ len <= MaxFed + 4 /\ len \in 0..len
    BY <1>1, <1>2, <1>3, <1>6, <1>7, Sizes
  <2>4. /\ \A a \in Addrs : flash'[a] =
              IF a \in start_addr .. start_addr + len - 1
              THEN j[a - start_addr + 1]
              ELSE IF Sector(a) > last_sector_erased /\ Sector(a) <= erased_to(len)
                   THEN Erased ELSE flash[a]
        /\ erased_to(len) \in -1 .. AddrSpace /\ erased_to(len) >= last_sector_erased
        /\ \A a \in Nat : a < start_addr + len /\ len > 0 => Sector(a) <= erased_to(len)
    <3>1. TypeOK /\ j \in Seq(Bytes)
      BY <1>2, <1>6
    <3>2. /\ \A a \in Addrs : Programmed(j, len, len)[a] =
                IF a \in start_addr .. start_addr + len - 1
                THEN j[a - start_addr + 1]
                ELSE IF Sector(a) > last_sector_erased /\ Sector(a) <= erased_to(len)
                     THEN Erased ELSE flash[a]
          /\ erased_to(len) \in -1 .. AddrSpace /\ erased_to(len) >= last_sector_erased
          /\ \A a \in Nat : a < start_addr + len /\ len > 0 => Sector(a) <= erased_to(len)
      BY <2>2, <2>3, <3>1, ProgrammedCells
    <3>3. flash' = Programmed(j, len, len)
      BY <2>1
    <3>4. QED
      BY <3>2, <3>3
  <2>5. /\ Written' = w + len /\ fed' - Written' = k + n - len
        /\ fed' - Written' \in 0..3 /\ base' \in Starts /\ base' <= start_addr'
    BY <1>1, <1>2, <1>3, <1>7, <2>1 DEF Written, Streaming
  <2>6. ASSUME NEW i \in 1 .. w + len PROVE flash'[base + i - 1] = i
    <3> DEFINE a == base + i - 1
    <3>1. a \in Addrs /\ a < start_addr + len /\ a \in Nat
      BY <1>2, <1>3, <1>7, <2>1, Sizes
    <3>2. CASE i <= w
      <4>1. /\ a < start_addr /\ base <= a /\ i \in 1..Written
        BY <1>2, <1>3, <3>2
      <4>2. Sector(a) <= last_sector_erased /\ flash[a] = i
        BY <1>2, <3>1, <4>1 DEF Streaming
      <4>3. Sector(a) \in Nat
        BY <3>1, SectorOrder
      <4> HIDE DEF a
      <4>4. flash'[a] = flash[a]
        BY <1>2, <2>4, <3>1, <4>1, <4>2, <4>3
      <4>5. QED
        BY <4>2, <4>4 DEF a
    <3>3. CASE i > w
      <4>1. a \in start_addr .. start_addr + len - 1 /\ a - start_addr + 1 = i - w
            /\ i - w \in 1 .. k + n /\ w + (i - w) = i
        BY <1>2, <1>3, <1>7, <3>1, <3>3
      <4> HIDE DEF a
      <4>2. flash'[a] = j[i - w]
        BY <2>4, <3>1, <4>1
      <4>3. QED
        BY <1>6, <4>1, <4>2 DEF a
    <3>4. QED
      BY <1>3, <3>2, <3>3
  <2>7. extra_bytes' = [i \in 1..(fed' - Written') |-> Written' + i]
    <3> DEFINE m == k + n - len
               rest == SubSeq(j, len + 1, k + n)
               bytes == [i \in 1..m |-> (w + len) + i]
    <3>1. m \in 0..3 /\ w + len \in Nat /\ (w + len) + m <= MaxFed /\ m \in Nat
          /\ (k + n) - (len + 1) + 1 = m /\ (len + 1 <= k + n \/ m = 0)
      BY <1>2, <1>3, <1>7
    <3>2. bytes \in Seq(Bytes) /\ Len(bytes) = m /\ \A i \in 1..m : bytes[i] = (w + len) + i
      BY <3>1, StreamBytes
    <3>3. \A i \in len + 1 .. k + n : j[i] \in Bytes
      <4>1. \A i \in len + 1 .. k + n : i \in 1 .. Len(j)
        BY <1>2, <1>3, <1>6, <1>7
      <4>2. QED
        BY <1>6, <4>1, ElementOfSeq
    <3>4. len + 1 \in Int /\ k + n \in Int
      BY <1>2, <1>3, <1>7
    <3>5. /\ rest \in Seq(Bytes)
          /\ Len(rest) = IF len + 1 <= k + n THEN (k + n) - (len + 1) + 1 ELSE 0
          /\ \A i \in 1 .. (k + n) - (len + 1) + 1 : rest[i] = j[len + 1 + i - 1]
      BY <3>3, <3>4, SubSeqProperties
    <3>6. Len(rest) = m
      BY <1>2, <1>3, <1>7, <3>1, <3>5
    <3>7. ASSUME NEW i \in 1..m PROVE rest[i] = bytes[i]
      <4>1. len + 1 + i - 1 \in 1 .. k + n /\ w + (len + 1 + i - 1) = (w + len) + i
        BY <1>2, <1>3, <1>7
      <4>2. rest[i] = j[len + 1 + i - 1]
        BY <3>1, <3>5
      <4> HIDE DEF rest, bytes, m
      <4>3. QED
        BY <1>6, <3>2, <4>1, <4>2
    <3> HIDE DEF rest, bytes
    <3>8. rest = bytes
      BY <3>2, <3>5, <3>6, <3>7, SeqEqual
    <3>9. QED
      BY <2>1, <2>5, <3>8 DEF rest, bytes
  <2>8. Clean'
    <3> SUFFICES ASSUME NEW a \in Addrs, a >= start_addr + len, Sector(a) <= erased_to(len)
                 PROVE  flash'[a] = Erased
      BY <2>1 DEF Clean
    <3>1. a \in Nat /\ Sector(a) \in Nat
      BY Sizes, SectorOrder
    <3>2. a >= start_addr /\ a \notin start_addr .. start_addr + len - 1
      BY <1>2, <2>3, <3>1
    <3>3. CASE Sector(a) > last_sector_erased
      BY <2>4, <3>2, <3>3
    <3>4. CASE Sector(a) <= last_sector_erased
      BY <2>2, <2>4, <3>2, <3>4 DEF Clean
    <3>5. QED
      BY <1>2, <3>1, <3>3, <3>4
  <2>9. ASSUME NEW a \in Addrs, base <= a, a < start_addr + len
        PROVE  Sector(a) <= erased_to(len)
    <3>1. a \in Nat /\ Sector(a) \in Nat
      BY Sizes, SectorOrder
    <3>2. CASE a < start_addr
      BY <1>2, <2>4, <2>9, <3>1, <3>2 DEF Streaming
    <3>3. CASE a >= start_addr
      BY <1>2, <2>3, <2>4, <2>9, <3>1, <3>3
    <3>4. QED
      BY <1>2, <3>1, <3>2, <3>3
  <2>10. Streaming'
    BY <1>1, <2>1, <2>5, <2>6, <2>7, <2>8, <2>9 DEF Streaming
  <2>11. QED
    BY <1>1, <1>8, <1>9, <1>11, <2>10 DEF Inv, WholeAfterEnd
<1>12. QED
  BY <1>10, <1>11

\* rboot_write_end programs one more word, which begins with the bytes that waited.
LEMMA EndKeeps ==
    ASSUME Inv, NEW ret \in Returns, rboot_write_end(ret)
    PROVE  Inv'
<1>1. /\ phase = "writing" /\ UNCHANGED <<base, fed>>
      /\ phase' = (IF ret = "ok" THEN "ended" ELSE "failed")
  BY DEF rboot_write_end
<1>2. /\ TypeOK /\ NeverMixed /\ Streaming
      /\ start_addr \in 0..End /\ base \in 0 .. End - 1 /\ fed \in 0..MaxFed
      /\ last_sector_erased \in -1 .. AddrSpace
  BY <1>1, Sizes DEF Inv, TypeOK, End, Streaming
<1>3. PICK w \in Nat, k \in 0..3 :
         w = Written /\ k = fed - Written /\ w + k = fed /\ start_addr = base + w
  <2>1. /\ Written \in Nat /\ fed - Written \in 0..3
        /\ Written + (fed - Written) = fed /\ start_addr = base + Written
    BY <1>1, <1>2, Sizes DEF Streaming, Written
  <2>2. QED
    BY <2>1
<1>4. extra_bytes = [i \in 1..k |-> w + i] /\ extra_bytes \in Seq(Bytes)
      /\ Len(extra_bytes) = k
  <2>1. extra_bytes = [i \in 1..k |-> w + i]
    BY <1>2, <1>3 DEF Streaming
  <2>2. k \in Nat /\ w + k <= MaxFed
    BY <1>2, <1>3
  <2>3. QED
    BY <1>3, <2>1, <2>2, StreamBytes
<1>5. CASE extra_bytes = <<>>
  <2>1. ret = "ok" /\ UNCHANGED <<flash, status>>
    BY <1>5 DEF rboot_write_end
  <2>2. k = 0
    BY <1>4, <1>5, EmptySeq
  <2>3. WholeAfterEnd'
    BY <1>1, <1>2, <1>3, <2>1, <2>2 DEF WholeAfterEnd, Streaming
  <2>4. QED
    BY <1>1, <1>2, <2>1, <2>3 DEF Inv, TypeOK, NeverMixed, status
<1>6. CASE extra_bytes # <<>>
  <2>1. rboot_write_flash(padded, ret)
    BY <1>6 DEF rboot_write_end
  <2>2. k \in 1..3
    <3>1. k # 0
      BY <1>4, <1>6, EmptySeq
    <3>2. QED
      BY <1>3, <3>1
  <2>3. padded \in Seq(Bytes) /\ Len(padded) = 4
    <3>1. \A i \in 1..4 : padded[i] \in Bytes
      <4>1. ASSUME NEW i \in 1..4, i <= k PROVE extra_bytes[i] \in Bytes
        <5>1. i \in 1 .. Len(extra_bytes)
          BY <1>3, <1>4, <4>1
        <5>2. QED
          BY <1>4, <5>1, ElementOfSeq
      <4>2. Pad \in Bytes
        BY Sizes DEF Bytes, Pad
      <4>3. QED
        BY <1>4, <4>1, <4>2 DEF padded
    <3>2. padded \in [1..4 -> Bytes]
      BY <3>1 DEF padded
    <3>3. PICK m \in Nat : m = 4
      OBVIOUS
    <3>4. padded \in [1..m -> Bytes]
      BY <3>2, <3>3
    <3>5. padded \in Seq(Bytes)
      BY <3>3, <3>4, SeqDef
    <3>6. QED
      BY <3>2, <3>5, LenProperties
  <2> DEFINE j == joined(padded)
  <2>4. /\ j \in Seq(Bytes) /\ Len(j) = k + 4
        /\ \A i \in 1..k : j[i] = w + i
    <3>1. /\ j \in Seq(Bytes) /\ Len(j) = k + 4
          /\ \A i \in 1 .. k + 4 : j[i] = IF i <= k THEN extra_bytes[i] ELSE padded[i - k]
      <4>1. extra_bytes \in Seq(Bytes) /\ padded \in Seq(Bytes)
        BY <1>4, <2>3
      <4>2. Len(extra_bytes) = k /\ Len(padded) = 4
        BY <1>4, <2>3
      <4>3. j = extra_bytes \o padded
        BY DEF joined
      <4>4. /\ extra_bytes \o padded \in Seq(Bytes)
            /\ Len(extra_bytes \o padded) = Len(extra_bytes) + Len(padded)
            /\ \A i \in 1 .. Len(extra_bytes) + Len(padded) :
                  (extra_bytes \o padded)[i] = IF i <= Len(extra_bytes) THEN extra_bytes[i]
                                               ELSE padded[i - Len(extra_bytes)]
        BY <4>1, ConcatProperties
      <4> HIDE DEF j
      <4>5. QED
        BY <4>2, <4>3, <4>4
    <3> HIDE DEF j
    <3>2. ASSUME NEW i \in 1..k PROVE j[i] = extra_bytes[i] /\ extra_bytes[i] = w + i
      <4>1. i \in 1 .. k + 4 /\ i <= k
        BY <1>3
      <4>2. QED
        BY <1>4, <3>1, <4>1
    <3>3. QED
      BY <3>1, <3>2
  <2>5. fed >= 1 /\ MaxFed >= 1 /\ k <= MaxFed
    BY <1>2, <1>3, <2>2, Sizes
  <2>6. /\ flash' \in [Addrs -> Cells] /\ start_addr' \in 0..End
        /\ last_sector_erased' \in -1 .. AddrSpace
        /\ extra_bytes' \in Seq(Bytes) /\ Len(extra_bytes') <= 3
        /\ NeverMixed'
    <3>1. Len(extra_bytes) + Len(padded) <= MaxFed + 4
      BY <1>4, <2>2, <2>3, <2>5, Sizes
    <3>2. QED
      BY <1>2, <2>1, <2>3, <3>1, CallKeeps DEF Streaming
  <2>7. TypeOK'
    <3>1. base' \in Starts \cup {0} /\ phase' \in {"idle", "writing", "failed", "ended"}
      BY <1>1, <1>2 DEF Streaming
    <3>2. QED
      BY <1>1, <1>2, <2>6, <3>1 DEF TypeOK, End, Bytes
  <2>8. CASE ret # "ok"
    BY <1>1, <2>6, <2>7, <2>8 DEF Inv, WholeAfterEnd
  <2>9. CASE ret = "ok"
    <3>1. Words(k + 4) = 4
      BY <2>2, WholeWords
    <3>2. flash' = Programmed(j, 4, 4) /\ start_addr + 4 <= End
      BY <2>1, <2>4, <2>9, <3>1 DEF rboot_write_flash, End
    <3> HIDE DEF j
    <3>3. /\ 4 \in 0 .. Len(j) /\ 4 <= MaxFed + 4 /\ 4 \in 0..4
      BY <2>2, <2>4, Sizes
    <3>4. \A a \in Addrs : flash'[a] =
              IF a \in start_addr .. start_addr + 4 - 1
              THEN j[a - start_addr + 1]
              ELSE IF Sector(a) > last_sector_erased /\ Sector(a) <= erased_to(4)
                   THEN Erased ELSE flash[a]
      <4>1. TypeOK /\ Clean
        BY <1>2 DEF Streaming
      <4>2. j \in Seq(Bytes) /\ flash' = Programmed(j, 4, 4)
        BY <2>4, <3>2
      <4>3. QED
        BY <3>3, <4>1, <4>2, ProgrammedCells
    <3>5. ASSUME NEW i \in 1..fed PROVE flash'[base + i - 1] = i
      <4> DEFINE a == base + i - 1
      <4>1. a \in Addrs /\ a \in Nat
        BY <1>2, <1>3, <2>2, <3>2, Sizes
      <4>2. CASE i <= w
        <5>1. a < start_addr /\ base <= a /\ i \in 1..Written
          BY <1>2, <1>3, <4>2
        <5>2. Sector(a) <= last_sector_erased /\ flash[a] = i
          BY <1>2, <4>1, <5>1 DEF Streaming
        <5>3. Sector(a) \in Nat
          BY <4>1, SectorOrder
        <5> HIDE DEF a
        <5>4. flash'[a] = flash[a]
          BY <1>2, <3>4, <4>1, <5>1, <5>2, <5>3
        <5>5. QED
          BY <5>2, <5>4 DEF a
      <4>3. CASE i > w
        <5>1. a \in start_addr .. start_addr + 4 - 1 /\ a - start_addr + 1 = i - w
              /\ i - w \in 1..k /\ w + (i - w) = i
          BY <1>2, <1>3, <2>2, <4>1, <4>3
        <5> HIDE DEF a
        <5>2. flash'[a] = j[i - w]
          BY <3>4, <4>1, <5>1
        <5>3. QED
          BY <2>4, <5>1, <5>2 DEF a
      <4>4. QED
        BY <1>3, <4>2, <4>3
    <3>6. WholeAfterEnd'
      BY <1>1, <3>5 DEF WholeAfterEnd
    <3>7. QED
      BY <1>1, <2>6, <2>7, <2>9, <3>6 DEF Inv
  <2>10. QED
    BY <2>8, <2>9
<1>7. QED
  BY <1>5, <1>6

\* A session is started over whatever is in the flash.
LEMMA InitKeeps ==
    ASSUME Inv, NEW addr \in Starts, rboot_write_init(addr)
    PROVE  Inv'
<1>1. /\ start_addr' = addr /\ last_sector_erased' = Sector(addr) - 1
      /\ extra_bytes' = <<>> /\ base' = addr /\ fed' = 0 /\ phase' = "writing"
      /\ flash' = flash
  BY DEF rboot_write_init, first_erased
<1>2. /\ addr \in 0 .. End - 1 /\ addr \in Nat /\ Sector(addr) \in Nat /\ Sector(addr) <= addr
  BY Sizes, SectorOrder
<1>3. <<>> \in Seq(Pad .. MaxFed) /\ Len(<<>>) <= 3
  BY EmptySeq
<1>4. TypeOK'
  <2>1. Sector(addr) - 1 \in -1 .. AddrSpace
    BY <1>2, Sizes
  <2>2. addr \in 0 .. Sectors * SectorSize
    BY <1>2, Sizes DEF End
  <2>3. QED
    BY <1>1, <1>3, <2>1, <2>2, Sizes DEF Inv, TypeOK
<1>5. ASSUME NEW a \in Addrs, a >= addr PROVE ~(Sector(a) <= Sector(addr) - 1)
  <2>1. a \in Nat /\ Sector(a) \in Nat /\ Sector(addr) <= Sector(a)
    BY <1>2, <1>5, Sizes, SectorOrder
  <2>2. QED
    BY <1>2, <2>1
<1>6. Clean'
  BY <1>1, <1>5 DEF Clean
<1>7. Written' = 0 /\ 1..0 = {} /\ <<>> = [i \in 1..0 |-> 0 + i]
  BY <1>1, <1>2 DEF Written
<1>8. Streaming'
  <2>1. \A a \in Addrs : ~(addr <= a /\ a < addr)
    BY <1>2, Sizes
  <2>2. extra_bytes' = [i \in 1..(fed' - Written') |-> Written' + i]
    BY <1>1, <1>7
  <2>3. QED
    BY <1>1, <1>2, <1>6, <1>7, <2>1, <2>2 DEF Streaming
<1>9. QED
  BY <1>1, <1>4, <1>8 DEF Inv, NeverMixed, WholeAfterEnd

LEMMA AlwaysInv == Spec => []Inv
<1>1. Inv /\ [Next]_vars => Inv'
  <2> SUFFICES ASSUME Inv, [Next]_vars PROVE Inv'
    OBVIOUS
  <2>1. ASSUME NEW addr \in Starts, rboot_write_init(addr) PROVE Inv'
    BY <2>1, InitKeeps
  <2>2. ASSUME NEW n \in ChunkLens, NEW ret \in Returns, Write(n, ret) PROVE Inv'
    BY <2>2, WriteKeeps
  <2>3. ASSUME NEW ret \in Returns, rboot_write_end(ret) PROVE Inv'
    BY <2>3, EndKeeps
  <2>4. CASE UNCHANGED vars
    BY <2>4 DEF vars, status, Inv, TypeOK, NeverMixed, WholeAfterEnd, Streaming, Written, Clean
  <2>5. QED
    BY <2>1, <2>2, <2>3, <2>4 DEF Next
<1>2. QED
  BY <1>1, InvAtStart, PTL DEF Spec

-----------------------------------------------------------------------------
(******************************** Theorems **********************************)

\* The types of the state, for all sizes.
THEOREM TypeCorrect == Spec => []TypeOK
<1>1. Inv => TypeOK
  BY DEF Inv
<1>2. QED
  BY <1>1, AlwaysInv, PTL

\* What has been written is the beginning of the stream, however it was cut.
THEOREM PrefixStored == Spec => []StoredPrefix
<1>1. Inv => StoredPrefix
  BY DEF Inv, Streaming, StoredPrefix
<1>2. QED
  BY <1>1, AlwaysInv, PTL

\* No cell is programmed twice without an erase in between.
THEOREM NothingMixed == Spec => []NeverMixed
<1>1. Inv => NeverMixed
  BY DEF Inv
<1>2. QED
  BY <1>1, AlwaysInv, PTL

\* A session that ended with success has stored every byte.
THEOREM WholeWhenEnded == Spec => []WholeAfterEnd
<1>1. Inv => WholeAfterEnd
  BY DEF Inv
<1>2. QED
  BY <1>1, AlwaysInv, PTL

-----------------------------------------------------------------------------
(****************************** The counters ********************************)

\* A ROM begins on a sector, and not on the first one, which holds the boot loader:
\* both addresses rboot.h gives them are of this kind.
RomStarts == \A a \in Starts : a # 0 /\ a % SectorSize = 0

\* What lies before the session counts as erased.
Ahead == phase = "writing" => last_sector_erased >= Sector(base) - 1

LEMMA AheadStays == Inv /\ Ahead /\ [Next]_vars => Ahead'
<1> SUFFICES ASSUME Inv, Ahead, [Next]_vars PROVE Ahead'
  OBVIOUS
<1>1. ASSUME NEW addr \in Starts, rboot_write_init(addr) PROVE Ahead'
  <2>1. addr \in Nat /\ Sector(addr) \in Nat
    BY Sizes, SectorOrder
  <2>2. last_sector_erased' = Sector(addr) - 1 /\ base' = addr
    BY <1>1 DEF rboot_write_init, first_erased
  <2>3. QED
    BY <2>1, <2>2 DEF Ahead
<1>2. ASSUME NEW n \in ChunkLens, NEW ret \in Returns, Write(n, ret) PROVE Ahead'
  <2>1. phase = "writing" /\ base' = base /\ rboot_write_flash([i \in 1..n |-> fed + i], ret)
    BY <1>2 DEF Write
  <2>2. /\ base \in Nat /\ Sector(base) \in Nat /\ last_sector_erased \in Int
        /\ start_addr \in 0..End /\ fed \in 0..MaxFed
    BY <2>1, Sizes, SectorOrder DEF Inv, Streaming, TypeOK, End
  <2>3. last_sector_erased' >= last_sector_erased /\ last_sector_erased' \in Int
    <3>1. last_sector_erased' \in Int
      BY <1>2, Sizes, WriteKeeps DEF Inv, TypeOK
    <3>2. \/ last_sector_erased' = last_sector_erased
          \/ last_sector_erased' > last_sector_erased
      BY <2>1 DEF rboot_write_flash, status, erased_to
    <3>3. QED
      BY <2>2, <3>1, <3>2
  <2>4. QED
    BY <2>1, <2>2, <2>3 DEF Ahead
<1>3. ASSUME NEW ret \in Returns, rboot_write_end(ret) PROVE Ahead'
  BY <1>3 DEF rboot_write_end, Ahead
<1>4. CASE UNCHANGED vars
  BY <1>4 DEF vars, status, Ahead
<1>5. QED
  BY <1>1, <1>2, <1>3, <1>4 DEF Next

\* A call that completes no word of a ROM's image neither erases nor programs anything.
\* For an image that begins inside a sector it would erase that sector, and for one at
\* address 0 every sector: start_addr - 1 is unsigned.
LEMMA NoWordNoChange ==
    ASSUME RomStarts, Inv, Ahead, phase = "writing", NEW values
    PROVE  Programmed(values, 0, 0) = flash
<1> DEFINE b == start_addr - 1
<1>1. /\ base \in 0 .. End - 1 /\ base # 0 /\ base % SectorSize = 0
      /\ start_addr \in 0..End /\ base <= start_addr /\ last_sector_erased \in Int
      /\ flash \in [Addrs -> Cells] /\ SectorSize \in Nat \ {0} /\ AddrSpace \in Nat /\ End < AddrSpace
  BY Sizes DEF RomStarts, Inv, Streaming, TypeOK, End
<1>2. b \in Addrs /\ b \in Nat /\ Sector(b) \in Nat
  BY <1>1, Sizes, SectorOrder
<1>3. Sector(b) <= last_sector_erased
  <2>1. CASE base <= b
    <3>1. b < start_addr
      BY <1>1
    <3>2. QED
      BY <1>2, <2>1, <3>1 DEF Inv, Streaming
  <2>2. CASE b = base - 1
    <3>1. base \in Nat \ {0} /\ base - 1 \in Nat
      BY <1>1
    <3>2. Sector(base - 1) <= Sector(base) - 1
      <4>1. base = (SectorSize * (base \div SectorSize)) + (base % SectorSize)
        BY <1>1, <3>1
      <4>2. /\ base - 1 = (SectorSize * ((base - 1) \div SectorSize)) + ((base - 1) % SectorSize)
            /\ (base - 1) % SectorSize \in 0 .. SectorSize - 1
        BY <1>1, <3>1
      <4>3. Sector(base - 1) # Sector(base)
        BY <1>1, <3>1, <4>1, <4>2 DEF Sector
      <4>4. Sector(base - 1) \in Nat /\ Sector(base) \in Nat /\ Sector(base - 1) <= Sector(base)
        <5>1. base - 1 <= base
          BY <3>1
        <5>2. QED
          BY <3>1, <5>1, SectorOrder
      <4>5. QED
        BY <4>3, <4>4
    <3>3. Sector(base) \in Nat /\ last_sector_erased >= Sector(base) - 1
      BY <3>1, SectorOrder DEF Ahead
    <3>4. QED
      BY <1>1, <1>2, <2>2, <3>2, <3>3
  <2>3. QED
    BY <1>1, <2>1, <2>2
<1>4. lastsect(0) = Sector(b)
  <2>1. start_addr + 0 - 1 = b
    BY <1>1
  <2>2. b < AddrSpace /\ AddrSpace \in Nat \ {0}
    BY <1>1, <1>2, Sizes
  <2>3. ASSUME NEW x \in Nat, x < AddrSpace PROVE (x + AddrSpace) % AddrSpace = x
    BY <2>2, <2>3
  <2> HIDE DEF b
  <2>4. (b + AddrSpace) % AddrSpace = b
    BY <1>2, <2>2, <2>3
  <2>5. QED
    BY <2>1, <2>4 DEF lastsect
<1>5. erased_to(0) = last_sector_erased
  BY <1>1, <1>2, <1>3, <1>4 DEF erased_to
<1>6. start_addr .. start_addr + 0 - 1 = {} /\ last_sector_erased + 1 .. last_sector_erased = {}
  BY <1>1
<1>7. Programmed(values, 0, 0) = [a \in Addrs |-> flash[a]]
  BY <1>5, <1>6 DEF Programmed
<1>8. QED
  BY <1>1, <1>7

LEMMA RestIs == \A n \in Nat : Rest(n) = n - Words(n) /\ Words(n) \in Nat
BY DEF Rest, Words

\* The counters after a call, from the bytes that were waiting and the ones handed over.
LEMMA CountersAfter ==
    ASSUME RomStarts, Inv, Ahead, NEW n \in ChunkLens, NEW ret \in Returns, Write(n, ret)
    PROVE  LET u    == [written |-> Written, extra_count |-> Len(extra_bytes)]
               have == Len(extra_bytes) + n
           IN /\ Written \in Int /\ n # 0
              /\ [ret |-> ret, written |-> start_addr' - base,
                  extra_count |-> Len(extra_bytes'),
                  touched |-> IF ret = "no_ram" THEN 0 ELSE Words(have)]
                   \in WriteOutcomes(u, n)
              /\ ret = "no_ram" \/ Words(have) = 0 => flash' = flash
<1> DEFINE data == [i \in 1..n |-> fed + i]
           j    == joined(data)
           k    == Len(extra_bytes)
           len  == Words(k + n)
<1>1. /\ phase = "writing" /\ fed + n <= MaxFed /\ base' = base
      /\ rboot_write_flash(data, ret)
  BY DEF Write
<1>2. /\ extra_bytes \in Seq(Bytes) /\ k \in Nat /\ n \in Nat \ {0} /\ fed \in Nat
      /\ start_addr \in Nat /\ base \in Nat /\ Written \in Int /\ Written = start_addr - base
      /\ Clean /\ MaxFed \in Nat
  <2>1. /\ n \in Nat \ {0} /\ fed \in Nat /\ start_addr \in Nat /\ base \in Nat /\ Clean
        /\ MaxFed \in Nat
    BY <1>1, Sizes, WriterAssumption DEF Inv, Streaming, TypeOK, End
  <2>2. extra_bytes \in Seq(Bytes)
    BY DEF Inv, TypeOK, Bytes
  <2>3. k \in Nat
    BY <2>2, LenProperties
  <2>4. QED
    BY <2>1, <2>2, <2>3 DEF Written
<1>3. j \in Seq(Bytes) /\ Len(j) = k + n
  <2>1. data \in Seq(Bytes) /\ Len(data) = n
    BY <1>1, <1>2, StreamBytes
  <2> HIDE DEF data, k
  <2>2. QED
    BY <1>2, <2>1, ConcatProperties DEF joined, k
<1>4. /\ len \in Nat /\ len <= k + n /\ Rest(k + n) = k + n - len /\ k + n \in Nat
  <2>1. PICK m \in Nat : m = k + n
    BY <1>2
  <2>2. Words(m) \in 0..m /\ Rest(m) = m - Words(m)
    BY <2>1, WholeWords, RestIs
  <2>3. len = Words(m) /\ Rest(k + n) = Rest(m)
    BY <2>1
  <2> HIDE DEF k, len
  <2>4. QED
    BY <1>2, <2>1, <2>2, <2>3
<1>5. Len(SubSeq(j, len + 1, k + n)) = k + n - len
  <2> HIDE DEF j, k, len
  <2>1. \A i \in len + 1 .. k + n : i \in 1 .. Len(j)
    BY <1>2, <1>3, <1>4
  <2>2. \A i \in len + 1 .. k + n : j[i] \in Bytes
    <3>1. \A i \in 1 .. Len(j) : j[i] \in Bytes
      BY <1>3, ElementOfSeq
    <3>2. QED
      BY <2>1, <3>1
  <2>3. PICK from \in Int, to \in Int : from = len + 1 /\ to = k + n
    BY <1>2, <1>4
  <2>4. \A i \in from .. to : j[i] \in Bytes
    BY <2>2, <2>3
  <2>5. /\ SubSeq(j, from, to) \in Seq(Bytes)
        /\ Len(SubSeq(j, from, to)) = IF from <= to THEN to - from + 1 ELSE 0
    BY <2>4, SubSeqProperties
  <2>6. QED
    BY <1>2, <1>4, <2>3, <2>5
<1> DEFINE u == [written |-> Written, extra_count |-> k]
           w == [ret |-> ret, written |-> start_addr' - base,
                 extra_count |-> Len(extra_bytes'),
                 touched |-> IF ret = "no_ram" THEN 0 ELSE len]
<1>6. WriteOutcomes(u, n) =
            {[ret |-> "ok", written |-> Written + len,
              extra_count |-> Rest(k + n), touched |-> len],
             [ret |-> "no_ram", written |-> Written, extra_count |-> k, touched |-> 0],
             [ret |-> "spi_error", written |-> Written,
              extra_count |-> Rest(k + n), touched |-> len]}
  BY <1>2 DEF WriteOutcomes
<1>7. CASE ret = "no_ram"
  <2>1. start_addr' = start_addr /\ extra_bytes' = extra_bytes /\ flash' = flash
    BY <1>1, <1>7 DEF rboot_write_flash, status
  <2> HIDE DEF k, len
  <2>2. w = [ret |-> "no_ram", written |-> Written, extra_count |-> k, touched |-> 0]
    BY <1>2, <1>7, <2>1 DEF k
  <2>3. QED
    BY <1>2, <1>6, <2>1, <2>2, <1>7 DEF k, len
<1>8. CASE ret \in {"ok", "spi_error"}
  <2>1. /\ extra_bytes' = SubSeq(j, len + 1, k + n)
        /\ \/ /\ ret = "ok" /\ flash' = Programmed(j, len, len)
              /\ start_addr' = start_addr + len
           \/ /\ ret = "spi_error" /\ \E m \in 0..len : flash' = Programmed(j, len, m)
              /\ start_addr' = start_addr
    BY <1>1, <1>3, <1>8 DEF rboot_write_flash
  <2>2. len = 0 => flash' = flash
    <3> HIDE DEF j, len
    <3>1. 0..0 = {0}
      OBVIOUS
    <3>2. len = 0 => flash' = Programmed(j, 0, 0)
      BY <2>1, <3>1
    <3>3. QED
      BY <1>1, <3>2, NoWordNoChange
  <2> HIDE DEF j, k, len
  <2>3. Len(extra_bytes') = Rest(k + n)
    BY <1>4, <1>5, <2>1
  <2>4. CASE ret = "ok"
    <3>1. start_addr' - base = Written + len
      BY <1>2, <1>4, <2>1, <2>4
    <3>2. w \in WriteOutcomes(u, n)
      BY <1>6, <2>3, <2>4, <3>1
    <3>3. QED
      BY <1>2, <2>2, <2>4, <3>2 DEF k, len
  <2>5. CASE ret = "spi_error"
    <3>1. start_addr' - base = Written
      BY <1>2, <2>1, <2>5
    <3>2. w \in WriteOutcomes(u, n)
      BY <1>6, <2>3, <2>5, <3>1
    <3>3. QED
      BY <1>2, <2>2, <2>5, <3>2 DEF k, len
  <2>6. QED
    BY <1>8, <2>4, <2>5
<1>9. QED
  BY <1>7, <1>8 DEF Returns

\* The writer's counters move as the OTA client's model, WriteOutcomes, says, and a call
\* that touches nothing there changes no cell: what RbootOta takes from the writer is
\* what the writer does with the image of a ROM.
THEOREM CountersAlwaysAgree == ASSUME RomStarts PROVE Spec => CountersAgree
<1> DEFINE Agree == \A n \in ChunkLens, ret \in Returns : Write(n, ret) =>
                      \E w \in WriteOutcomes([written |-> Written,
                                              extra_count |-> Len(extra_bytes)], n) :
                         /\ w.ret = ret
                         /\ w.written = start_addr' - base
                         /\ w.extra_count = Len(extra_bytes')
                         /\ w.touched = 0 => flash' = flash
<1>1. Init => Ahead
  BY DEF Init, Ahead
<1>2. Inv /\ Ahead => Agree
  <2> SUFFICES ASSUME Inv, Ahead, NEW n \in ChunkLens, NEW ret \in Returns, Write(n, ret)
               PROVE  \E w \in WriteOutcomes([written |-> Written,
                                              extra_count |-> Len(extra_bytes)], n) :
                         /\ w.ret = ret
                         /\ w.written = start_addr' - base
                         /\ w.extra_count = Len(extra_bytes')
                         /\ w.touched = 0 => flash' = flash
    OBVIOUS
  <2> DEFINE w == [ret |-> ret, written |-> start_addr' - base,
                   extra_count |-> Len(extra_bytes'),
                   touched |-> IF ret = "no_ram" THEN 0 ELSE Words(Len(extra_bytes) + n)]
  <2>1. /\ w \in WriteOutcomes([written |-> Written, extra_count |-> Len(extra_bytes)], n)
        /\ (ret = "no_ram" \/ Words(Len(extra_bytes) + n) = 0) => flash' = flash
    BY CountersAfter
  <2>2. /\ w.ret = ret /\ w.written = start_addr' - base
        /\ w.extra_count = Len(extra_bytes') /\ (w.touched = 0 => flash' = flash)
    BY <2>1
  <2> HIDE DEF w
  <2>3. QED
    BY <2>1, <2>2
<1>3. Spec => []Inv /\ []Ahead
  BY <1>1, AheadStays, AlwaysInv, PTL DEF Spec
<1>4. QED
  BY <1>2, <1>3, PTL DEF CountersAgree

-----------------------------------------------------------------------------
(************************** The boot configuration **************************)

SectorStates == [current_rom: Roms \cup {Unwritten}, count: Counts \cup {Unwritten},
                 chksum: (Roms \X Counts) \cup {Unwritten}, rest: UserData]

\* A checksum that is right is not what an erased part reads as: the configuration it
\* is of is whole.
LEMMA SoundIsWhole ==
    ASSUME NEW s \in SectorStates, Sound(s)
    PROVE  s.current_rom \in Roms /\ s.count \in Counts /\ s.chksum \in Roms \X Counts
<1>1. s.current_rom \in {0, 1, Unwritten} /\ s.count \in {1, 2, Unwritten}
  BY BootAssumption DEF SectorStates, Roms
<1>2. s.chksum # Unwritten
  <2>1. <<s.current_rom, s.count>> \in {0, 1, Unwritten} \X {1, 2, Unwritten}
    BY <1>1
  <2>2. QED
    BY <2>1, BootAssumption DEF Sound
<1>3. s.chksum \in Roms \X Counts
  BY <1>2 DEF SectorStates
<1>4. <<s.current_rom, s.count>> \in Roms \X Counts
  BY <1>3 DEF Sound
<1>5. QED
  BY <1>3, <1>4

LEMMA BlankIsNot == Blank \in SectorStates /\ ~Sound(Blank)
<1>1. Blank \in SectorStates
  BY BootAssumption DEF Blank, SectorStates
<1>2. Blank.current_rom \notin Roms
  BY BootAssumption DEF Blank, Roms
<1>3. QED
  BY <1>1, <1>2, SoundIsWhole

LEMMA DefaultIsSound ==
    ASSUME NEW d \in UserData
    PROVE  /\ With(default_config, d) \in SectorStates
           /\ Sound(With(default_config, d))
           /\ With(default_config, d).current_rom = 0
           /\ With(default_config, d).count = 2
           /\ With(default_config, d).rest = d
BY BootAssumption DEF With, default_config, Config, SectorStates, Sound, Roms

\* What a cut write leaves in the sector is either not sound or the configuration
\* that was being written.
LEMMA WrittenType ==
    ASSUME NEW b \in SectorStates, NEW n \in 0 .. Parts
    PROVE  /\ Stored(b, n) \in SectorStates
           /\ Sound(Stored(b, n)) =>
                 /\ Stored(b, n).current_rom = b.current_rom
                 /\ Stored(b, n).count = b.count
           /\ n = Parts => Stored(b, n) = b
<1>1. Stored(b, n) \in SectorStates
  BY BootAssumption DEF Stored, SectorStates
<1>2. ASSUME Sound(Stored(b, n)) PROVE n > 2
  <2>1. Stored(b, n).chksum # Unwritten
    BY <1>1, <1>2, SoundIsWhole, BootAssumption DEF SectorStates, Sound, Roms
  <2>2. QED
    BY <2>1 DEF Stored
<1>3. ASSUME n = Parts PROVE Stored(b, n) = b
  BY <1>3 DEF Stored, Parts, SectorStates
<1>4. QED
  BY <1>1, <1>2, <1>3 DEF Stored

-----------------------------------------------------------------------------
(****************************** The invariant *******************************)

Known ==
    /\ BootTypeOK /\ RomExists
    /\ pc \in {"running", "read", "erase"} => Sound(sector) /\ sector.current_rom = running
    /\ pc \in {"read", "erase", "write"} => conf.current_rom < conf.count
    /\ pc \in {"erase", "write"} => Sound(conf) /\ buffer = With(conf, buffer.rest)
    /\ pc = "erase" => buffer.rest = sector.rest
    /\ pc = "write" => sector = Blank /\ (~hurt => buffer.rest = user)
    /\ pc # "write" /\ ~hurt => sector.rest = user
    /\ pc = "done" /\ ~result => Sound(sector) /\ sector.current_rom = running
    /\ pc = "done" /\ result /\ ~hurt =>
          Sound(sector) /\ sector.current_rom = conf.current_rom

LEMMA KnownAtStart == ASSUME BootInit PROVE Known
<1>1. sector \in SectorStates /\ (Sound(sector) => sector.current_rom < sector.count)
  <2>1. CASE sector = Blank
    BY <2>1, BlankIsNot
  <2>2. ASSUME NEW n \in Counts, sector = With(Config(0, n), user)
        PROVE  sector \in SectorStates /\ sector.current_rom < sector.count
    BY <2>2, BootAssumption DEF BootInit, With, Config, SectorStates, Roms
  <2>3. QED
    BY <2>1, <2>2 DEF BootInit
<1>2. sector.rest = user
  BY DEF BootInit, Blank, With, Config
<1>3. conf \in [current_rom: Roms, count: Counts, chksum: Roms \X Counts]
  BY BootAssumption DEF BootInit, default_config, Config, Roms
<1>4. QED
  BY <1>1, <1>2, <1>3, BlankIsNot DEF BootInit, Known, BootTypeOK, RomExists,
     SectorStates, Roms

LEMMA KnownStays == ASSUME Known, [BootNext]_bootVars PROVE Known'
<1>0. /\ sector \in SectorStates /\ buffer \in SectorStates /\ BootTypeOK
      /\ conf \in [current_rom: Roms, count: Counts, chksum: Roms \X Counts]
  BY DEF Known, BootTypeOK, SectorStates
<1>1. CASE Start
  <2>1. CASE Sound(sector)
    <3>1. sector.current_rom \in Roms
      BY <1>0, <2>1, SoundIsWhole
    <3>2. /\ pc' = "running" /\ running' = sector.current_rom
          /\ UNCHANGED <<sector, user, conf, buffer, result, hurt>> /\ pc = "off"
      BY <1>1, <2>1 DEF Start
    <3>3. QED
      BY <1>0, <2>1, <3>1, <3>2 DEF Known, BootTypeOK, RomExists, Sound
  <2>2. CASE ~Sound(sector)
    <3>1. /\ pc' = "running" /\ running' = 0 /\ pc = "off"
          /\ user' \in UserData /\ sector' = With(default_config, user')
          /\ UNCHANGED <<conf, buffer, result, hurt>>
      BY <1>0, <1>1, <2>2, BootAssumption DEF Start, default_config, Config, SectorStates
    <3>2. /\ sector' \in SectorStates /\ Sound(sector') /\ sector'.current_rom = 0
          /\ sector'.count = 2 /\ sector'.rest = user'
      BY <3>1, DefaultIsSound
    <3>3. QED
      BY <1>0, <3>1, <3>2 DEF Known, BootTypeOK, RomExists, SectorStates, Sound, Roms
  <2>3. QED
    BY <2>1, <2>2
<1>2. CASE config_cmd_switch
  <2>1. /\ sector.current_rom \in Roms /\ sector.count \in Counts
        /\ sector.chksum \in Roms \X Counts /\ sector.current_rom = running
    BY <1>0, <1>2, SoundIsWhole DEF config_cmd_switch, Known
  <2>2. Other(sector.current_rom) \in Roms
    BY <2>1 DEF Other, Roms
  <2>3. UNCHANGED <<sector, buffer, running, hurt, user>> /\ pc = "running"
    BY <1>2 DEF config_cmd_switch
  <2>4. CASE result' = FALSE /\ pc' = "done" /\ UNCHANGED conf
    BY <1>0, <2>3, <2>4 DEF Known, BootTypeOK, RomExists, Sound
  <2>5. CASE /\ Other(sector.current_rom) < sector.count
             /\ conf' = [current_rom |-> Other(sector.current_rom),
                         count |-> sector.count, chksum |-> sector.chksum]
             /\ pc' = "read" /\ UNCHANGED result
    BY <1>0, <2>1, <2>2, <2>3, <2>5 DEF Known, BootTypeOK, RomExists, Sound
  <2>6. QED
    BY <1>2, <2>4, <2>5 DEF config_cmd_switch, rboot_set_current_rom
<1>3. CASE ReadSector
  <2>1. pc = "read" /\ UNCHANGED <<sector, running, hurt, user>>
    BY <1>3 DEF ReadSector
  <2>2. CASE /\ conf' = [conf EXCEPT !.chksum = chksum(conf)]
             /\ buffer' = Copied(sector, conf')
             /\ pc' = "erase" /\ UNCHANGED result
    <3>1. /\ conf' \in [current_rom: Roms, count: Counts, chksum: Roms \X Counts]
          /\ Sound(conf') /\ conf'.current_rom = conf.current_rom
          /\ conf'.count = conf.count
      BY <1>0, <2>2 DEF chksum, Sound
    <3>2. /\ buffer' \in SectorStates /\ buffer'.rest = sector.rest
          /\ buffer' = With(conf', buffer'.rest) /\ buffer'.current_rom \in Roms
      BY <1>0, <2>2, <3>1 DEF Copied, With, SectorStates
    <3>3. buffer' # Blank
      BY <3>2, BootAssumption DEF Blank, Roms
    <3>4. QED
      BY <1>0, <2>1, <2>2, <3>1, <3>2, <3>3 DEF Known, BootTypeOK, RomExists,
         SectorStates, Sound
  <2>3. CASE result' = FALSE /\ pc' = "done" /\ UNCHANGED <<conf, buffer>>
    BY <1>0, <2>1, <2>3 DEF Known, BootTypeOK, RomExists, Sound
  <2>4. QED
    BY <1>3, <2>2, <2>3 DEF ReadSector
<1>4. CASE EraseSector
  BY <1>0, <1>4, BlankIsNot DEF EraseSector, Known, BootTypeOK, RomExists, SectorStates,
     Sound
<1>5. ASSUME NEW n \in 0 .. Parts, WriteSector(n) PROVE Known'
  <2>1. /\ pc = "write" /\ pc' = "done" /\ sector' = Stored(buffer, n)
        /\ hurt' = (hurt \/ n < Parts) /\ buffer' = Blank /\ result' = TRUE
        /\ UNCHANGED <<conf, running, user>>
    BY <1>5 DEF WriteSector
  <2>2. /\ sector' \in SectorStates
        /\ Sound(sector') => /\ sector'.current_rom = buffer.current_rom
                             /\ sector'.count = buffer.count
        /\ n = Parts => sector' = buffer
    BY <1>0, <2>1, WrittenType
  <2>3. /\ buffer.current_rom = conf.current_rom /\ buffer.count = conf.count
        /\ buffer.chksum = conf.chksum /\ Sound(conf) /\ conf.current_rom < conf.count
        /\ ~hurt => buffer.rest = user
    BY <2>1 DEF Known, With
  <2>4. ~hurt' => ~hurt /\ n = Parts
    <3>1. n < Parts \/ n = Parts
      BY DEF Parts
    <3>2. QED
      BY <2>1, <3>1, Zenon
  <2>5. hurt' \in BOOLEAN
    BY <2>1, Zenon
  <2>6. RomExists'
    BY <2>2, <2>3 DEF RomExists
  <2>7. BootTypeOK'
    BY <1>0, <2>1, <2>2, <2>5, BlankIsNot DEF BootTypeOK, SectorStates
  <2>8. ~hurt' => /\ sector'.rest = user' /\ Sound(sector')
                  /\ sector'.current_rom = conf'.current_rom
    BY <2>1, <2>2, <2>3, <2>4 DEF Sound
  <2>9. QED
    BY <2>1, <2>6, <2>7, <2>8 DEF Known
<1>6. CASE system_restart
  BY <1>0, <1>6 DEF system_restart, Off, Known, BootTypeOK, RomExists, Sound
<1>7. CASE PowerCut
  <2>1. /\ pc # "off" /\ pc' = "off" /\ buffer' = Blank /\ result' = FALSE
        /\ UNCHANGED <<conf, running, user>>
    BY <1>7 DEF PowerCut, Off
  <2>2. CASE pc # "write" /\ UNCHANGED <<sector, hurt>>
    BY <1>0, <2>1, <2>2, BlankIsNot DEF Known, BootTypeOK, RomExists, SectorStates, Sound
  <2>3. ASSUME NEW n \in 0 .. Parts, pc = "write", hurt' = TRUE,
               sector' = Stored(buffer, n)
        PROVE  Known'
    <3>1. /\ sector' \in SectorStates
          /\ Sound(sector') => /\ sector'.current_rom = buffer.current_rom
                               /\ sector'.count = buffer.count
      BY <1>0, <2>3, WrittenType
    <3>2. /\ buffer.current_rom = conf.current_rom /\ buffer.count = conf.count
          /\ conf.current_rom < conf.count
      BY <2>3 DEF Known, With
    <3>3. RomExists'
      BY <3>1, <3>2 DEF RomExists
    <3>4. BootTypeOK'
      BY <1>0, <2>1, <2>3, <3>1, BlankIsNot DEF BootTypeOK, SectorStates
    <3>5. QED
      BY <2>1, <2>3, <3>3, <3>4 DEF Known
  <2>4. QED
    BY <1>7, <2>2, <2>3 DEF PowerCut
<1>8. CASE UNCHANGED bootVars
  BY <1>0, <1>8 DEF bootVars, Known, BootTypeOK, RomExists, Sound
<1>9. QED
  BY <1>1, <1>2, <1>3, <1>4, <1>5, <1>6, <1>7, <1>8 DEF BootNext

LEMMA AlwaysKnown == BootSpec => []Known
<1>1. BootInit => Known
  BY KnownAtStart
<1>2. Known /\ [BootNext]_bootVars => Known'
  BY KnownStays
<1>3. QED
  BY <1>1, <1>2, PTL DEF BootSpec

-----------------------------------------------------------------------------
(************************ Theorems about the save ***************************)

\* The types of the state, for all data and all boards.
THEOREM BootTypeCorrect == BootSpec => []BootTypeOK
<1>1. Known => BootTypeOK
  BY DEF Known
<1>2. QED
  BY <1>1, AlwaysKnown, PTL

\* rboot_set_config never selects a ROM the board has not, however a write ends.
THEOREM SelectedRomExists == BootSpec => []RomExists
<1>1. Known => RomExists
  BY DEF Known
<1>2. QED
  BY <1>1, AlwaysKnown, PTL

\* Saving the selection loses nothing of the application's data in the sector.
THEOREM RestIsMaintained == BootSpec => []RestMaintained
<1>1. Known => RestMaintained
  BY DEF Known, RestMaintained
<1>2. QED
  BY <1>1, AlwaysKnown, PTL

\* A selection that succeeded is in the sector, one that was refused changed nothing.
THEOREM SelectionIsTaken == BootSpec => []SelectionTakes
<1>1. Known => SelectionTakes
  BY DEF Known, SelectionTakes, BootTypeOK
<1>2. QED
  BY <1>1, AlwaysKnown, PTL

\* The ROM that would start next changes only in a save, and only to the one asked
\* for or to the default.
THEOREM SelectionOnlyAsAsked == BootSpec => SelectionChanges
<1> DEFINE Changes == Boots' # Boots =>
                         pc \in {"erase", "write"} /\ Boots' \in {conf.current_rom, 0}
<1>1. Known /\ [BootNext]_bootVars => [Changes]_bootVars
  <2> SUFFICES ASSUME Known, BootNext PROVE Changes
    OBVIOUS
  <2>0. sector \in SectorStates /\ buffer \in SectorStates
    BY DEF Known, BootTypeOK, SectorStates
  <2>1. CASE UNCHANGED sector
    BY <2>1 DEF Boots, Sound
  <2>2. CASE Start /\ ~Sound(sector)
    <3>1. user' \in UserData /\ sector' = With(default_config, user')
      BY <2>0, <2>2, BootAssumption DEF Start, SectorStates
    <3>2. Sound(sector') /\ sector'.current_rom = 0
      BY <3>1, DefaultIsSound
    <3>3. QED
      BY <2>2, <3>2 DEF Boots
  <2>3. CASE EraseSector
    <3>1. Boots' = 0
      BY <2>3, BlankIsNot DEF EraseSector, Boots
    <3>2. QED
      BY <2>3, <3>1 DEF EraseSector
  <2>4. ASSUME NEW n \in 0 .. Parts, pc = "write", sector' = Stored(buffer, n)
        PROVE  Changes
    <3>1. Sound(sector') => sector'.current_rom = buffer.current_rom
      BY <2>0, <2>4, WrittenType
    <3>2. buffer.current_rom = conf.current_rom
      BY <2>4 DEF Known, With
    <3>3. QED
      BY <2>4, <3>1, <3>2 DEF Boots
  <2>5. QED
    BY <2>1, <2>2, <2>3, <2>4 DEF BootNext, Start, config_cmd_switch, ReadSector,
       WriteSector, system_restart, PowerCut
<1>2. QED
  BY <1>1, AlwaysKnown, PTL DEF BootSpec, SelectionChanges
=============================================================================
