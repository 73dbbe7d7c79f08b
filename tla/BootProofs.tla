------------------------------ MODULE BootProofs ------------------------------
(***************************************************************************)
(* Proofs about the loader and the image, for every geometry of the        *)
(* floppy, every size of the files and every pattern of read errors.       *)
(***************************************************************************)
EXTENDS BootImage, SequenceTheorems, TLAPS

Stages == {"boot", "sys", "usr", "header", "built", "died", "load", "main", "user",
           "fault", "overwritten"}

\* What the two products of read_it's counters add up to.
LEMMA Products ==
    ASSUME NEW a \in Int, NEW b \in Int
    PROVE  /\ a * b \in Int
           /\ (a + 1) * b = a * b + b
           /\ (a * 2 + 1) * b = (a * 2) * b + b
           /\ ((a + 1) * 2) * b = (a * 2 + 1) * b + b
OBVIOUS

----------------------------------------------------------------------------
(* The order of the sectors.                                               *)

\* The sector that read_it reads next is the one that belongs at es:bx.
InStep ==
    /\ es \in Nat /\ bx \in 0 .. SEGMENT - 1
    /\ track \in Nat /\ head \in {0, 1} /\ sread \in 0 .. SEC_PISTA
    /\ (track * 2 + head) * SEC_PISTA + sread = es * SEGMENT + bx + 1

LoadInv ==
    /\ InStep
    /\ memory = [s \in Slots |-> memory[s]]
    /\ LoadedInOrder

\* ReadLength stops at the end of the track and of the segment.
LEMMA LengthFits ==
    ASSUME InStep
    PROVE  ReadLength \in Nat /\ bx + ReadLength <= SEGMENT /\ sread + ReadLength <= SEC_PISTA
BY BootAssumption DEF InStep, ReadLength

\* A turn of the loop goes on at the next sector, in memory and on the disk.
LEMMA TurnInStep ==
    ASSUME InStep, ReadTurn
    PROVE  /\ InStep'
           /\ es' * SEGMENT + bx' = es * SEGMENT + bx + ReadLength
<1> DEFINE n == ReadLength
<1>1. /\ n \in Nat /\ bx + n <= SEGMENT /\ sread + n <= SEC_PISTA
      /\ SEGMENT \in Nat \ {0} /\ SEC_PISTA \in Nat \ {0}
  BY LengthFits, BootAssumption
<1>2. /\ \/ /\ sread + n # SEC_PISTA
            /\ sread' = sread + n
            /\ UNCHANGED <<head, track>>
         \/ /\ sread + n = SEC_PISTA
            /\ sread' = 0
            /\ head' = 1 - head
            /\ track' = IF head = 1 THEN track + 1 ELSE track
      /\ \/ bx + n < SEGMENT /\ bx' = bx + n /\ UNCHANGED es
         \/ bx + n >= SEGMENT /\ bx' = 0 /\ es' = es + 1
  BY DEF ReadTurn
<1> HIDE DEF n
<1>3. /\ es' \in Nat /\ bx' \in 0 .. SEGMENT - 1
      /\ track' \in Nat /\ head' \in {0, 1} /\ sread' \in 0 .. SEC_PISTA
  BY <1>1, <1>2 DEF InStep
<1>4. es' * SEGMENT + bx' = es * SEGMENT + bx + n
  <2>1. CASE bx + n < SEGMENT
    BY <1>1, <1>2, <2>1 DEF InStep
  <2>2. CASE bx + n >= SEGMENT
    <3>1. es' = es + 1 /\ bx' = 0 /\ bx + n = SEGMENT
      BY <1>1, <1>2, <2>2 DEF InStep
    <3>2. (es + 1) * SEGMENT = es * SEGMENT + SEGMENT /\ es * SEGMENT \in Int
      BY <1>1, Products DEF InStep
    <3> QED
      BY <1>1, <3>1, <3>2 DEF InStep
  <2> QED
    BY <1>1, <2>1, <2>2 DEF InStep
<1>5. (track' * 2 + head') * SEC_PISTA + sread'
         = (track * 2 + head) * SEC_PISTA + sread + n
  <2>1. CASE sread + n # SEC_PISTA
    <3>1. sread' = sread + n /\ head' = head /\ track' = track
      BY <1>2, <2>1
    <3>2. (track * 2 + head) * SEC_PISTA \in Int
      BY <1>1 DEF InStep
    <3> QED
      BY <1>1, <3>1, <3>2 DEF InStep
  <2>2. CASE sread + n = SEC_PISTA
    <3>1. /\ (track * 2) * SEC_PISTA \in Int
          /\ (track * 2 + 1) * SEC_PISTA = (track * 2) * SEC_PISTA + SEC_PISTA
          /\ ((track + 1) * 2) * SEC_PISTA = (track * 2 + 1) * SEC_PISTA + SEC_PISTA
      BY <1>1, Products DEF InStep
    <3>2. CASE head = 0
      <4>1. head' = 1 /\ track' = track /\ sread' = 0
        BY <1>2, <2>2, <3>2
      <4>2. track * 2 + head = track * 2
        BY <3>2 DEF InStep
      <4> QED
        BY <1>1, <2>2, <3>1, <4>1, <4>2 DEF InStep
    <3>3. CASE head = 1
      <4>1. head' = 0 /\ track' = track + 1 /\ sread' = 0
        BY <1>2, <2>2, <3>3
      <4>2. track' * 2 + head' = (track + 1) * 2
        BY <4>1 DEF InStep
      <4> QED
        BY <1>1, <2>2, <3>1, <3>3, <4>1, <4>2 DEF InStep
    <3> QED
      BY <3>2, <3>3 DEF InStep
  <2> QED
    BY <2>1, <2>2
<1>6. (track * 2 + head) * SEC_PISTA \in Int /\ es * SEGMENT \in Int
  BY <1>1 DEF InStep
<1>7. (track' * 2 + head') * SEC_PISTA + sread' = es' * SEGMENT + bx' + 1
  BY <1>1, <1>4, <1>5, <1>6 DEF InStep
<1> QED
  BY <1>3, <1>4, <1>7 DEF InStep, n

\* What int 0x13 stores is the next sectors, each where it belongs.
LEMMA TurnInOrder == ASSUME LoadInv, ReadTurn PROVE LoadInv'
<1> DEFINE n    == ReadLength
           base == es * SEGMENT
           lba  == (track * 2 + head) * SEC_PISTA + sread
           Read(s) == \E i \in 0 .. n - 1 : s = base + ((bx + i) % SEGMENT)
<1>1. /\ n \in Nat /\ bx + n <= SEGMENT /\ SEGMENT \in Nat \ {0}
      /\ bx \in 0 .. SEGMENT - 1 /\ base \in Nat
      /\ lba = base + bx + 1 /\ Slots \subseteq Nat
  <2>1. n \in Nat /\ bx + n <= SEGMENT /\ SEGMENT \in Nat \ {0}
    BY LengthFits, BootAssumption DEF LoadInv
  <2>2. bx \in 0 .. SEGMENT - 1 /\ lba = base + bx + 1 /\ es \in Nat
    BY DEF LoadInv, InStep
  <2>3. es * SEGMENT \in Nat
    BY <2>1, <2>2
  <2>4. Slots \subseteq Nat
    BY DEF Slots
  <2> QED
    BY <2>1, <2>2, <2>3, <2>4
<1>2. InStep' /\ es' * SEGMENT + bx' = base + bx + n
  BY TurnInStep DEF LoadInv
<1>3. \/ /\ memory' = [s \in Slots |->
                IF Read(s) THEN lba + ((s - base - bx) % SEGMENT) ELSE memory[s]]
         /\ UNCHANGED ioError
      \/ ioError' = TRUE /\ UNCHANGED memory
  BY Zenon DEF ReadTurn, read_track
<1> HIDE DEF n, base, lba
<1>4. ASSUME NEW s \in Slots
      PROVE  /\ Read(s) => lba + ((s - base - bx) % SEGMENT) = s + 1
             /\ base + bx <= s /\ s < base + bx + n => Read(s)
  <2>1. \A i \in 0 .. n - 1 : i % SEGMENT = i /\ (bx + i) % SEGMENT = bx + i
    BY <1>1
  <2>2. ASSUME NEW i \in 0 .. n - 1, s = base + ((bx + i) % SEGMENT)
        PROVE  lba + ((s - base - bx) % SEGMENT) = s + 1
    <3>1. s = base + bx + i /\ s - base - bx = i
      BY <1>1, <2>1, <2>2
    <3> QED
      BY <1>1, <2>1, <3>1
  <2>3. ASSUME base + bx <= s, s < base + bx + n PROVE Read(s)
    <3>1. s - base - bx \in 0 .. n - 1 /\ s = base + (bx + (s - base - bx))
      BY <1>1, <2>3
    <3> QED
      BY <1>1, <2>1, <3>1
  <2> QED
    BY <2>2, <2>3
<1>5. CASE ioError' = TRUE /\ UNCHANGED memory
  BY <1>2, <1>5 DEF LoadInv, LoadedInOrder
<1>6. CASE /\ memory' = [s \in Slots |->
                 IF Read(s) THEN lba + ((s - base - bx) % SEGMENT) ELSE memory[s]]
           /\ UNCHANGED ioError
  <2>1. ASSUME NEW s \in Slots
        PROVE  /\ memory'[s] = IF Read(s) THEN s + 1 ELSE memory[s]
               /\ base + bx <= s /\ s < base + bx + n => Read(s)
    BY <1>4, <1>6
  <2> HIDE DEF Read
  <2>2. ASSUME NEW s \in Slots
        PROVE  /\ memory'[s] \in {0, s + 1}
               /\ ~ioError /\ s < base + bx + n => memory'[s] = s + 1
    <3>1. /\ memory[s] \in {0, s + 1}
          /\ ~ioError /\ s < base + bx => memory[s] = s + 1
      BY DEF LoadInv, LoadedInOrder, base
    <3>2. s < base + bx \/ base + bx <= s
      BY <1>1
    <3> QED
      BY <2>1, <3>1, <3>2
  <2>3. LoadedInOrder'
    BY <1>2, <1>6, <2>2 DEF LoadedInOrder
  <2>4. memory' = [s \in Slots |-> memory'[s]]
    BY <1>6
  <2> QED
    BY <1>2, <2>3, <2>4 DEF LoadInv
<1> QED
  BY <1>3, <1>5, <1>6

LEMMA LoadInvariant == BootSpec => []LoadInv
<1>1. BootInit => LoadInv
  BY BootAssumption DEF BootInit, LoadInv, InStep, LoadedInOrder, Slots
<1>2. ASSUME LoadInv, [BootNext]_bootVars PROVE LoadInv'
  <2>1. CASE ReadTurn
    BY <1>2, <2>1, TurnInOrder
  <2>2. CASE UNCHANGED loaderVars
    BY <1>2, <2>2 DEF LoadInv, InStep, LoadedInOrder, loaderVars
  <2>3. CASE ~ReadTurn
    BY <1>2, <2>2, <2>3 DEF BootNext, Die, BuildBoot, BuildBlock, BuildHeader, PowerOn,
                            LoadDone, CopyUserCode, bootVars
  <2> QED
    BY <2>1, <2>3
<1> QED
  BY <1>1, <1>2, PTL DEF BootSpec

\* read_it keeps the sector of the disk and the address in memory in step,
\* across the ends of tracks, cylinders and 64 KB segments.
THEOREM SectorsLandInOrder == BootSpec => []LoadedInOrder
BY LoadInvariant, PTL DEF LoadInv

----------------------------------------------------------------------------
(* The image, from the linked files to usr_main.                           *)

\* The first n bytes that build writes: the system, then the user program.
Bytes(n) == [k \in 1 .. n |-> IF k <= size.sys THEN <<"sys", k>>
                                               ELSE <<"usr", k - size.sys>>]

Total == size.sys + size.usr

Built == {"built", "load", "main", "user", "fault", "overwritten"}

\* What build has written when it is at a stage, and what it has patched in.
BuildInv ==
    /\ stage \in Stages
    /\ size.sys \in Nat /\ size.usr \in Nat
    /\ image = Bytes(Len(image)) /\ Len(image) \in 0 .. Total
    /\ stage = "boot" => Len(image) = 0
    /\ stage = "sys" => Len(image) <= size.sys
    /\ stage = "usr" => Len(image) >= size.sys
    /\ stage \in {"header"} \cup Built => Len(image) = Total
    /\ stage \in Built => header = [im_size  |-> im_size,
                                    sys_size |-> size.sys, usr_size |-> size.usr]

\* The loader has stopped because the image is loaded, or loads on.
LoaderInv ==
    /\ stage \in {"main", "user", "fault"} => ~MoreToLoad
    /\ Fits => stage # "overwritten"
    /\ stage \in {"user", "fault"} =>
          /\ usr_main = [i \in 1 .. BytesCopied |-> UserByte(i)]
          /\ stage = "fault" <=> FaultsInCopy

\* Appending a block goes on where the image has stopped.
LEMMA BlockAppended ==
    ASSUME NEW n \in Nat, NEW l \in Nat, size.sys \in Nat, NEW file, NEW from \in Int,
           \/ file = "sys" /\ from = n /\ n + l <= size.sys
           \/ file = "usr" /\ from = n - size.sys /\ size.sys <= n
    PROVE  Bytes(n) \o [i \in 1 .. l |-> <<file, from + i>>] = Bytes(n + l)
<1> DEFINE S == {"sys", "usr"} \X Int
           s == Bytes(n)
           t == [i \in 1 .. l |-> <<file, from + i>>]
<1>1. s \in Seq(S) /\ Len(s) = n
  <2>1. \A k \in 1 .. n : (IF k <= size.sys THEN <<"sys", k>>
                                            ELSE <<"usr", k - size.sys>>) \in S
    OBVIOUS
  <2> HIDE DEF S
  <2> QED
    BY <2>1 DEF Bytes
<1>2. t \in Seq(S) /\ Len(t) = l
  <2>1. \A i \in 1 .. l : <<file, from + i>> \in S
    OBVIOUS
  <2> HIDE DEF S
  <2> QED
    BY <2>1
<1>3. s \o t = [k \in 1 .. n + l |-> IF k <= n THEN s[k] ELSE t[k - n]]
  <2> HIDE DEF s, t, S
  <2>1. /\ s \o t \in Seq(S) /\ Len(s \o t) = n + l
        /\ \A k \in 1 .. n + l : (s \o t)[k] = IF k <= n THEN s[k] ELSE t[k - n]
    BY <1>1, <1>2, ConcatProperties
  <2>2. s \o t \in [1 .. n + l -> S]
    BY <2>1, LenProperties
  <2>3. s \o t = [k \in 1 .. n + l |-> (s \o t)[k]]
    BY <2>2
  <2> QED
    BY <2>1, <2>3
<1>4. ASSUME NEW k \in 1 .. n + l
      PROVE  (IF k <= n THEN s[k] ELSE t[k - n])
                = (IF k <= size.sys THEN <<"sys", k>> ELSE <<"usr", k - size.sys>>)
  <2>1. CASE k <= n
    BY <2>1 DEF Bytes
  <2>2. CASE k > n
    <3>1. k - n \in 1 .. l /\ t[k - n] = <<file, from + (k - n)>>
      BY <2>2
    <3> HIDE DEF t
    <3>2. CASE file = "sys" /\ from = n /\ n + l <= size.sys
      BY <2>2, <3>1, <3>2
    <3>3. CASE file = "usr" /\ from = n - size.sys /\ size.sys <= n
      <4>1. from + (k - n) = k - size.sys /\ ~(k <= size.sys) /\ ~(k <= n)
        BY <2>2, <3>3
      <4> QED
        BY <3>1, <3>3, <4>1
    <3> QED
      BY <3>2, <3>3
  <2> QED
    BY <2>1, <2>2
<1> HIDE DEF s, t
<1>5. Bytes(n + l) = [k \in 1 .. n + l |-> IF k <= n THEN s[k] ELSE t[k - n]]
  BY <1>4 DEF Bytes
<1> QED
  BY <1>3, <1>5 DEF s, t

LEMMA BytesLen ==
    ASSUME NEW n \in Nat PROVE Len(Bytes(n)) = n
<1> DEFINE S == {Bytes(n)[k] : k \in 1 .. n}
<1>1. \A k \in 1 .. n : (IF k <= size.sys THEN <<"sys", k>>
                                          ELSE <<"usr", k - size.sys>>) \in S
  BY DEF Bytes
<1> HIDE DEF S
<1>2. Bytes(n) \in Seq(S)
  BY <1>1 DEF Bytes
<1> QED
  BY <1>2 DEF Bytes

LEMMA BuildBlockStep == ASSUME BuildInv, BuildBlock PROVE BuildInv'
<1> DEFINE n == Len(image)
<1>1. /\ stage \in {"sys", "usr"} /\ size' = size /\ header' = header
      /\ size.sys \in Nat /\ size.usr \in Nat /\ n \in 0 .. Total
      /\ image = Bytes(n)
      /\ stage = "sys" => n <= size.sys
      /\ stage = "usr" => n >= size.sys
      /\ BUFFER \in Nat \ {0}
  BY BootAssumption DEF BuildInv, BuildBlock
<1>2. Remaining \in Int
      /\ Remaining = IF stage = "sys" THEN size.sys - n ELSE size.sys + size.usr - n
  BY <1>1 DEF Remaining, Total
<1>3. /\ \A k : Bytes(k)' = Bytes(k)
      /\ Total' = Total /\ Total \in Nat
  BY <1>1 DEF Bytes, Total
<1>4. CASE Remaining > 0
  <2> DEFINE l    == IF Remaining > BUFFER THEN BUFFER ELSE Remaining
             from == n - (IF stage = "sys" THEN 0 ELSE size.sys)
  <2>1. image' = image \o [i \in 1 .. l |-> <<stage, from + i>>] /\ stage' = stage
    <3>1. ~(Remaining = 0)
      BY <1>2, <1>4
    <3> QED
      BY <3>1, Zenon DEF BuildBlock
  <2>2. /\ l \in Nat /\ from \in Int /\ n \in Nat /\ n + l \in 0 .. Total
        /\ \/ stage = "sys" /\ from = n /\ n + l <= size.sys
           \/ stage = "usr" /\ from = n - size.sys /\ size.sys <= n
    <3>1. /\ size.sys \in Nat /\ size.usr \in Nat /\ n \in Nat /\ BUFFER \in Nat
          /\ n <= size.sys + size.usr
      BY <1>1 DEF Total
    <3> HIDE DEF n
    <3>2. l \in Nat /\ l <= Remaining
      BY <1>2, <1>4, <3>1
    <3> HIDE DEF l
    <3>3. CASE stage = "sys"
      BY <1>2, <3>1, <3>2, <3>3 DEF Total
    <3>4. CASE stage = "usr"
      <4>1. Remaining = size.sys + size.usr - n /\ size.sys <= n /\ from = n - size.sys
        BY <1>1, <1>2, <3>4
      <4> HIDE DEF from
      <4> QED
        BY <3>1, <3>2, <3>4, <4>1 DEF Total
    <3> QED
      BY <1>1, <3>3, <3>4
  <2> HIDE DEF l, from, n
  <2>3. image' = Bytes(n + l)
    <3>1. Bytes(n) \o [i \in 1 .. l |-> <<stage, from + i>>] = Bytes(n + l)

      <4>1. size.sys \in Nat
        BY <1>1
      <4> QED
        BY <2>2, <4>1, BlockAppended
    <3> QED
      BY <1>1, <2>1, <3>1
  <2>4. Len(image') = n + l
    BY <2>2, <2>3, BytesLen
  <2>5. image' = Bytes(Len(image))' /\ Len(image') \in 0 .. Total'
    BY <1>3, <2>2, <2>3, <2>4
  <2>6. /\ stage' = "sys" => Len(image') <= size'.sys
        /\ stage' = "usr" => Len(image') >= size'.sys
    <3>1. CASE stage = "sys"
      BY <1>1, <2>1, <2>2, <2>4, <3>1
    <3>2. CASE stage = "usr"
      BY <1>1, <2>1, <2>2, <2>4, <3>2
    <3> QED
      BY <1>1, <3>1, <3>2
  <2> QED
    BY <1>1, <2>1, <2>5, <2>6 DEF BuildInv, Stages, Built
<1>5. CASE ~(Remaining > 0)
  <2>1. /\ Remaining = 0 /\ image' = image
        /\ stage' = IF stage = "sys" THEN "usr" ELSE "header"
    BY <1>2, <1>5 DEF BuildBlock
  <2> QED
    BY <1>1, <1>2, <1>3, <2>1 DEF BuildInv, Stages, Built, Total
<1> QED
  BY <1>4, <1>5

LEMMA BuildStep == ASSUME BuildInv, [BootNext]_bootVars PROVE BuildInv'
<1>1. CASE BuildBlock
  BY <1>1, BuildBlockStep
<1>2. CASE ~BuildBlock
  <2>1. UNCHANGED <<size, image>>
    BY <1>2 DEF BootNext, Die, BuildBoot, BuildHeader, PowerOn, ReadTurn, LoadDone,
                CopyUserCode, bootVars
  <2>2. /\ \A k : Bytes(k)' = Bytes(k)
        /\ Total' = Total /\ im_size' = im_size
    BY <2>1 DEF Bytes, Total, im_size
  <2>3. CASE UNCHANGED <<stage, header>>
    BY <2>1, <2>2, <2>3 DEF BuildInv
  <2>4. CASE Die \/ BuildBoot
    BY <2>1, <2>2, <2>4 DEF BuildInv, Die, BuildBoot, Stages, Built
  <2>5. CASE BuildHeader
    BY <2>1, <2>2, <2>5 DEF BuildInv, BuildHeader, Stages, Built
  <2>6. CASE PowerOn \/ LoadDone \/ CopyUserCode
    BY <2>1, <2>2, <2>6 DEF BuildInv, PowerOn, LoadDone, CopyUserCode, Stages, Built
  <2>7. CASE ReadTurn
    BY <2>1, <2>2, <2>7 DEF BuildInv, ReadTurn, Stages, Built
  <2> QED
    BY <1>2, <2>3, <2>4, <2>5, <2>6, <2>7 DEF BootNext, bootVars
<1> QED
  BY <1>1, <1>2

----------------------------------------------------------------------------
(* The units: bytes, sectors, paragraphs and segments.                     *)

LEMMA Units ==
    /\ SegParas \in Nat /\ SegParas * PARAGRAPH = SEGMENT * SECTOR
    /\ SYSSIZE < INITSEG * SegParas
<1> DEFINE q == SECTOR \div PARAGRAPH
           r == SECTOR % PARAGRAPH
<1>1. SECTOR = PARAGRAPH * q + r /\ q \in Nat /\ r = 0
  BY BootAssumption
<1>2. SEGMENT \in Nat \ {0} /\ PARAGRAPH \in Nat \ {0}
  BY BootAssumption
<1> HIDE DEF q, r
<1>3. SEGMENT * SECTOR = PARAGRAPH * (SEGMENT * q)
  BY <1>1, <1>2
<1>4. SEGMENT * q \in Nat
  BY <1>1, <1>2
<1> DEFINE m == SEGMENT * q
<1>5. m \in Nat /\ SEGMENT * SECTOR = PARAGRAPH * m
  BY <1>3, <1>4
<1> HIDE DEF m
<1>6. (PARAGRAPH * m) \div PARAGRAPH = m
  BY <1>2, <1>5
<1>7. SegParas = m
  BY <1>5, <1>6 DEF SegParas
<1>8. m * PARAGRAPH = PARAGRAPH * m
  BY <1>2, <1>5
<1> QED
  BY <1>5, <1>7, <1>8, BootAssumption DEF SegParas

\* If the image fits, its two patched bytes hold its length, rounded up.
LEMMA LengthPatched ==
    ASSUME Fits, size.sys \in Nat, size.usr \in Nat
    PROVE  im_size \in Nat /\ im_size <= SYSSIZE /\ Total <= im_size * PARAGRAPH
<1> DEFINE P == PARAGRAPH
           q == (Total + P - 1) \div P
           r == (Total + P - 1) % P
<1>1. P \in Nat \ {0} /\ Total \in Nat /\ Total <= SYSSIZE * P
      /\ SYSSIZE \in Nat /\ ImLimit \in Nat /\ SYSSIZE < ImLimit
  BY BootAssumption DEF Fits, Total
<1> HIDE DEF P
<1>2. Total + P - 1 = P * q + r /\ q \in Nat /\ r \in 0 .. P - 1
  BY <1>1
<1>3. im_size = q % ImLimit
  BY DEF im_size, Total, P, q
<1> HIDE DEF q, r
<1>4. q <= SYSSIZE
  <2>1. SUFFICES ASSUME q >= SYSSIZE + 1 PROVE FALSE
    BY <1>1, <1>2
  <2>2. P * q >= P * (SYSSIZE + 1)
    BY <1>1, <1>2, <2>1
  <2>3. P * (SYSSIZE + 1) = SYSSIZE * P + P
    BY <1>1
  <2>4. P * q \in Nat /\ SYSSIZE * P \in Nat
    BY <1>1, <1>2
  <2> QED
    BY <1>1, <1>2, <2>2, <2>3, <2>4
<1>5. im_size = q
  BY <1>1, <1>2, <1>3, <1>4
<1>6. Total <= P * q /\ P * q = q * P
  BY <1>1, <1>2
<1> QED
  BY <1>2, <1>4, <1>5, <1>6 DEF P

\* A byte that lies before paragraph i lies on a sector before segment seg, if
\* the paragraph does.
LEMMA SectorBefore ==
    ASSUME NEW i \in Nat, NEW seg \in Nat, i < seg * SegParas,
           NEW b \in Nat, b < i * PARAGRAPH
    PROVE  b \div SECTOR \in Nat /\ b \div SECTOR < seg * SEGMENT
<1> DEFINE c == b \div SECTOR
           m == b % SECTOR
           u == seg * SegParas
           v == seg * SEGMENT
<1>1. b = SECTOR * c + m /\ c \in Nat /\ m \in 0 .. SECTOR - 1
      /\ PARAGRAPH \in Nat \ {0} /\ SECTOR \in Nat \ {0} /\ SEGMENT \in Nat \ {0}
  <2>1. PARAGRAPH \in Nat \ {0} /\ SECTOR \in Nat \ {0} /\ SEGMENT \in Nat \ {0}
    BY BootAssumption
  <2> QED
    BY <2>1
<1> HIDE DEF c, m
<1>2. u \in Nat /\ v \in Nat /\ u * PARAGRAPH = v * SECTOR
  <2>1. u \in Nat /\ v \in Nat
    BY <1>1, Units
  <2>2. u * PARAGRAPH = seg * (SegParas * PARAGRAPH)
    BY <1>1, Units
  <2>3. v * SECTOR = seg * (SEGMENT * SECTOR)
    BY <1>1
  <2> QED
    BY <2>1, <2>2, <2>3, Units
<1>3. i < u
  OBVIOUS
<1> HIDE DEF u, v
<1>4. i * PARAGRAPH <= u * PARAGRAPH
  BY <1>1, <1>2, <1>3
<1>5. SECTOR * c < v * SECTOR
  <2>1. i * PARAGRAPH \in Nat /\ u * PARAGRAPH \in Nat /\ SECTOR * c \in Nat
    BY <1>1, <1>2
  <2> QED
    BY <1>1, <1>2, <1>4, <2>1
<1>6. c < v
  <2>1. SUFFICES ASSUME v <= c PROVE FALSE
    BY <1>1, <1>2
  <2>2. v * SECTOR <= SECTOR * c
    BY <1>1, <1>2, <2>1
  <2>3. v * SECTOR \in Nat /\ SECTOR * c \in Nat
    BY <1>1, <1>2
  <2> QED
    BY <1>5, <2>2, <2>3
<1> QED
  BY <1>1, <1>6 DEF c, v

LEMMA LoaderStep ==
    ASSUME BuildInv, LoadInv, LoaderInv, [BootNext]_bootVars PROVE LoaderInv'
<1>1. CASE ReadTurn
  <2>1. /\ stage = "load" /\ MoreToLoad /\ UNCHANGED <<size, header>>
        /\ stage' = IF es = INITSEG THEN "overwritten" ELSE "load"
    BY <1>1 DEF ReadTurn
  <2>2. ASSUME Fits PROVE es # INITSEG
    <3>1. header.im_size = im_size /\ size.sys \in Nat /\ size.usr \in Nat
      BY <2>1 DEF BuildInv, Built
    <3>2. im_size \in Nat /\ im_size <= SYSSIZE
      BY <2>2, <3>1, LengthPatched
    <3>3. SYSSIZE \in Nat /\ SYSSIZE < INITSEG * SegParas /\ INITSEG * SegParas \in Nat
      BY Units, BootAssumption
    <3>4. es = INITSEG => INITSEG * SegParas <= im_size
      BY <2>1, <3>1 DEF MoreToLoad
    <3> QED
      BY <3>2, <3>3, <3>4
  <2>3. Fits' = Fits
    BY <2>1 DEF Fits
  <2> QED
    BY <2>1, <2>2, <2>3 DEF LoaderInv
<1>2. CASE LoadDone
  BY <1>2 DEF LoadDone, LoaderInv, MoreToLoad, loaderVars
<1>3. CASE CopyUserCode
  <2>1. /\ stage = "main" /\ UNCHANGED <<size, image, header, loaderVars>>
        /\ stage' = IF FaultsInCopy THEN "fault" ELSE "user"
        /\ usr_main' = [i \in 1 .. BytesCopied |-> UserByte(i)]
    BY <1>3 DEF CopyUserCode
  <2>2. \A i : UserByte(i)' = UserByte(i)
    BY <2>1 DEF UserByte, ByteAt, loaderVars
  <2>3. MoreToLoad' = MoreToLoad /\ FaultsInCopy' = FaultsInCopy
        /\ BytesCopied' = BytesCopied
    BY <2>1 DEF MoreToLoad, FaultsInCopy, BytesCopied, loaderVars
  <2> QED
    BY <2>1, <2>2, <2>3 DEF LoaderInv
<1>4. CASE UNCHANGED bootVars
  BY <1>4 DEF bootVars, loaderVars, LoaderInv, MoreToLoad, Fits, ByteAt, UserByte,
              FaultsInCopy, BytesCopied
<1>5. CASE Die \/ BuildBoot \/ BuildBlock \/ BuildHeader \/ PowerOn
  BY <1>5 DEF Die, BuildBoot, BuildBlock, BuildHeader, PowerOn, LoaderInv, BuildInv, Stages
<1> QED
  BY <1>1, <1>2, <1>3, <1>4, <1>5 DEF BootNext

ImageInv == BuildInv /\ LoadInv /\ LoaderInv

LEMMA ImageInvariant == BootSpec => []ImageInv
<1>1. BootInit => ImageInv
  <2>1. ASSUME BootInit PROVE BuildInv /\ LoaderInv
    <3>1. /\ size.sys \in Nat /\ size.usr \in Nat /\ image = <<>> /\ stage = "boot"
      BY <2>1, BootAssumption DEF BootInit
    <3>2. Bytes(0) = <<>> /\ Len(image) = 0
      BY <3>1 DEF Bytes
    <3> QED
      BY <3>1, <3>2 DEF BuildInv, LoaderInv, Stages, Built, Total
  <2>2. BootInit => LoadInv
    BY BootAssumption DEF BootInit, LoadInv, InStep, LoadedInOrder, Slots
  <2> QED
    BY <2>1, <2>2 DEF ImageInv
<1>2. ASSUME ImageInv, LoadInv', [BootNext]_bootVars PROVE ImageInv'
  BY <1>2, BuildStep, LoaderStep DEF ImageInv
<1> QED
  BY <1>1, <1>2, LoadInvariant, PTL DEF BootSpec

\* Once read_it has stopped, every byte of the image is in its place.
LEMMA ByteInPlace ==
    ASSUME ImageInv, Fits, ~ioError, stage \in {"main", "user", "fault"},
           NEW k \in 1 .. Total
    PROVE  (k - 1) \div SECTOR \in Slots /\ ByteAt(k - 1) = Bytes(Total)[k]
<1> DEFINE c == (k - 1) \div SECTOR
           m == (k - 1) % SECTOR
<1>1. /\ size.sys \in Nat /\ size.usr \in Nat /\ Total \in Nat
      /\ Len(image) = Total /\ image = Bytes(Total)
      /\ header.im_size = im_size /\ ~MoreToLoad /\ es \in Nat
      /\ im_size \in Nat /\ im_size <= SYSSIZE /\ Total <= im_size * PARAGRAPH
  BY LengthPatched DEF ImageInv, BuildInv, LoaderInv, LoadInv, InStep, Built, Total
<1>2. /\ k - 1 \in Nat /\ k - 1 < im_size * PARAGRAPH
      /\ SECTOR \in Nat \ {0} /\ SEGMENT \in Nat \ {0} /\ INITSEG \in Nat /\ SYSSIZE \in Nat
      /\ PARAGRAPH \in Nat
  <2>1. PARAGRAPH \in Nat /\ im_size * PARAGRAPH \in Nat
    BY <1>1, BootAssumption
  <2> QED
    BY <1>1, <2>1, BootAssumption
<1>3. k - 1 = SECTOR * c + m /\ m \in 0 .. SECTOR - 1
  BY <1>2
<1>4. c \in Nat /\ c < es * SEGMENT
  <2>1. im_size < es * SegParas
    <3>1. es * SegParas \in Nat
      BY <1>1, Units
    <3> QED
      BY <1>1, <3>1 DEF MoreToLoad
  <2> QED
    BY <1>1, <1>2, <2>1, SectorBefore
<1>5. c < INITSEG * SEGMENT
  <2>1. im_size < INITSEG * SegParas
    <3>1. INITSEG * SegParas \in Nat
      BY <1>2, Units
    <3> QED
      BY <1>1, <1>2, <3>1, Units
  <2> QED
    BY <1>1, <1>2, <2>1, SectorBefore
<1>6. c \in Slots
  <2>1. (INITSEG + 1) * SEGMENT = INITSEG * SEGMENT + SEGMENT /\ INITSEG * SEGMENT \in Int
    BY <1>2, Products
  <2> QED
    BY <1>2, <1>4, <1>5, <2>1 DEF Slots
<1> HIDE DEF c, m
<1>7. memory[c] = c + 1
  <2>1. c < es * SEGMENT + bx
    <3>1. es * SEGMENT \in Nat /\ bx \in Nat
      <4>1. es * SEGMENT \in Nat
        BY <1>1, <1>2
      <4> QED
        BY <1>2, <4>1 DEF ImageInv, LoadInv, InStep
    <3> QED
      BY <1>4, <3>1
  <2> QED
    BY <1>6, <2>1 DEF ImageInv, LoadInv, LoadedInOrder
<1>8. (memory[c] - 1) * SECTOR + m + 1 = k /\ memory[c] # 0
  <2>1. memory[c] - 1 = c /\ c * SECTOR = SECTOR * c /\ memory[c] # 0
    BY <1>2, <1>4, <1>7
  <2>2. SECTOR * c \in Int
    BY <1>2, <1>4
  <2> QED
    BY <1>3, <2>1, <2>2
<1>9. ByteAt(k - 1) = image[k]
  BY <1>1, <1>8 DEF ByteAt, c, m
<1> QED
  BY <1>1, <1>6, <1>9 DEF c

\* With an image no longer than SYSSIZE and no read error, the loader stops
\* before it reaches itself and main runs with the whole kernel in memory.
\* copy_data then gives the user program to its pages byte by byte: user mode
\* is entered with all of it if it has room in NUM_PAG_CODE + NUM_PAG_DATA
\* pages, and a larger one ends in a page fault there.
THEOREM SystemIsInPlace == BootSpec => []ImageInPlace
<1>1. ASSUME ImageInv PROVE ImageInPlace
  <2> SUFFICES ASSUME Fits, ~ioError
               PROVE  /\ stage # "overwritten"
                      /\ stage = "main" =>
                            \A k \in 1 .. size.sys : ByteAt(k - 1) = <<"sys", k>>
                      /\ stage = "user" =>
                            UserFits /\ usr_main = [k \in 1 .. size.usr |-> <<"usr", k>>]
                      /\ stage = "fault" =>
                            ~UserFits /\ usr_main = [k \in 1 .. USER_BYTES |-> <<"usr", k>>]
    BY DEF ImageInPlace
  <2>1. stage # "overwritten"
    BY <1>1 DEF ImageInv, LoaderInv
  <2>2. size.sys \in Nat /\ size.usr \in Nat /\ Total = size.sys + size.usr
        /\ USER_BYTES \in Nat
    BY <1>1, BootAssumption DEF ImageInv, BuildInv, Total
  <2>3. ASSUME stage = "main", NEW k \in 1 .. size.sys
        PROVE  ByteAt(k - 1) = <<"sys", k>>
    <3>1. k \in 1 .. Total
      BY <2>2
    <3>2. ByteAt(k - 1) = Bytes(Total)[k]
      BY <1>1, <2>3, <3>1, ByteInPlace
    <3> QED
      BY <2>2, <3>1, <3>2 DEF Bytes
  <2>4. ASSUME stage \in {"user", "fault"}
        PROVE  /\ stage = "user" => UserFits /\ BytesCopied = size.usr
               /\ stage = "fault" => ~UserFits /\ BytesCopied = USER_BYTES
               /\ usr_main = [i \in 1 .. BytesCopied |-> <<"usr", i>>]
    <3>1. /\ header.sys_size = size.sys /\ header.usr_size = size.usr
          /\ usr_main = [i \in 1 .. BytesCopied |-> UserByte(i)]
          /\ stage = "fault" <=> FaultsInCopy
      BY <1>1, <2>4 DEF ImageInv, BuildInv, LoaderInv, Built
    <3>2. /\ stage = "user" => UserFits /\ BytesCopied = size.usr
          /\ stage = "fault" => ~UserFits /\ BytesCopied = USER_BYTES
          /\ BytesCopied \in 0 .. size.usr
      BY <2>2, <2>4, <3>1 DEF UserFits, FaultsInCopy, BytesCopied
    <3>3. ASSUME NEW i \in 1 .. size.usr PROVE UserByte(i) = <<"usr", i>>
      <4> DEFINE j == size.sys + i
      <4>1. j \in 1 .. Total /\ size.sys + i - 1 = j - 1 /\ j - size.sys = i /\ ~(j <= size.sys)
        BY <2>2
      <4> HIDE DEF j
      <4>2. (j - 1) \div SECTOR \in Slots /\ ByteAt(j - 1) = Bytes(Total)[j]
        BY <1>1, <2>4, <4>1, ByteInPlace
      <4>3. Bytes(Total)[j] = <<"usr", i>>
        BY <4>1 DEF Bytes
      <4> QED
        BY <3>1, <4>1, <4>2, <4>3 DEF UserByte
    <3>4. \A i \in 1 .. BytesCopied : UserByte(i) = <<"usr", i>>
      BY <2>2, <3>2, <3>3
    <3> QED
      BY <3>1, <3>2, <3>4
  <2> QED
    BY <2>1, <2>3, <2>4
<1> QED
  BY <1>1, ImageInvariant, PTL
=============================================================================
