------------------------------ MODULE BootImage ------------------------------
(***************************************************************************)
(* From the linked files to user mode: build.c writes the image, read_it   *)
(* of bootsect.S loads it at KERNEL_START (0x10000), and main copies the   *)
(* user program that lies behind the system to usr_main, where only some   *)
(* pages are mapped.  Bytes of the image are pairs <<file, offset>>;       *)
(* memory and disk are counted in sectors, segments (64 KB) in blocks from *)
(* SYSSEG.                                                                 *)
(***************************************************************************)
EXTENDS Integers, Sequences

CONSTANTS
    SECTOR,       \* bytes of a sector (512)
    PARAGRAPH,    \* unit of syssize in bytes (16)
    SEC_PISTA,    \* sectors of a track (18); the floppy has two heads
    SEGMENT,      \* sectors of a 64 KB segment (128)
    INITSEG,      \* the block where the loader itself lies (0x90000: 8)
    SYSSIZE,      \* "kernel size" of bootsect.S in paragraphs (0x7F00)
    ImLimit,      \* values of the two bytes of im_size (2^16)
    BUFFER,       \* bytes of build's buffer (1024)
    USER_BYTES,   \* bytes of the pages mapped from usr_main on when main copies:
                  \* (NUM_PAG_CODE + NUM_PAG_DATA) * PAGE_SIZE (28 * 4096)
    SysSizes, UsrSizes  \* sizes of the system and user files, in bytes

ASSUME BootAssumption ==
    /\ {SECTOR, PARAGRAPH, SEC_PISTA, SEGMENT, INITSEG, BUFFER} \subseteq Nat \ {0}
    /\ SECTOR % PARAGRAPH = 0
    /\ SYSSIZE \in Nat /\ ImLimit \in Nat /\ USER_BYTES \in Nat
    /\ SYSSIZE < ImLimit
    /\ SYSSIZE < INITSEG * ((SEGMENT * SECTOR) \div PARAGRAPH)
    /\ SysSizes \subseteq Nat /\ UsrSizes \subseteq Nat

VARIABLES
    stage,    \* what is running: build (boot, sys, usr, header), then the
              \* loader (load), main, user; or built, died, overwritten, fault
    size,     \* sizes of the two files, sys_size and usr_size of build
    image,    \* what build has written behind the boot sector
    header,   \* the sizes it has patched in: im_size, sys_size, usr_size
    sread, head, track, es, bx,   \* read_it: es and bx count blocks, sectors
    memory,   \* the sector (LBA) loaded at each sector from SYSSEG, or 0
    ioError,  \* some int 0x13 has failed
    usr_main  \* the user program as main has copied it

loaderVars == <<sread, head, track, es, bx, memory, ioError>>
bootVars   == <<stage, size, image, header, loaderVars, usr_main>>

UNPATCHED == [im_size |-> SYSSIZE, sys_size |-> 0, usr_size |-> 0]
Slots     == 0 .. (INITSEG + 1) * SEGMENT - 1
SegParas  == (SEGMENT * SECTOR) \div PARAGRAPH

----------------------------------------------------------------------------
(* build.c.  Every open, read, write and seek may fail, and ends it; what  *)
(* it has written stays in zeos.bin.                                       *)
Die ==
    /\ stage \in {"boot", "sys", "usr", "header"}
    /\ stage' = "died"
    /\ UNCHANGED <<size, image, header, loaderVars, usr_main>>

BuildBoot ==
    /\ stage = "boot"
    /\ stage' = "sys"
    /\ UNCHANGED <<size, image, header, loaderVars, usr_main>>

\* What the current file still has to give: sz, uz of build.
Remaining == (IF stage = "sys" THEN size.sys ELSE size.sys + size.usr) - Len(image)

\* One turn of a copy loop, or its end.
BuildBlock ==
    /\ stage \in {"sys", "usr"}
    /\ \/ /\ Remaining > 0
          /\ LET l    == IF Remaining > BUFFER THEN BUFFER ELSE Remaining
                 from == Len(image) - (IF stage = "sys" THEN 0 ELSE size.sys)
             IN image' = image \o [i \in 1 .. l |-> <<stage, from + i>>]
          /\ UNCHANGED stage
       \/ /\ Remaining = 0
          /\ stage' = IF stage = "sys" THEN "usr" ELSE "header"
          /\ UNCHANGED image
    /\ UNCHANGED <<size, header, loaderVars, usr_main>>

\* The fault: the image length leaves the user program out.
im_size_fault == ((size.sys + PARAGRAPH - 1) \div PARAGRAPH) % ImLimit

\* Only two bytes of the length in paragraphs are written.
im_size == ((size.sys + size.usr + PARAGRAPH - 1) \div PARAGRAPH) % ImLimit

BuildHeader ==
    /\ stage = "header"
    /\ stage' = "built"
    /\ header' = [im_size  |-> im_size,
                  sys_size |-> size.sys, usr_size |-> size.usr]
    /\ UNCHANGED <<size, image, loaderVars, usr_main>>

----------------------------------------------------------------------------
(* bootsect.S.                                                             *)
PowerOn ==
    /\ stage = "built"
    /\ stage' = "load"
    /\ UNCHANGED <<size, image, header, loaderVars, usr_main>>

\* cmp ax,syssize; jbe: a block is loaded whole, bx is not looked at.
MoreToLoad == es * SegParas <= header.im_size

\* Sectors to read next: up to the end of the track, and of the segment.
\* The fault: up to the end of the track only.
ReadLength_fault == SEC_PISTA - sread
ReadLength ==
    IF bx + SEC_PISTA - sread > SEGMENT THEN SEGMENT - bx ELSE SEC_PISTA - sread

\* int 0x13 at es:bx, where the offset wraps at 64 KB; its error is ignored.
read_track(n) ==
    LET lba == (track * 2 + head) * SEC_PISTA + sread IN
    \/ /\ memory' = [s \in Slots |->
              IF \E i \in 0 .. n - 1 : s = es * SEGMENT + ((bx + i) % SEGMENT)
              THEN lba + ((s - es * SEGMENT - bx) % SEGMENT) ELSE memory[s]]
       /\ UNCHANGED ioError
    \/ /\ ioError' = TRUE
       /\ UNCHANGED memory

\* One turn of the loop of read_it.  A read into INITSEG overwrites the loader.
ReadTurn ==
    /\ stage = "load" /\ MoreToLoad
    /\ stage' = IF es = INITSEG THEN "overwritten" ELSE "load"
    /\ LET n == ReadLength IN
       /\ read_track(n)
       /\ \/ /\ sread + n # SEC_PISTA
             /\ sread' = sread + n
             /\ UNCHANGED <<head, track>>
          \/ /\ sread + n = SEC_PISTA
             /\ sread' = 0
             /\ head' = 1 - head
             /\ track' = IF head = 1 THEN track + 1 ELSE track
       /\ \/ bx + n < SEGMENT /\ bx' = bx + n /\ UNCHANGED es
          \/ bx + n >= SEGMENT /\ bx' = 0 /\ es' = es + 1
    /\ UNCHANGED <<size, image, header, usr_main>>

LoadDone ==
    /\ stage = "load" /\ ~MoreToLoad
    /\ stage' = "main"
    /\ UNCHANGED <<size, image, header, loaderVars, usr_main>>

----------------------------------------------------------------------------
(* system.c.                                                               *)
NOT_LOADED == <<"junk", 0>>

\* The byte at KERNEL_START + k: what lies on the sector loaded there.
ByteAt(k) ==
    LET lba  == memory[k \div SECTOR]
        byte == (lba - 1) * SECTOR + (k % SECTOR) + 1
    IN IF lba # 0 /\ byte <= Len(image) THEN image[byte] ELSE NOT_LOADED

\* Paging is on, and behind the pages that set_user_pages has given to task1
\* nothing is mapped: the first byte copied there is a page fault, and user
\* mode is never entered.
FaultsInCopy == header.usr_size > USER_BYTES
BytesCopied  == IF FaultsInCopy THEN USER_BYTES ELSE header.usr_size

\* Byte i of the user program, as the copy reads it.
UserByte(i) ==
    LET k == header.sys_size + i - 1
    IN IF k \div SECTOR \in Slots THEN ByteAt(k) ELSE NOT_LOADED

\* copy_data((void *) KERNEL_START + *p_sys_size, usr_main, *p_usr_size)
CopyUserCode ==
    /\ stage = "main"
    /\ usr_main' = [i \in 1 .. BytesCopied |-> UserByte(i)]
    /\ stage' = IF FaultsInCopy THEN "fault" ELSE "user"
    /\ UNCHANGED <<size, image, header, loaderVars>>

----------------------------------------------------------------------------
BootInit ==
    /\ stage = "boot"
    /\ size \in [sys : SysSizes, usr : UsrSizes]
    /\ image = <<>>
    /\ header = UNPATCHED
    /\ sread = 1          \* setup_sects + 1: the boot sector has been read
    /\ head = 0 /\ track = 0 /\ es = 0 /\ bx = 0
    /\ memory = [s \in Slots |-> 0]
    /\ ioError = FALSE
    /\ usr_main = <<>>

BootNext ==
    \/ Die \/ BuildBoot \/ BuildBlock \/ BuildHeader
    \/ PowerOn \/ ReadTurn \/ LoadDone
    \/ CopyUserCode

BootSpec == BootInit /\ [][BootNext]_bootVars

----------------------------------------------------------------------------
\* Sectors land in order: whatever the geometry, memory from SYSSEG on holds
\* the disk from its second sector on, and until a read fails no sector
\* before the current one is missing.
LoadedInOrder ==
    \A s \in Slots :
        /\ memory[s] \in {0, s + 1}
        /\ ~ioError /\ s < es * SEGMENT + bx => memory[s] = s + 1

\* The image is no longer than the loader's own figure, and the user program
\* no longer than the pages it will get.  build.c tests neither.
Fits     == size.sys + size.usr <= SYSSIZE * PARAGRAPH
UserFits == size.usr <= USER_BYTES

\* If the image fits and every read succeeds, the loader never overwrites
\* itself, and main runs with the whole system in memory.  Then user mode is
\* entered with the whole user program, as linked, at usr_main, unless that
\* is larger than its pages: then, and only then, the copy faults at their
\* end (system.c:179).
ImageInPlace ==
    Fits /\ ~ioError =>
        /\ stage # "overwritten"
        /\ stage = "main" => \A k \in 1 .. size.sys : ByteAt(k - 1) = <<"sys", k>>
        /\ stage = "user" =>
              UserFits /\ usr_main = [k \in 1 .. size.usr |-> <<"usr", k>>]
        /\ stage = "fault" =>
              ~UserFits /\ usr_main = [k \in 1 .. USER_BYTES |-> <<"usr", k>>]
=============================================================================
