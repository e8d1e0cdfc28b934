--------------------------- MODULE OtaUpdateProofs ---------------------------
(***************************************************************************)
(* Proofs about the over-the-air update: a signed slot is whole, the slot  *)
(* that runs is never damaged, a download of the right size is exact, and  *)
(* the update task with power lost at any point implements SlotStore.      *)
(***************************************************************************)
EXTENDS OtaUpdate, SequenceTheorems, TLAPS

(* The image the task is to install.                                       *)
Target == Layout[file].img[ota_target_index]

(* The steps in which flash is written.                                    *)
Writing == pc \in {"erase", "download", "verify", "clear", "sign"}

(* Slot i holds the whole of file f's image for it, where f says.          *)
Holds(f, i) ==
    /\ Layout[f].good /\ Layout[f].img[i].at = Addr(i)
    /\ Stored(f, i, Addr(i), 0, Layout[f].img[i].len)

(* Slot 2 starts at a sector above slot 1.                                 *)
Split == ota2_addr \in Cells /\ ota2_addr % SectorSize = 0 /\ ota2_addr > Ota1Addr

FactoryFlash ==
    [c \in Cells |->
        IF c - Ota1Addr \in 0 .. (Layout[Factory].img[1].len - 1)
        THEN <<Factory, Layout[Factory].img[1].off + c - Ota1Addr>> ELSE Erased]

-----------------------------------------------------------------------------
(* The inductive invariant, in parts.  First the types.                    *)
TypeInv ==
    /\ DOMAIN flash = Cells
    /\ \A c \in Cells : flash[c] = Erased \/ flash[c][1] \in Known
    /\ ota2_addr \in Cells \cup {Unset} /\ ValidIMG2 \in 0 .. Bits
    /\ running \in Slots /\ restart \in Slots \cup {0}
    /\ pc \in {"none", "connect", "header", "address", "erase", "download", "verify",
               "clear", "sign", "done", "failed"}
    /\ ota_target_index \in Slots \cup {0} /\ file \in Files \cup {NoFile}
    /\ NewImg2Addr \in Cells /\ console \in -1 .. (Bits - 1)
    /\ alloc \in {"null", "held", "freed"} /\ heap_fault \in BOOLEAN
    /\ SigCnt \in 0 .. SigLen /\ OtaFg \in BOOLEAN /\ IncFg \in BOOLEAN /\ eof \in BOOLEAN
    /\ DOMAIN signature = 0 .. (SigLen - 1)

(* The slot that runs holds a whole image, and the update of slot 2 leaves *)
(* room for it.                                                            *)
Boots ==
    /\ HasAddr(running)
    /\ \E f \in Known :
        /\ Holds(f, running)
        /\ (Writing /\ running = 1) => Ota1Addr + Layout[f].img[1].len <= ota2_addr

Sound == \A i \in Slots : Signed(i) => \E f \in Known : Holds(f, i)

Addresses == Split \/ flash = FactoryFlash

(* The task works on the slot that does not run.                           *)
Task ==
    /\ pc # "none" => ota_target_index = Other(running)
    /\ pc = "address" \/ Writing => file \in Files

Place ==
    Writing =>
        /\ Split
        /\ NewImg2Addr = Target.at /\ NewImg2Addr = Addr(ota_target_index)
        /\ ota_target_index = 1 => Ota1Addr + Target.len <= ota2_addr

Erasing ==
    pc = "erase" =>
        /\ blk \in 0 .. NewImg2BlkSize
        /\ \A c \in Cells : c \in NewImg2Addr .. (NewImg2Addr + blk * SectorSize - 1)
                                => flash[c] = Erased

(* From the first erasure to the last verification there is no signature.  *)
Unsigned ==
    pc \in {"download", "verify", "clear"} =>
        \A k \in 0 .. (SigLen - 1) : flash[NewImg2Addr + k] = Erased

(* The words of image d before position n are programmed, the others not.  *)
Base(d) == d.ImgOffset + (IF d.ImgId = "OTA" THEN SigLen ELSE 0)
Written(d, n) == \A k \in 0 .. (n - 1) : flash[d.FlashAddr + k] = <<file, Base(d) + k>>
Blank(d, n) == \A k \in n .. (d.ImageLen - 1) : flash[d.FlashAddr + k] = Erased

(* Where the loop is in the current image.                                 *)
Position ==
    LET d == Info[img]
    IN  /\ TempLen \in HdrLen .. Layout[file].end
        /\ RemainBytes \in Int /\ size \in 0 .. d.ImageLen
        /\ OtaFg => /\ ~IncFg
                    /\ TempLen = d.ImgOffset + d.ImageLen - RemainBytes
                                    + (IF d.ImgId = "OTA" THEN SigCnt ELSE 0)
        /\ ~OtaFg => size = 0 /\ RemainBytes = d.ImageLen
        /\ RemainBytes >= 0 => size = d.ImageLen - RemainBytes
        /\ RemainBytes < 0 => size = d.ImageLen
        /\ d.ImgId = "OTA" => /\ ~OtaFg => SigCnt = 0
                              /\ SigCnt < SigLen => RemainBytes = d.ImageLen

(* An image whose turn has not come, and one whose turn is over.           *)
Pending(d) == Blank(d, 0) /\ (d.ImgId = "OTA" => SigCnt = 0)

Finished(d) ==
    /\ (d.ImgId = "OTA" /\ OtaImgSize = d.ImageLen) =>
            Written(d, d.ImageLen) /\ SigCnt = SigLen
    /\ d.ImgId = "RDP" => eof \/ Written(d, d.ImageLen)

(* What has been downloaded so far.                                        *)
Downloading ==
    pc = "download" =>
        /\ img \in 1 .. Len(Info)
        /\ Position
        /\ Written(Info[img], size) /\ Blank(Info[img], size)
        /\ \A j \in 1 .. Len(Info) : j > img => Pending(Info[j])
        /\ \A j \in 1 .. Len(Info) : j < img => Finished(Info[j])
        /\ \A k \in 0 .. (SigCnt - 1) : signature[k] = <<file, Target.off + k>>

Signing ==
    pc = "sign" =>
        /\ Layout[file].good
        /\ Stored(file, ota_target_index, NewImg2Addr, SigLen, Target.len)
        /\ \A k \in 0 .. (SigLen - 1) :
            /\ signature[k] = <<file, Target.off + k>>
            /\ flash[NewImg2Addr + k] \in {Erased, signature[k]}

Done == pc = "done" => Signed(ota_target_index)

Ready == (~Impatient /\ restart # 0) => pc = "none" /\ Signed(restart)

OtaInv ==
    /\ TypeInv /\ Boots /\ Sound /\ Addresses /\ Task /\ Place /\ Erasing
    /\ Unsigned /\ Downloading /\ DownloadExact /\ Signing /\ Done /\ Ready

-----------------------------------------------------------------------------
(* The constants as numbers.                                               *)
LEMMA Numbers ==
    /\ HdrLen \in Nat /\ HdrLen > 0 /\ SigLen \in Nat /\ SigLen > 0
    /\ BufSize \in Nat /\ BufSize > 0
    /\ SectorSize \in Nat /\ SectorSize > 0 /\ SigLen <= SectorSize
    /\ FlashSize \in Nat /\ RdpAddr \in Nat /\ RdpAddr % SectorSize = 0
    /\ RdpAddr + SectorSize <= FlashSize
    /\ Ota1Addr \in Nat /\ Ota1Addr \in Cells /\ Ota1Addr % SectorSize = 0
    /\ Ota2Default \in Cells
    /\ Bits \in Nat /\ Bits > 0 /\ Bits % 2 = 0
BY OtaDownloadAssumption, OtaUpdateAssumption DEF Cells

(* What is known of the image for slot i in file f.                        *)
LEMMA ImageFacts ==
    ASSUME NEW f \in Known, NEW i \in Slots
    PROVE  LET x == Layout[f].img[i]
           IN  /\ x.off \in Nat /\ x.len \in Nat /\ x.at \in Nat
               /\ x.off >= HdrLen /\ x.off + x.len <= Layout[f].end
               /\ Layout[f].end \in Nat
               /\ x.len > SigLen /\ x.at + x.len <= RdpAddr
BY OtaDownloadAssumption DEF Known, Slots, LayoutOK

(* The two images of a file do not overlap.                                *)
LEMMA ImagesApart ==
    ASSUME NEW f \in Known
    PROVE  Apart(Layout[f].img[1], Layout[f].img[2])
BY OtaDownloadAssumption DEF Known, LayoutOK

(* What is known of its RDP image.                                         *)
LEMMA RdpFacts ==
    ASSUME NEW f \in Known
    PROVE  /\ Layout[f].rdp = <<>> \/ Layout[f].rdp = <<Layout[f].rdp[1]>>
           /\ Layout[f].rdp # <<>> =>
                LET x == Layout[f].rdp[1]
                IN  /\ x.off \in Nat /\ x.len \in Nat /\ x.off >= HdrLen
                    /\ x.len <= SectorSize /\ x.off + x.len <= Layout[f].end
<1> DEFINE l == Layout[f]
<1>1. LayoutOK(l)
  BY OtaDownloadAssumption DEF Known
<1> HIDE DEF l
<1>2. l.rdp = <<>> \/ l.rdp = <<l.rdp[1]>>
  BY <1>1 DEF LayoutOK
<1>3. ASSUME l.rdp # <<>> PROVE 1 \in DOMAIN l.rdp
  <2>1. DOMAIN <<l.rdp[1]>> = {1}
    OBVIOUS
  <2> QED  BY <1>2, <1>3, <2>1
<1> QED
  BY <1>1, <1>2, <1>3 DEF LayoutOK, l

(* No word of a file reads as erased or as damaged flash.                  *)
LEMMA WordsDiffer ==
    ASSUME NEW f \in Known, NEW p
    PROVE  <<f, p>> # Erased /\ <<f, p>> # Junk
BY OtaDownloadAssumption DEF Known, Erased, Junk

(* The sector that starts at an aligned address.                           *)
LEMMA SectorCells ==
    ASSUME NEW a \in Nat, a % SectorSize = 0, NEW c \in Nat
    PROVE  c \div SectorSize = a \div SectorSize <=> c \in a .. (a + SectorSize - 1)
<1> DEFINE S == SectorSize
           qa == a \div S
           qc == c \div S
<1>0. S \in Nat /\ S > 0
  BY Numbers
<1>1. a = S * qa /\ qa \in Nat
  BY <1>0
<1>2. c = S * qc + (c % S) /\ c % S \in 0 .. (S - 1) /\ qc \in Nat
  BY <1>0
<1> HIDE DEF qa, qc, S
<1>3. CASE qa = qc
  BY <1>0, <1>1, <1>2, <1>3 DEF qa, qc, S
<1>4. CASE qa < qc
  <2>1. S * qc >= S * (qa + 1)
    BY <1>0, <1>1, <1>2, <1>4
  <2> QED
    BY <2>1, <1>0, <1>1, <1>2, <1>4 DEF qa, qc, S
<1>5. CASE qa > qc
  <2>1. S * qa >= S * (qc + 1)
    BY <1>0, <1>1, <1>2, <1>5
  <2> QED
    BY <2>1, <1>0, <1>1, <1>2, <1>5 DEF qa, qc, S
<1> QED
  BY <1>1, <1>2, <1>3, <1>4, <1>5

(* A number of sectors above an aligned address there is a sector; one     *)
(* that starts below another aligned address ends below it.                *)
LEMMA SectorStarts ==
    ASSUME NEW a \in Nat, a % SectorSize = 0, NEW b \in Nat
    PROVE  /\ a + b * SectorSize \in Nat
           /\ (a + b * SectorSize) % SectorSize = 0
<1> DEFINE S == SectorSize
           qa == a \div S
<1>0. S \in Nat /\ S > 0
  BY Numbers
<1>1. a = S * qa /\ qa \in Nat
  BY <1>0
<1>2. a + b * S = S * (qa + b) /\ b * S \in Nat
  <2> HIDE DEF qa, S
  <2> QED  BY <1>0, <1>1
<1>3. \A q \in Nat : (S * q) % S = 0
  BY <1>0
<1>4. (S * (qa + b)) % S = 0
  BY <1>1, <1>3
<1> QED
  <2> HIDE DEF qa, S
  <2>1. a + b * S \in Nat /\ (a + b * S) % S = 0
    BY <1>2, <1>4
  <2> QED  BY <2>1 DEF S

(* Two addresses of sectors are a sector apart.                            *)
LEMMA SectorsOrdered ==
    ASSUME NEW a \in Nat, a % SectorSize = 0, NEW b \in Nat, b % SectorSize = 0, a < b
    PROVE  a + SectorSize <= b
<1> DEFINE S == SectorSize
           qa == a \div S
           qb == b \div S
<1>0. S \in Nat /\ S > 0
  BY Numbers
<1>1. a = S * qa /\ qa \in Nat /\ b = S * qb /\ qb \in Nat
  BY <1>0
<1> HIDE DEF qa, qb, S
<1>2. qa < qb
  <2> SUFFICES ASSUME qa >= qb PROVE FALSE
    BY <1>1
  <2>1. S * qa >= S * qb
    BY <1>0, <1>1
  <2> QED BY <2>1, <1>1, <1>0
<1>3. S * qb >= S * (qa + 1)
  BY <1>0, <1>1, <1>2
<1> QED
  BY <1>0, <1>1, <1>3 DEF S

(* The sectors of an image cover it, and each starts inside it.            *)
LEMMA SectorsCover ==
    ASSUME NEW l \in Nat, l > 0
    PROVE  LET n == ((l - 1) \div SectorSize) + 1
           IN  /\ n \in Nat /\ n > 0 /\ n * SectorSize >= l
               /\ \A b \in Nat : b < n => b * SectorSize < l
<1> DEFINE S == SectorSize
           q == (l - 1) \div S
<1>0. S \in Nat /\ S > 0
  BY Numbers
<1>1. l - 1 = S * q + ((l - 1) % S) /\ (l - 1) % S \in 0 .. (S - 1) /\ q \in Nat
  BY <1>0
<1> HIDE DEF q, S
<1>2. (q + 1) * S >= l
  <2>1. (q + 1) * S = S * q + S
    BY <1>0, <1>1
  <2> QED BY <2>1, <1>0, <1>1
<1>3. ASSUME NEW b \in Nat, b < q + 1 PROVE b * S < l
  <2>1. b * S <= q * S
    BY <1>0, <1>1, <1>3
  <2>2. q * S = S * q
    BY <1>0, <1>1
  <2> QED BY <2>1, <2>2, <1>0, <1>1
<1> QED
  BY <1>1, <1>2, <1>3 DEF q, S

(* The smaller of two numbers.                                             *)
LEMMA MinOfTwo ==
    ASSUME NEW a \in Int, NEW b \in Int
    PROVE  Min({a, b}) = IF a <= b THEN a ELSE b
<1>1. \E x \in {a, b} : \A y \in {a, b} : x <= y
  OBVIOUS
<1>2. Min({a, b}) \in {a, b} /\ \A y \in {a, b} : Min({a, b}) <= y
  BY <1>1 DEF Min
<1> QED
  BY <1>2

(* The entries of DownloadInfo: one for the OTA image and, if the file has *)
(* one, one for the RDP image.                                             *)
OtaEntry(d, f, t, a) ==
    /\ d.ImgId = "OTA" /\ d.FlashAddr = a + SigLen
    /\ d.ImageLen = Layout[f].img[t].len - SigLen /\ d.ImgOffset = Layout[f].img[t].off

RdpEntry(d, f) ==
    /\ Layout[f].rdp # <<>>
    /\ d.ImgId = "RDP" /\ d.FlashAddr = RdpAddr
    /\ d.ImageLen = Layout[f].rdp[1].len /\ d.ImgOffset = Layout[f].rdp[1].off

(* Sequences of one and of two entries.                                    *)
LEMMA TwoEntries ==
    ASSUME NEW x, NEW y
    PROVE  /\ Len(<<x>> \o <<>>) = 1 /\ (<<x>> \o <<>>)[1] = x
           /\ Len(Append(<<x>>, y)) = 2
           /\ Append(<<x>>, y)[1] = x /\ Append(<<x>>, y)[2] = y
           /\ Len(<<x>> \o <<y>>) = 2
           /\ (<<x>> \o <<y>>)[1] = x /\ (<<x>> \o <<y>>)[2] = y
<1> DEFINE S == {x, y}
<1>1. <<>> \in Seq(S) /\ <<x>> \in Seq(S) /\ <<y>> \in Seq(S) /\ y \in S
  OBVIOUS
<1>2. /\ Len(<<>>) = 0 /\ Len(<<x>>) = 1 /\ Len(<<y>>) = 1
      /\ <<x>>[1] = x /\ <<y>>[1] = y
  OBVIOUS
<1> HIDE DEF S
<1>3. Len(<<x>> \o <<>>) = 1 /\ (<<x>> \o <<>>)[1] = x
  BY <1>1, <1>2, ConcatProperties
<1>4. /\ Len(Append(<<x>>, y)) = 2
      /\ Append(<<x>>, y)[1] = x /\ Append(<<x>>, y)[2] = y
  BY <1>1, <1>2, AppendProperties
<1>5. /\ Len(<<x>> \o <<y>>) = 2
      /\ (<<x>> \o <<y>>)[1] = x /\ (<<x>> \o <<y>>)[2] = y
  BY <1>1, <1>2, ConcatProperties
<1> QED
  BY <1>3, <1>4, <1>5

(* DownloadInfo lists the image of the target slot and the RDP image, if   *)
(* the file has one, each once.                                            *)
LEMMA InfoEntries ==
    ASSUME NEW f \in Known, NEW t \in Slots, NEW a \in Nat
    PROVE  LET D == DownloadInfo(f, t, a)
           IN  /\ Len(D) \in Nat /\ Len(D) >= 1
               /\ \A j \in 1 .. Len(D) : OtaEntry(D[j], f, t, a) \/ RdpEntry(D[j], f)
               /\ \A j, k \in 1 .. Len(D) : D[j].ImgId = D[k].ImgId => j = k
               /\ \E j \in 1 .. Len(D) : OtaEntry(D[j], f, t, a)
               /\ Layout[f].rdp # <<>> => \E j \in 1 .. Len(D) : RdpEntry(D[j], f)
<1> DEFINE o == [ImgId |-> "OTA", FlashAddr |-> a + SigLen,
                 ImageLen |-> Layout[f].img[t].len - SigLen,
                 ImgOffset |-> Layout[f].img[t].off]
           R == [k \in DOMAIN Layout[f].rdp |->
                    [ImgId |-> "RDP", FlashAddr |-> RdpAddr,
                     ImageLen |-> Layout[f].rdp[k].len, ImgOffset |-> Layout[f].rdp[k].off]]
           r == [ImgId |-> "RDP", FlashAddr |-> RdpAddr,
                 ImageLen |-> Layout[f].rdp[1].len, ImgOffset |-> Layout[f].rdp[1].off]
           D == DownloadInfo(f, t, a)
<1>1. OtaEntry(o, f, t, a)
  BY DEF OtaEntry
<1>2. D = IF R # <<>> /\ R[1].ImgOffset <= Layout[f].img[t].off
          THEN Append(R, o) ELSE <<o>> \o R
  BY DEF DownloadInfo
<1>3. CASE Layout[f].rdp = <<>>
  <2>1. R = <<>>
    BY <1>3
  <2>2. Len(D) = 1 /\ D[1] = o
    <3> HIDE DEF o, R, D
    <3> QED  BY <1>2, <2>1, TwoEntries
  <2> QED
    <3> HIDE DEF o, D
    <3>1. \A j \in 1 .. Len(D) : j = 1
      BY <2>2
    <3> QED  BY <1>1, <1>3, <2>2, <3>1 DEF D
<1>4. CASE Layout[f].rdp # <<>>
  <2>1. Layout[f].rdp = <<Layout[f].rdp[1]>>
    BY <1>4, RdpFacts
  <2>2. DOMAIN Layout[f].rdp = 1 .. 1
    <3> DEFINE x == Layout[f].rdp[1]
    <3>1. DOMAIN <<x>> = 1 .. 1
      OBVIOUS
    <3> QED  BY <2>1, <3>1
  <2>3. R = <<r>>
    BY <2>2
  <2>4. RdpEntry(r, f)
    BY <1>4 DEF RdpEntry
  <2>5. Len(D) = 2 /\ ((D[1] = r /\ D[2] = o) \/ (D[1] = o /\ D[2] = r))
    <3> HIDE DEF o, r, R, D
    <3> QED  BY <1>2, <2>3, TwoEntries
  <2>6. r.ImgId # o.ImgId
    OBVIOUS
  <2> HIDE DEF o, r, R, D
  <2>7. \A j \in 1 .. Len(D) : j = 1 \/ j = 2
    BY <2>5
  <2>8. 1 \in 1 .. Len(D) /\ 2 \in 1 .. Len(D)
    BY <2>5
  <2> QED  BY <1>1, <2>4, <2>5, <2>6, <2>7, <2>8 DEF D
<1> QED
  BY <1>3, <1>4

-----------------------------------------------------------------------------
(* What a slot holds depends on flash and on its address only.             *)
LEMMA SameSlots ==
    ASSUME flash' = flash, ota2_addr' = ota2_addr
    PROVE  /\ \A i : Signed(i)' <=> Signed(i)
           /\ \A f, i : Holds(f, i)' <=> Holds(f, i)
           /\ Split' <=> Split
           /\ \A i : Addr(i)' = Addr(i)
           /\ \A i : HasAddr(i)' <=> HasAddr(i)
BY DEF Signed, Holds, Stored, Split, Addr, HasAddr

(* A slot that holds an image is signed.                                   *)
LEMMA HeldIsSigned ==
    ASSUME NEW i \in Slots, NEW f \in Known, HasAddr(i), Holds(f, i)
    PROVE  Signed(i)
BY ImageFacts, Numbers DEF Signed, Holds, Stored

(* A slot that holds a file's image is whole.                              *)
LEMMA HeldIsWhole ==
    ASSUME NEW i \in Slots, NEW f \in Known, HasAddr(i), Holds(f, i)
    PROVE  Whole(i)
BY DEF Whole, Holds

(* In the flash the device was sold with no word starts an image for slot  *)
(* 2, wherever that is.                                                    *)
LEMMA FactoryWords ==
    ASSUME NEW a \in Cells, NEW f \in Known
    PROVE  FactoryFlash[a] # <<f, Layout[f].img[2].off>>
<1> DEFINE x == Layout[Factory].img[1]
           y == Layout[Factory].img[2]
<1>1. Factory \in Known /\ 1 \in Slots /\ 2 \in Slots
  BY DEF Known, Slots
<1>2. /\ x.off \in Nat /\ x.len \in Nat /\ y.off \in Nat /\ y.len \in Nat
      /\ y.len > 0 /\ Apart(x, y)
  BY <1>1, ImageFacts, ImagesApart, Numbers
<1>3. a \in Nat /\ Ota1Addr \in Nat
  BY Numbers DEF Cells
<1>4. CASE a - Ota1Addr \in 0 .. (x.len - 1)
  <2>1. FactoryFlash[a] = <<Factory, x.off + a - Ota1Addr>>
    BY <1>4 DEF FactoryFlash
  <2>2. x.off + a - Ota1Addr # y.off
    <3> HIDE DEF x, y
    <3> QED  BY <1>2, <1>3, <1>4 DEF Apart
  <2> QED  BY <2>1, <2>2
<1>5. CASE ~(a - Ota1Addr \in 0 .. (x.len - 1))
  <2>1. FactoryFlash[a] = Erased
    BY <1>5 DEF FactoryFlash
  <2> QED  BY <2>1, WordsDiffer
<1> QED
  BY <1>4, <1>5

(* A signature starts with the first word of an image for its slot.        *)
LEMMA FirstWord ==
    ASSUME NEW i \in Slots, Signed(i), ota2_addr \in Cells \cup {Unset}
    PROVE  /\ Addr(i) \in Cells
           /\ \E f \in Known : flash[Addr(i)] = <<f, Layout[f].img[i].off>>
<1>1. Addr(i) \in Cells
  BY Numbers DEF Signed, HasAddr, Addr
<1>2. 0 \in 0 .. (SigLen - 1) /\ Addr(i) + 0 = Addr(i)
  BY <1>1, Numbers DEF Cells
<1>3. PICK f \in Known : flash[Addr(i) + 0] = <<f, Layout[f].img[i].off + 0>>
  BY <1>2 DEF Signed
<1>4. Layout[f].img[i].off + 0 = Layout[f].img[i].off
  BY ImageFacts
<1> QED
  BY <1>1, <1>2, <1>3, <1>4

(* The first word of a slot signed after a step is the start of an image   *)
(* for this slot.                                                          *)
LEMMA FirstWordNext ==
    ASSUME NEW i \in Slots, Signed(i)', ota2_addr' \in Cells \cup {Unset}
    PROVE  /\ Addr(i)' \in Cells
           /\ \E f \in Known : flash'[Addr(i)'] = <<f, Layout[f].img[i].off>>
<1>1. Addr(i)' \in Cells
  BY Numbers DEF Signed, HasAddr, Addr
<1>2. 0 \in 0 .. (SigLen - 1) /\ Addr(i)' + 0 = Addr(i)'
  BY <1>1, Numbers DEF Cells
<1>3. PICK f \in Known : flash'[Addr(i)' + 0] = <<f, Layout[f].img[i].off + 0>>
  BY <1>2 DEF Signed
<1>4. Layout[f].img[i].off + 0 = Layout[f].img[i].off
  BY ImageFacts
<1> QED
  BY <1>1, <1>2, <1>3, <1>4

(* The larger of two numbers.                                              *)
LEMMA MaxOfTwo ==
    ASSUME NEW a \in Int, NEW b \in Int
    PROVE  Max({a, b}) = IF a >= b THEN a ELSE b
<1>1. \E x \in {a, b} : \A y \in {a, b} : x >= y
  OBVIOUS
<1>2. Max({a, b}) \in {a, b} /\ \A y \in {a, b} : Max({a, b}) >= y
  BY <1>1 DEF Max
<1> QED
  BY <1>2

-----------------------------------------------------------------------------
(* The running slot is signed.                                             *)
LEMMA RunningSigned ==
    ASSUME TypeInv, Boots
    PROVE  Signed(running)
BY HeldIsSigned DEF TypeInv, Boots

(* Outside the steps that write, most parts say nothing.                   *)
LEMMA NotWriting ==
    ASSUME pc' \in {"none", "connect", "header", "address", "done", "failed"}
    PROVE  Place' /\ Erasing' /\ Unsigned' /\ Downloading' /\ DownloadExact' /\ Signing'
BY DEF Place, Writing, Erasing, Unsigned, Downloading, DownloadExact, Signing

(* A step that leaves the flash, the addresses and the running slot alone. *)
LEMMA SlotsKept ==
    ASSUME OtaInv, flash' = flash, ota2_addr' = ota2_addr, running' = running,
           Writing' => Writing
    PROVE  Boots' /\ Sound' /\ Addresses'
<1>1. Boots'
  <2>1. PICK f \in Known : /\ Holds(f, running)
                           /\ (Writing /\ running = 1) =>
                                Ota1Addr + Layout[f].img[1].len <= ota2_addr
    BY DEF OtaInv, Boots
  <2>2. Holds(f, running)' /\ HasAddr(running)'
    BY <2>1, SameSlots DEF OtaInv, Boots
  <2> QED
    BY <2>1, <2>2 DEF Boots
<1>2. Sound'
  BY SameSlots DEF OtaInv, Sound
<1>3. Addresses'
  BY SameSlots DEF OtaInv, Addresses
<1> QED
  BY <1>1, <1>2, <1>3

(* While the task works there is no restart to wait for, unless an update  *)
(* may be started during one.                                              *)
LEMMA Waiting ==
    ASSUME OtaInv, pc # "none"
    PROVE  restart = 0 \/ Impatient
BY OtaUpdateAssumption DEF OtaInv, Ready

(* The device as it was sold satisfies the invariant.                      *)
LEMMA InitInv == OtaInit => OtaInv
<1> SUFFICES ASSUME OtaInit PROVE OtaInv
  OBVIOUS
<1> DEFINE x == Layout[Factory].img[1]
<1>1. flash = FactoryFlash /\ pc = "none" /\ running = 1 /\ restart = 0
  BY DEF OtaInit, FactoryFlash
<1>2. Factory \in Known /\ 1 \in Slots /\ 2 \in Slots /\ HasAddr(1) /\ Addr(1) = Ota1Addr
  BY DEF Known, Slots, HasAddr, Addr
<1>3. TypeInv
  <2>1. flash \in [Cells -> {Erased} \cup {<<Factory, p>> : p \in Int}]
    <3>1. x.off \in Nat /\ Ota1Addr \in Nat
      BY <1>2, ImageFacts, Numbers
    <3>2. ASSUME NEW c \in Cells PROVE x.off + c - Ota1Addr \in Int
      BY <3>1 DEF Cells
    <3> QED  BY <1>1, <3>2 DEF FactoryFlash
  <2>2. \A c \in Cells : flash[c] = Erased \/ flash[c][1] \in Known
    BY <2>1, <1>2
  <2>3. 0 \in Cells
    BY Numbers DEF Cells
  <2>4. DOMAIN signature = 0 .. (SigLen - 1) /\ SigCnt \in 0 .. SigLen
    BY Numbers DEF OtaInit
  <2>5. /\ ota2_addr \in Cells \cup {Unset} /\ ValidIMG2 \in 0 .. Bits
        /\ console \in -1 .. (Bits - 1) /\ NewImg2Addr \in Cells
    BY <2>3, Numbers, OtaUpdateAssumption DEF OtaInit
  <2>6. OtaFg \in BOOLEAN /\ IncFg \in BOOLEAN /\ eof \in BOOLEAN /\ heap_fault \in BOOLEAN
    BY DEF OtaInit
  <2> QED
    BY <2>1, <2>2, <2>4, <2>5, <2>6 DEF OtaInit, TypeInv, Slots
<1>4. Holds(Factory, 1)
  <2>1. Layout[Factory].good /\ x.at = Addr(1)
    BY <1>2, OtaUpdateAssumption
  <2>2. x.off \in Nat /\ x.len \in Nat /\ Ota1Addr \in Nat /\ Ota1Addr + x.len <= RdpAddr
    BY <1>2, <2>1, ImageFacts, Numbers
  <2>3. ASSUME NEW k \in 0 .. (x.len - 1)
        PROVE  Ota1Addr + k \in Cells /\ flash[Ota1Addr + k] = <<Factory, x.off + k>>
    <3> HIDE DEF x
    <3>1. Ota1Addr + k \in Cells
      BY <2>2, Numbers DEF Cells
    <3>2. (Ota1Addr + k) - Ota1Addr \in 0 .. (x.len - 1)
      BY <2>2
    <3>3. flash[Ota1Addr + k] = <<Factory, x.off + (Ota1Addr + k) - Ota1Addr>>
      BY <1>1, <3>1, <3>2 DEF FactoryFlash, x
    <3>4. x.off + (Ota1Addr + k) - Ota1Addr = x.off + k
      BY <2>2
    <3> QED  BY <3>1, <3>3, <3>4
  <2> QED
    BY <2>1, <2>3, <1>2 DEF Holds, Stored
<1>5. Boots
  BY <1>1, <1>2, <1>4 DEF Boots, Writing
<1>6. Sound
  <2>1. ~Signed(2)
    <3> SUFFICES ASSUME Signed(2) PROVE FALSE
      OBVIOUS
    <3> QED
      BY <1>1, <1>2, <1>3, FirstWord, FactoryWords DEF TypeInv
  <2> QED
    BY <2>1, <1>2, <1>4 DEF Sound, Slots
<1>7. Addresses /\ Task /\ Done /\ Ready
  BY <1>1 DEF Addresses, Task, Done, Ready, Writing
<1>8. Place /\ Erasing /\ Unsigned /\ Downloading /\ DownloadExact /\ Signing
  BY <1>1 DEF Place, Writing, Erasing, Unsigned, Downloading, DownloadExact, Signing
<1> QED
  BY <1>3, <1>5, <1>6, <1>7, <1>8 DEF OtaInv

-----------------------------------------------------------------------------
(* The steps that do not write to flash.                                   *)
LEMMA StartInv == OtaInv /\ update_ota_local => OtaInv'
<1> SUFFICES ASSUME OtaInv, update_ota_local PROVE OtaInv'
  OBVIOUS
<1> USE DEF update_ota_local, persistent, dlVars, memVars
<1>1. Boots' /\ Sound' /\ Addresses'
  BY SlotsKept DEF Writing
<1>2. TypeInv'
  BY DEF OtaInv, TypeInv, Slots, Other
<1>3. Task' /\ Done' /\ Ready'
  BY DEF Task, Done, Ready, Writing
<1> QED
  BY <1>1, <1>2, <1>3, NotWriting DEF OtaInv

(* The steps before flash is touched keep the invariant.                   *)
LEMMA PrepareInv == OtaInv /\ (Connect \/ Header \/ DownloadError) => OtaInv'
<1> SUFFICES ASSUME OtaInv, Connect \/ Header \/ DownloadError PROVE OtaInv'
  OBVIOUS
<1> USE DEF Connect, Header, DownloadError, persistent, dlVars, taskVars, memVars
<1>1. /\ flash' = flash /\ ota2_addr' = ota2_addr /\ running' = running
      /\ restart' = restart /\ pc # "none" /\ ota_target_index' = ota_target_index
      /\ pc' \in {"failed", "header", "address"}
  OBVIOUS
<1>2. Boots' /\ Sound' /\ Addresses'
  BY <1>1, SlotsKept DEF Writing
<1>3. TypeInv'
  <2>1. CASE Connect  BY <2>1 DEF OtaInv, TypeInv
  <2>2. CASE Header   BY <2>2 DEF OtaInv, TypeInv
  <2>3. CASE DownloadError  BY <2>3 DEF OtaInv, TypeInv
  <2> QED  BY <2>1, <2>2, <2>3
<1>4. Task'
  BY <1>1 DEF OtaInv, Task, Writing, Other
<1>5. Done' /\ Ready'
  BY <1>1, Waiting DEF Done, Ready
<1> QED
  BY <1>1, <1>2, <1>3, <1>4, <1>5, NotWriting DEF OtaInv

(* The task's variables at rest.                                           *)
LEMMA ForgetTypes ==
    ASSUME ForgetTask
    PROVE  /\ file' \in Files \cup {NoFile} /\ ota_target_index' \in Slots \cup {0}
           /\ NewImg2Addr' \in Cells /\ alloc' \in {"null", "held", "freed"}
           /\ SigCnt' \in 0 .. SigLen /\ OtaFg' \in BOOLEAN /\ IncFg' \in BOOLEAN
           /\ eof' \in BOOLEAN /\ DOMAIN signature' = 0 .. (SigLen - 1)
<1>1. DOMAIN signature' = 0 .. (SigLen - 1)
  BY DEF ForgetTask
<1>2. NewImg2Addr' \in Cells /\ SigCnt' \in 0 .. SigLen
  BY Numbers DEF ForgetTask, Cells
<1>3. OtaFg' \in BOOLEAN /\ IncFg' \in BOOLEAN /\ eof' \in BOOLEAN
  BY DEF ForgetTask
<1> QED
  BY <1>1, <1>2, <1>3 DEF ForgetTask

(* The end of the task keeps the invariant: it restarts into the slot it   *)
(* has signed, or does not restart.                                        *)
LEMMA ExitInv == OtaInv /\ UpdateExit => OtaInv'
<1> SUFFICES ASSUME OtaInv, UpdateExit PROVE OtaInv'
  OBVIOUS
<1>1. /\ flash' = flash /\ ota2_addr' = ota2_addr /\ running' = running
      /\ pc # "none" /\ pc' = "none" /\ ForgetTask
  BY DEF UpdateExit, persistent
<1>2. Boots' /\ Sound' /\ Addresses'
  BY <1>1, SlotsKept DEF Writing
<1>3. TypeInv'
  BY <1>1, ForgetTypes DEF UpdateExit, persistent, OtaInv, TypeInv
<1>4. Task' /\ Done'
  BY <1>1 DEF Task, Done, Writing
<1>5. Ready'
  <2>1. CASE pc = "done"
    <3>1. restart' = ota_target_index /\ Signed(ota_target_index)
      BY <2>1 DEF UpdateExit, OtaInv, Done
    <3> QED  BY <3>1, <1>1, SameSlots DEF Ready
  <2>2. CASE pc # "done"
    BY <2>2, <1>1, Waiting DEF UpdateExit, Ready
  <2> QED  BY <2>1, <2>2
<1> QED
  BY <1>1, <1>2, <1>3, <1>4, <1>5, NotWriting DEF OtaInv

(* A restart finds a slot to boot: the one that ran, if no other.          *)
LEMMA RebootInv == OtaInv /\ Reboot => OtaInv'
<1> SUFFICES ASSUME OtaInv, Reboot PROVE OtaInv'
  OBVIOUS
<1>1. /\ flash' = flash /\ ota2_addr' = ota2_addr /\ ValidIMG2' = ValidIMG2
      /\ running' = BootImage /\ restart' = 0 /\ pc' = "none" /\ console' = -1
      /\ heap_fault' = FALSE /\ ForgetTask
  BY DEF Reboot, persistent
<1>2. BootImage \in Slots /\ Signed(BootImage)
  <2>1. Signed(running) /\ running \in Slots
    BY RunningSigned DEF OtaInv, TypeInv
  <2>2. Choice \in Slots /\ (running = Choice \/ running = Other(Choice))
    BY <2>1 DEF Choice, Slots, Other
  <2> QED
    BY <2>1, <2>2 DEF BootImage, Slots, Other
<1>3. Boots'
  <2>1. PICK b \in Slots : b = BootImage
    BY <1>2
  <2>2. PICK f \in Known : Holds(f, b)
    BY <1>2, <2>1 DEF OtaInv, Sound
  <2>3. HasAddr(b)
    BY <1>2, <2>1 DEF Signed
  <2>4. HasAddr(b)' /\ Holds(f, b)' /\ running' = b
    BY <1>1, <2>1, <2>2, <2>3, SameSlots
  <2> QED
    BY <1>1, <2>4 DEF Boots, Writing
<1>4. Sound' /\ Addresses'
  BY <1>1, SameSlots DEF OtaInv, Sound, Addresses
<1>5. TypeInv'
  <2>1. console' \in -1 .. (Bits - 1)
    BY <1>1, Numbers
  <2>2. heap_fault' \in BOOLEAN
    BY <1>1
  <2> QED  BY <1>1, <1>2, <2>1, <2>2, ForgetTypes DEF OtaInv, TypeInv
<1>6. Task' /\ Done' /\ Ready'
  BY <1>1 DEF Task, Done, Ready, Writing
<1> QED
  BY <1>1, <1>3, <1>4, <1>5, <1>6, NotWriting DEF OtaInv

(* A step of the console, which touches neither the slots nor the task.    *)
LEMMA TaskKept ==
    ASSUME OtaInv, UNCHANGED <<flash, ota2_addr, dlVars, taskVars, memVars, running,
                               restart, pc>>
    PROVE  /\ Boots' /\ Sound' /\ Addresses' /\ Task' /\ Place' /\ Erasing' /\ Unsigned'
           /\ Downloading' /\ DownloadExact' /\ Signing' /\ Done' /\ Ready'
<1> USE DEF dlVars, taskVars, memVars
<1>1. Boots' /\ Sound' /\ Addresses'
  BY SlotsKept DEF Writing
<1>2. Task' /\ Erasing' /\ Unsigned'
  BY DEF OtaInv, Task, Writing, Other, Erasing, NewImg2BlkSize, Unsigned
<1>3. Place'
  BY SameSlots DEF OtaInv, Place, Writing, Target, Addr
<1>4. Downloading'
  <2>1. Info' = Info
    BY DEF Info
  <2>2. Position' <=> Position
    BY <2>1 DEF Position
  <2>3. \A d, n : Written(d, n)' <=> Written(d, n)
    BY DEF Written, Base
  <2>4. \A d, n : Blank(d, n)' <=> Blank(d, n)
    BY DEF Blank
  <2>5. \A d : Pending(d)' <=> Pending(d)
    BY <2>4 DEF Pending
  <2>6. \A d : Finished(d)' <=> Finished(d)
    BY <2>3 DEF Finished
  <2> QED
    BY <2>1, <2>2, <2>3, <2>4, <2>5, <2>6 DEF OtaInv, Downloading, Target
<1>5. DownloadExact'
  BY DEF OtaInv, DownloadExact, Stored, RdpStored
<1>6. Signing'
  BY DEF OtaInv, Signing, Stored, Target
<1>7. Done' /\ Ready'
  BY SameSlots DEF OtaInv, Done, Ready
<1> QED
  BY <1>1, <1>2, <1>3, <1>4, <1>5, <1>6, <1>7

(* OTA_Change keeps ValidIMG2 a number of cleared bits.                    *)
LEMMA ChangeTypes ==
    ASSUME OtaInv, NEW i \in Slots, OTA_Change(i)
    PROVE  ValidIMG2' \in 0 .. Bits
BY Numbers DEF OtaInv, TypeInv, OTA_Change

(* The console's switch of images keeps the invariant: it writes ValidIMG2 *)
(* only.                                                                   *)
LEMMA ConsoleInv == OtaInv /\ (SwitchBegin \/ SwitchWrite \/ cmd_ota_image) => OtaInv'
<1> SUFFICES ASSUME OtaInv, SwitchBegin \/ SwitchWrite \/ cmd_ota_image PROVE OtaInv'
  OBVIOUS
<1>1. UNCHANGED <<flash, ota2_addr, dlVars, taskVars, memVars, running, restart, pc>>
  BY DEF SwitchBegin, SwitchWrite, cmd_ota_image
<1>2. ValidIMG2' \in 0 .. Bits /\ console' \in -1 .. (Bits - 1)
  <2>0. ValidIMG2 \in 0 .. Bits /\ console \in -1 .. (Bits - 1)
    BY DEF OtaInv, TypeInv
  <2>1. CASE SwitchBegin
    BY <2>0, <2>1, Numbers DEF SwitchBegin
  <2>2. CASE SwitchWrite
    BY <2>0, <2>2, Numbers, MaxOfTwo DEF SwitchWrite
  <2>3. CASE cmd_ota_image
    BY <2>0, <2>3, ChangeTypes DEF cmd_ota_image
  <2> QED  BY <2>1, <2>2, <2>3
<1>3. TypeInv'
  BY <1>1, <1>2 DEF OtaInv, TypeInv, dlVars, taskVars, memVars
<1> QED
  BY <1>1, <1>3, TaskKept DEF OtaInv

(* Facts about the target while the task writes.                           *)
LEMMA TargetFacts ==
    ASSUME OtaInv, Writing
    PROVE  /\ file \in Files /\ file \in Known /\ ota_target_index \in Slots
           /\ ota_target_index = Other(running) /\ HasAddr(ota_target_index)
           /\ running \in Slots /\ pc # "none"
           /\ Target.off \in Nat /\ Target.len \in Nat /\ Target.len > SigLen
           /\ NewImg2Addr \in Nat /\ NewImg2Addr % SectorSize = 0
           /\ NewImg2Addr + Target.len <= RdpAddr
           /\ NewImg2Addr = Addr(ota_target_index) /\ NewImg2Addr = Target.at
           /\ ota2_addr \in Nat /\ ota2_addr % SectorSize = 0 /\ ota2_addr > Ota1Addr
<1>1. file \in Files /\ file \in Known /\ pc # "none"
  BY DEF OtaInv, Task, Writing, Known
<1>2. running \in Slots /\ ota_target_index = Other(running) /\ ota_target_index \in Slots
  BY <1>1 DEF OtaInv, Task, TypeInv, Other, Slots
<1>3. /\ Split /\ NewImg2Addr = Target.at /\ NewImg2Addr = Addr(ota_target_index)
  BY DEF OtaInv, Place
<1>4. ota2_addr \in Nat /\ ota2_addr % SectorSize = 0 /\ ota2_addr > Ota1Addr
  BY <1>3, Numbers DEF Split, Cells
<1>5. HasAddr(ota_target_index)
  BY <1>3, OtaUpdateAssumption DEF HasAddr, Split
<1>6. NewImg2Addr % SectorSize = 0
  BY <1>3, <1>4, Numbers DEF Addr
<1> QED
  BY <1>1, <1>2, <1>3, <1>4, <1>5, <1>6, ImageFacts DEF Target

(* Every cell of the image is one of flash.                                *)
LEMMA TargetCells ==
    ASSUME OtaInv, Writing, NEW k \in Int, k >= 0, k < Target.len
    PROVE  NewImg2Addr + k \in Cells /\ NewImg2Addr + k < RdpAddr
BY TargetFacts, Numbers DEF Cells

(* An image that passes verify_ota_checksum is that of a good file, whole  *)
(* but for its signature.                                                  *)
LEMMA VerifyInv == OtaInv /\ verify_ota_checksum => OtaInv'
<1> SUFFICES ASSUME OtaInv, verify_ota_checksum PROVE OtaInv'
  OBVIOUS
<1>1. /\ UNCHANGED <<persistent, dlVars, taskVars, memVars, running, restart, console>>
      /\ pc = "verify" /\ pc' = IF ChecksumsMatch THEN "sign" ELSE "clear"
  BY DEF verify_ota_checksum
<1> USE DEF persistent, dlVars, taskVars, memVars
<1>2. Boots' /\ Sound' /\ Addresses'
  BY <1>1, SlotsKept DEF Writing
<1>3. TypeInv' /\ Task'
  BY <1>1 DEF OtaInv, TypeInv, Task, Writing, Other
<1>4. Place'
  BY <1>1, SameSlots DEF OtaInv, Place, Writing, Target, Addr
<1>5. Erasing' /\ Unsigned' /\ Downloading' /\ DownloadExact' /\ Done'
  BY <1>1 DEF OtaInv, Erasing, Unsigned, Downloading, DownloadExact, Done
<1>6. Signing'
  <2> SUFFICES ASSUME ChecksumsMatch PROVE Signing'
    BY <1>1 DEF Signing
  <2>1. DOMAIN signature = 0 .. (SigLen - 1)
    BY DEF OtaInv, TypeInv
  <2>2. \A k \in 0 .. (SigLen - 1) : signature[k] = <<file, Target.off + k>>
    BY <2>1 DEF ChecksumsMatch, Target
  <2>3. \A k \in 0 .. (SigLen - 1) : flash[NewImg2Addr + k] = Erased
    BY <1>1 DEF OtaInv, Unsigned
  <2>4. Layout[file].good /\ Stored(file, ota_target_index, NewImg2Addr, SigLen, Target.len)
    BY DEF ChecksumsMatch, Target
  <2> QED
    BY <1>1, <2>2, <2>3, <2>4 DEF Signing, Stored, Target
<1>7. Ready'
  BY <1>1, Waiting DEF Ready
<1> QED
  BY <1>2, <1>3, <1>4, <1>5, <1>6, <1>7 DEF OtaInv

(* change_ota_signature lets an image be signed only if it is whole.       *)
LEMMA ChangeInv == OtaInv /\ change_ota_signature => OtaInv'
<1> SUFFICES ASSUME OtaInv, change_ota_signature PROVE OtaInv'
  OBVIOUS
<1>1. /\ UNCHANGED <<flash, ota2_addr, dlVars, taskVars, memVars, running, restart, console>>
      /\ pc = "sign" /\ pc' = "done" /\ OTA_Change(ota_target_index)
      /\ \A k \in DOMAIN signature : flash[NewImg2Addr + k] = signature[k]
  BY DEF change_ota_signature
<1>0. Writing
  BY <1>1 DEF Writing
<1> USE DEF dlVars, taskVars, memVars
<1>2. Boots' /\ Sound' /\ Addresses'
  BY <1>1, SlotsKept DEF Writing
<1>3. ValidIMG2' \in 0 .. Bits
  BY <1>0, <1>1, TargetFacts, ChangeTypes
<1>4. TypeInv' /\ Task'
  BY <1>1, <1>3 DEF OtaInv, TypeInv, Task, Writing, Other
<1>5. Done'
  <2>1. ASSUME NEW k \in 0 .. (SigLen - 1)
        PROVE  /\ Addr(ota_target_index) + k \in Cells
               /\ flash[Addr(ota_target_index) + k]
                    = <<file, Layout[file].img[ota_target_index].off + k>>
    <3>1. NewImg2Addr + k \in Cells
      BY <1>0, TargetFacts, TargetCells, Numbers
    <3>2. flash[NewImg2Addr + k] = <<file, Target.off + k>>
      BY <1>1 DEF OtaInv, Signing, TypeInv
    <3> QED  BY <1>0, <3>1, <3>2, TargetFacts DEF Target
  <2>2. Signed(ota_target_index)
    BY <1>0, <2>1, TargetFacts DEF Signed
  <2> QED
    BY <1>1, <2>2, SameSlots DEF Done
<1>6. Ready'
  BY <1>1, Waiting DEF Ready
<1> QED
  BY <1>1, <1>2, <1>4, <1>5, <1>6, NotWriting DEF OtaInv

(* Slot 2 runs only where the addresses are split.                         *)
LEMMA RunningSplit ==
    ASSUME OtaInv, running = 2
    PROVE  Split
<1>1. Signed(2) /\ 2 \in Slots
  BY RunningSigned DEF OtaInv, Slots
<1>2. flash # FactoryFlash
  <2> SUFFICES ASSUME flash = FactoryFlash PROVE FALSE
    OBVIOUS
  <2>1. PICK f \in Known : Addr(2) \in Cells /\ flash[Addr(2)] = <<f, Layout[f].img[2].off>>
    BY <1>1, FirstWord DEF OtaInv, TypeInv
  <2> QED  BY <2>1, FactoryWords
<1> QED
  BY <1>2 DEF OtaInv, Addresses

(* get_ota_address accepts a target only if it is aligned and apart from   *)
(* the image that runs.                                                    *)
LEMMA AddressInv == OtaInv /\ get_ota_address => OtaInv'
<1> SUFFICES ASSUME OtaInv, get_ota_address PROVE OtaInv'
  OBVIOUS
<1>1. /\ pc = "address" /\ pc' \in {"erase", "failed"}
      /\ ota2_addr' = IF ota2_addr = Unset THEN Ota2Default ELSE ota2_addr
      /\ flash' = flash /\ running' = running /\ restart' = restart /\ file' = file
      /\ ota_target_index' = ota_target_index
      /\ UNCHANGED <<ValidIMG2, dlVars, memVars, console>>
  BY DEF get_ota_address
<1>2. /\ file \in Files /\ file \in Known /\ running \in Slots
      /\ ota_target_index = Other(running) /\ ota_target_index \in Slots
  BY <1>1 DEF OtaInv, Task, TypeInv, Known, Slots, Other
<1>3. ota2_addr' \in Cells
  BY <1>1, Numbers DEF OtaInv, TypeInv
<1>4. /\ HasAddr(1)' /\ Addr(1)' = Addr(1) /\ (Signed(1)' <=> Signed(1))
      /\ \A f : Holds(f, 1)' <=> Holds(f, 1)
  BY <1>1 DEF HasAddr, Addr, Signed, Holds, Stored
<1>7. Sound' /\ Addresses' /\ HasAddr(running)' /\ \A f : Holds(f, running)' <=> Holds(f, running)
  <2>1. CASE ota2_addr = Unset
    <3>1. flash = FactoryFlash /\ running = 1
      BY <2>1, <1>2, OtaUpdateAssumption, RunningSplit DEF OtaInv, Addresses, Split, Slots
    <3>2. ~Signed(2)'
      <4> SUFFICES ASSUME Signed(2)' PROVE FALSE
        OBVIOUS
      <4>1. PICK f \in Known : Addr(2)' \in Cells /\ flash'[Addr(2)'] = <<f, Layout[f].img[2].off>>
        BY <1>3, FirstWordNext DEF Slots
      <4> QED  BY <1>1, <3>1, <4>1, FactoryWords
    <3>3. Sound'
      BY <1>4, <3>2 DEF OtaInv, Sound, Slots
    <3>4. HasAddr(running)' /\ (\A f : Holds(f, running)' <=> Holds(f, running)) /\ Addresses'
      BY <1>1, <1>4, <3>1 DEF Addresses
    <3> QED  BY <3>3, <3>4
  <2>2. CASE ota2_addr # Unset
    BY <1>1, <2>2, SameSlots DEF OtaInv, Sound, Addresses, Boots
  <2> QED  BY <2>1, <2>2
<1>8. PICK f \in Known : Holds(f, running)
  BY DEF OtaInv, Boots
<1>9. Task' /\ Done' /\ Ready'
  BY <1>1, <1>2, Waiting DEF Task, Done, Ready, Writing, Other
<1>10. CASE pc' = "failed"
  <2>1. NewImg2Addr' = NewImg2Addr
    BY <1>10 DEF get_ota_address
  <2>2. TypeInv'
    BY <1>1, <1>3, <1>10, <2>1 DEF OtaInv, TypeInv, dlVars, memVars
  <2>3. Boots'
    BY <1>7, <1>8, <1>10 DEF Boots, Writing
  <2> QED
    BY <1>7, <1>9, <1>10, <2>2, <2>3, NotWriting DEF OtaInv
<1>11. CASE pc' = "erase"
  <2>1. AddressFits(ota2_addr') /\ NewImg2Addr' = Target.at /\ blk' = 0
    BY <1>11 DEF get_ota_address, Target
  <2>2. /\ ota2_addr' % SectorSize = 0
        /\ ota_target_index = 2 => ota2_addr' >= Ota1Addr + Layout[flash[Ota1Addr][1]].img[1].len
        /\ ota_target_index = 1 => Target.len <= ota2_addr' - Ota1Addr
        /\ Target.at = IF ota_target_index = 2 THEN ota2_addr' ELSE Ota1Addr
    BY <2>1 DEF AddressFits, Target
  <2>3. Target.at \in Nat /\ Target.len \in Nat /\ Target.len > 0 /\ Target.at + Target.len <= RdpAddr
    BY <1>2, ImageFacts, Numbers DEF Target
  <2>4. running = 1 => Ota1Addr + Layout[f].img[1].len <= ota2_addr'
    <3> SUFFICES ASSUME running = 1 PROVE Ota1Addr + Layout[f].img[1].len <= ota2_addr'
      OBVIOUS
    <3>1. Layout[f].img[1].off \in Nat /\ Layout[f].img[1].len \in Nat /\ Layout[f].img[1].len > 0
      BY ImageFacts, Numbers DEF Slots
    <3>2. flash[Ota1Addr + 0] = <<f, Layout[f].img[1].off + 0>>
      BY <1>8, <3>1 DEF Holds, Stored, Addr
    <3>3. flash[Ota1Addr][1] = f
      BY <3>2, Numbers
    <3> QED
      BY <1>2, <1>3, <2>2, <3>1, <3>3, Numbers DEF Other, Cells
  <2>5. Boots'
    BY <1>1, <1>7, <1>8, <2>4 DEF Boots
  <2>6. Split'
    <3>1. CASE running = 1
      <4>1. Layout[f].img[1].len \in Nat /\ Layout[f].img[1].len > 0
        BY ImageFacts, Numbers DEF Slots
      <4>2. ota2_addr' > Ota1Addr
        BY <1>3, <2>4, <3>1, <4>1, Numbers DEF Cells
      <4> QED  BY <1>3, <2>2, <4>2 DEF Split
    <3>2. CASE running = 2
      <4>1. ota2_addr' = ota2_addr
        BY <1>1, <3>2, OtaUpdateAssumption, RunningSplit DEF Split
      <4> QED  BY <3>2, <4>1, RunningSplit DEF Split
    <3> QED  BY <1>2, <3>1, <3>2 DEF Slots
  <2>7. Place'
    <3>1. Target' = Target
      BY <1>1 DEF Target
    <3>2. NewImg2Addr' = Addr(ota_target_index)'
      BY <1>1, <1>2, <2>1, <2>2 DEF Addr, Slots
    <3> QED
      BY <1>1, <1>3, <2>1, <2>2, <2>3, <2>6, <3>1, <3>2, Numbers DEF Place, Cells
  <2>8. Erasing'
    <3>1. NewImg2BlkSize' \in Nat
      BY <1>1, <2>3, SectorsCover DEF NewImg2BlkSize, Target
    <3>2. \A c \in Cells : ~(c \in NewImg2Addr' .. (NewImg2Addr' + blk' * SectorSize - 1))
      BY <2>1, <2>3, Numbers DEF Cells
    <3> QED  BY <2>1, <3>1, <3>2 DEF Erasing
  <2>9. TypeInv'
    <3>1. NewImg2Addr' \in Cells
      BY <2>1, <2>3, Numbers DEF Cells
    <3> QED  BY <1>1, <1>3, <1>11, <3>1 DEF OtaInv, TypeInv, dlVars, memVars
  <2>10. Unsigned' /\ Downloading' /\ DownloadExact' /\ Signing'
    BY <1>11 DEF Unsigned, Downloading, DownloadExact, Signing
  <2> QED
    BY <1>7, <1>9, <2>5, <2>7, <2>8, <2>9, <2>10 DEF OtaInv
<1> QED
  BY <1>1, <1>10, <1>11

-----------------------------------------------------------------------------
(* The steps that write to flash.  The cells an update may change: those   *)
(* of the target's slot and the RDP sector.                                *)
Reach(c) ==
    \/ c >= RdpAddr
    \/ ota_target_index = 1 /\ c >= Ota1Addr /\ c < ota2_addr
    \/ ota_target_index = 2 /\ c >= ota2_addr

(* The image in the running slot stays what it is.                         *)
Unharmed == \E f \in Known : Holds(f, running) /\ Holds(f, running)'

(* The running image is out of reach.                                      *)
LEMMA RunningKept ==
    ASSUME OtaInv, Writing, ota2_addr' = ota2_addr, running' = running,
           \A c \in Cells : Reach(c) \/ flash'[c] = flash[c]
    PROVE  Boots' /\ Addresses' /\ Unharmed
<1>1. PICK f \in Known : /\ Holds(f, running)
                         /\ running = 1 => Ota1Addr + Layout[f].img[1].len <= ota2_addr
  BY DEF OtaInv, Boots
<1> DEFINE x == Layout[f].img[running]
<1>2. /\ running \in Slots /\ ota_target_index = Other(running)
      /\ ota2_addr \in Nat /\ Ota1Addr \in Nat /\ RdpAddr \in Nat
  BY TargetFacts, Numbers
<1>3. /\ x.len \in Nat /\ x.at \in Nat /\ x.at = Addr(running) /\ x.at + x.len <= RdpAddr
  BY <1>1, <1>2, ImageFacts DEF Holds
<1>4. ASSUME NEW k \in 0 .. (x.len - 1)
      PROVE  flash'[Addr(running) + k] = flash[Addr(running) + k]
  <2>1. Addr(running) + k \in Cells
    BY <1>1 DEF Holds, Stored
  <2>2. ~Reach(Addr(running) + k)
    <3> HIDE DEF x
    <3>1. Addr(running) + k < RdpAddr
      BY <1>3, <1>2
    <3>2. CASE running = 1
      <4>1. Addr(running) + k < ota2_addr
        BY <1>1, <1>2, <1>3, <3>2 DEF Addr, x
      <4> QED  BY <1>2, <1>3, <3>1, <3>2, <4>1 DEF Reach, Other
    <3>3. CASE running = 2
      <4>1. Addr(running) + k >= ota2_addr
        BY <1>2, <1>3, <3>3 DEF Addr
      <4> QED  BY <1>2, <1>3, <3>1, <3>3, <4>1 DEF Reach, Other
    <3> QED  BY <1>2, <3>2, <3>3 DEF Slots
  <2> QED  BY <2>1, <2>2
<1>5. Addr(running)' = Addr(running) /\ HasAddr(running)'
  BY DEF Addr, HasAddr, OtaInv, Boots
<1>6. Holds(f, running)'
  BY <1>1, <1>4, <1>5 DEF Holds, Stored
<1>7. Split'
  BY DEF OtaInv, Place, Split
<1> QED
  BY <1>1, <1>5, <1>6, <1>7 DEF Boots, Addresses, Unharmed

(* The two slots are the running one and the target.                       *)
LEMMA SoundTarget ==
    ASSUME OtaInv, Writing, running' = running, ota_target_index' = ota_target_index,
           Unharmed,
           Signed(ota_target_index)' => \E f \in Known : Holds(f, ota_target_index)'
    PROVE  Sound'
BY TargetFacts DEF Sound, Slots, Other, Unharmed

(* A target without its first word is not signed.                          *)
LEMMA NotSigned ==
    ASSUME OtaInv, Writing, ota2_addr' = ota2_addr, ota_target_index' = ota_target_index,
           \A k \in 0 .. (SigLen - 1) : flash'[NewImg2Addr + k] = Erased
    PROVE  ~Signed(ota_target_index)'
<1> SUFFICES ASSUME Signed(ota_target_index)' PROVE FALSE
  OBVIOUS
<1>1. ota_target_index \in Slots /\ NewImg2Addr = Addr(ota_target_index) /\ NewImg2Addr \in Nat
  BY TargetFacts
<1>2. Addr(ota_target_index)' = NewImg2Addr
  BY <1>1 DEF Addr
<1>3. PICK f \in Known : flash'[NewImg2Addr + 0] = <<f, Layout[f].img[ota_target_index].off + 0>>
  BY <1>2, Numbers DEF Signed
<1>4. flash'[NewImg2Addr + 0] = Erased
  BY Numbers
<1> QED
  BY <1>3, <1>4, WordsDiffer

(* A sector that starts in the target's image lies in reach.               *)
LEMMA SectorInReach ==
    ASSUME OtaInv, Writing, NEW b \in Nat, b * SectorSize < Target.len, NEW c \in Cells
    PROVE  LET a == NewImg2Addr + b * SectorSize
           IN  /\ c \div SectorSize = a \div SectorSize <=> c \in a .. (a + SectorSize - 1)
               /\ c \div SectorSize = a \div SectorSize => Reach(c)
<1> DEFINE a == NewImg2Addr + b * SectorSize
           x == b * SectorSize
<1>0. x \in Nat /\ c \in Nat
  BY Numbers DEF Cells
<1>1. a \in Nat /\ a % SectorSize = 0 /\ c \in Nat /\ x \in Nat
  BY <1>0, TargetFacts, SectorStarts
<1>2. c \div SectorSize = a \div SectorSize <=> c \in a .. (a + SectorSize - 1)
  <2> HIDE DEF a
  <2> QED  BY <1>1, SectorCells
<1>3. ASSUME c \in a .. (a + SectorSize - 1) PROVE Reach(c)
  <2>1. /\ ota_target_index \in Slots /\ NewImg2Addr = Addr(ota_target_index)
        /\ ota2_addr \in Nat /\ ota2_addr % SectorSize = 0 /\ Target.len \in Nat
        /\ Ota1Addr \in Nat /\ SectorSize \in Nat /\ NewImg2Addr \in Nat
    BY TargetFacts, Numbers
  <2>2. CASE ota_target_index = 1
    <3>1. NewImg2Addr = Ota1Addr /\ Ota1Addr + Target.len <= ota2_addr
      BY <2>1, <2>2 DEF OtaInv, Place, Addr
    <3>2. a < ota2_addr
      <4> HIDE DEF x
      <4> QED  BY <1>1, <2>1, <3>1 DEF x
    <3>3. a + SectorSize <= ota2_addr
      <4> HIDE DEF a
      <4> QED  BY <1>1, <2>1, <3>2, SectorsOrdered
    <3>4. a >= Ota1Addr
      <4> HIDE DEF x
      <4> QED  BY <1>1, <2>1, <3>1 DEF x
    <3> QED
      <4> HIDE DEF a
      <4> QED  BY <1>1, <1>3, <2>1, <2>2, <3>3, <3>4 DEF Reach
  <2>3. CASE ota_target_index = 2
    <3>1. NewImg2Addr = ota2_addr
      BY <2>1, <2>3 DEF Addr
    <3>2. a >= ota2_addr
      <4> HIDE DEF x
      <4> QED  BY <1>1, <2>1, <3>1 DEF x
    <3> QED
      <4> HIDE DEF a
      <4> QED  BY <1>1, <1>3, <2>1, <2>3, <3>2 DEF Reach
  <2> QED  BY <2>1, <2>2, <2>3 DEF Slots
<1> QED
  BY <1>2, <1>3

(* Erasing a sector of the target keeps the invariant and the other slot,  *)
(* and the target is not signed.                                           *)
LEMMA EraseInv ==
    OtaInv /\ erase_ota_target_flash => OtaInv' /\ Unharmed /\ ~Signed(ota_target_index)'
<1> SUFFICES ASSUME OtaInv, erase_ota_target_flash PROVE OtaInv' /\ Unharmed /\ ~Signed(ota_target_index)'
  OBVIOUS
<1> DEFINE a == NewImg2Addr + blk * SectorSize
<1>1. /\ pc = "erase" /\ blk < NewImg2BlkSize /\ blk' = blk + 1 /\ pc' = pc
      /\ flash' = flash_erase_sector(a)
      /\ UNCHANGED <<ota2_addr, ValidIMG2, dlVars, ota_target_index, file, NewImg2Addr,
                     memVars, running, restart, console>>
  BY DEF erase_ota_target_flash
<1>2. Writing
  BY <1>1 DEF Writing
<1>0. NewImg2BlkSize \in Nat /\ \A b \in Nat : b < NewImg2BlkSize => b * SectorSize < Target.len
  <2>1. Target.len \in Nat /\ Target.len > 0
    BY <1>2, TargetFacts, Numbers
  <2> QED  BY <2>1, SectorsCover DEF NewImg2BlkSize, Target
<1>3. blk \in Nat /\ blk * SectorSize \in Nat /\ blk * SectorSize < Target.len
  <2>1. blk \in Nat
    BY <1>0, <1>1 DEF OtaInv, Erasing
  <2>2. blk * SectorSize \in Nat
    BY <2>1, Numbers
  <2> QED
    BY <1>0, <1>1, <2>1, <2>2
<1>4. \A c \in Cells : flash'[c] = IF c \in a .. (a + SectorSize - 1) THEN Erased ELSE flash[c]
  BY <1>1, <1>2, <1>3, SectorInReach DEF flash_erase_sector
<1>5. \A c \in Cells : Reach(c) \/ flash'[c] = flash[c]
  BY <1>1, <1>2, <1>3, SectorInReach DEF flash_erase_sector
<1>6. Boots' /\ Addresses' /\ Unharmed
  BY <1>1, <1>2, <1>5, RunningKept
<1>7. DOMAIN flash' = Cells
  BY <1>1 DEF flash_erase_sector
<1>8. \A c \in Cells : c \in NewImg2Addr .. (NewImg2Addr + blk' * SectorSize - 1)
                                => flash'[c] = Erased
  <2> SUFFICES ASSUME NEW c \in Cells, c \in NewImg2Addr .. (NewImg2Addr + blk' * SectorSize - 1)
               PROVE  flash'[c] = Erased
    OBVIOUS
  <2>1. blk' * SectorSize = blk * SectorSize + SectorSize
    BY <1>1, <1>3, Numbers
  <2>2. NewImg2Addr \in Nat /\ c \in Nat
    BY <1>2, TargetFacts DEF Cells
  <2>3. CASE c \in NewImg2Addr .. (a - 1)
    <3>1. \A d \in Cells : d \in NewImg2Addr .. (a - 1) => flash[d] = Erased
      <4> DEFINE x == blk * SectorSize
      <4>1. \A d \in Cells : d \in NewImg2Addr .. (NewImg2Addr + x - 1) => flash[d] = Erased
        BY <1>1, Zenon DEF OtaInv, Erasing
      <4>2. x \in Nat
        BY <1>3
      <4> HIDE DEF x
      <4>3. NewImg2Addr + x - 1 = (NewImg2Addr + x) - 1
        BY <2>2, <4>2
      <4> QED  BY <4>1, <4>3 DEF x
    <3> HIDE DEF a
    <3> QED  BY <1>4, <2>3, <3>1
  <2>4. CASE ~(c \in NewImg2Addr .. (a - 1))
    <3> DEFINE x == blk * SectorSize
    <3>1. x \in Nat
      BY <1>3
    <3>2. c \in a .. (a + SectorSize - 1)
      <4> HIDE DEF x
      <4> QED  BY <2>1, <2>2, <2>4, <3>1, Numbers DEF x
    <3> QED  BY <1>4, <3>2
  <2> QED  BY <2>3, <2>4
<1>9. Erasing'
  <2>1. NewImg2BlkSize' = NewImg2BlkSize
    BY <1>1 DEF NewImg2BlkSize
  <2>2. blk' \in 0 .. NewImg2BlkSize
    BY <1>0, <1>1, <1>3
  <2> QED  BY <1>1, <1>8, <2>1, <2>2 DEF Erasing
<1>10. ASSUME NEW k \in 0 .. (SigLen - 1) PROVE flash'[NewImg2Addr + k] = Erased
  <2>1. NewImg2Addr + k \in Cells
    BY <1>2, TargetFacts, TargetCells, Numbers
  <2>2. blk' * SectorSize = blk * SectorSize + SectorSize
    BY <1>1, <1>3, Numbers
  <2>3. NewImg2Addr + k \in NewImg2Addr .. (NewImg2Addr + blk' * SectorSize - 1)
    <3> DEFINE x == blk * SectorSize
    <3>1. x \in Nat /\ NewImg2Addr \in Nat
      BY <1>2, <1>3, TargetFacts
    <3> HIDE DEF x
    <3> QED  BY <2>2, <3>1, Numbers DEF x
  <2> QED  BY <1>8, <2>1, <2>3
<1>11. Sound' /\ ~Signed(ota_target_index)'
  BY <1>1, <1>2, <1>6, <1>10, NotSigned, SoundTarget
<1>12. TypeInv'
  BY <1>1, <1>4, <1>7 DEF OtaInv, TypeInv, dlVars, memVars
<1>13. Task' /\ Place'
  BY <1>1 DEF OtaInv, Task, Place, Writing, Target, Split, Addr, Other
<1>14. Unsigned' /\ Downloading' /\ DownloadExact' /\ Signing' /\ Done'
  BY <1>1 DEF Unsigned, Downloading, DownloadExact, Signing, Done
<1>15. Ready'
  BY <1>1, Waiting DEF Ready
<1> QED
  BY <1>6, <1>9, <1>11, <1>12, <1>13, <1>14, <1>15 DEF OtaInv

(* So does erasing the signature of an image that failed to verify.        *)
LEMMA ClearInv ==
    OtaInv /\ ClearSignature => OtaInv' /\ Unharmed /\ ~Signed(ota_target_index)'
<1> SUFFICES ASSUME OtaInv, ClearSignature PROVE OtaInv' /\ Unharmed /\ ~Signed(ota_target_index)'
  OBVIOUS
<1>1. /\ pc = "clear" /\ pc' = "failed" /\ flash' = flash_erase_sector(NewImg2Addr)
      /\ UNCHANGED <<ota2_addr, ValidIMG2, dlVars, taskVars, memVars, running, restart, console>>
  BY DEF ClearSignature
<1>2. Writing
  BY <1>1 DEF Writing
<1>0. 0 * SectorSize = 0
  BY Numbers
<1>3. 0 * SectorSize < Target.len /\ NewImg2Addr + 0 * SectorSize = NewImg2Addr
  <2> DEFINE z == 0 * SectorSize
  <2>1. z = 0
    BY <1>0
  <2> HIDE DEF z
  <2>2. Target.len \in Nat /\ Target.len > 0 /\ NewImg2Addr \in Nat
    BY <1>2, TargetFacts, Numbers
  <2>3. z < Target.len /\ NewImg2Addr + z = NewImg2Addr
    BY <2>1, <2>2
  <2> QED  BY <2>3 DEF z
<1>4. \A c \in Cells : Reach(c) \/ flash'[c] = flash[c]
  BY <1>1, <1>2, <1>3, SectorInReach DEF flash_erase_sector
<1>5. \A c \in Cells : flash'[c] = Erased \/ flash'[c] = flash[c]
  BY <1>1 DEF flash_erase_sector
<1>6. Boots' /\ Addresses' /\ Unharmed
  BY <1>1, <1>2, <1>4, RunningKept
<1>7. ASSUME NEW k \in 0 .. (SigLen - 1) PROVE flash'[NewImg2Addr + k] = Erased
  <2>1. NewImg2Addr + k \in Cells
    BY <1>2, TargetFacts, TargetCells, Numbers
  <2> QED  BY <1>1, <1>5, <2>1 DEF OtaInv, Unsigned
<1>8. Sound' /\ ~Signed(ota_target_index)'
  BY <1>1, <1>2, <1>6, <1>7, NotSigned, SoundTarget DEF taskVars
<1>9. TypeInv'
  <2>1. DOMAIN flash' = Cells
    BY <1>1 DEF flash_erase_sector
  <2> QED  BY <1>1, <1>5, <2>1 DEF OtaInv, TypeInv, dlVars, memVars, taskVars
<1>10. Task' /\ Done'
  BY <1>1 DEF OtaInv, Task, Done, Writing, Other, taskVars
<1>11. Ready'
  BY <1>1, Waiting DEF Ready
<1> QED
  BY <1>1, <1>6, <1>8, <1>9, <1>10, <1>11, NotWriting DEF OtaInv

(* The words of the target lie in the part of flash that is the target     *)
(* slot's.                                                                 *)
LEMMA TargetReach ==
    ASSUME OtaInv, Writing, NEW k \in Int, k >= 0, k < Target.len
    PROVE  Reach(NewImg2Addr + k)
<1>1. /\ ota_target_index \in Slots /\ NewImg2Addr = Addr(ota_target_index)
      /\ ota2_addr \in Nat /\ Target.len \in Nat /\ Ota1Addr \in Nat /\ NewImg2Addr \in Nat
  BY TargetFacts, Numbers
<1>2. CASE ota_target_index = 1
  <2>1. NewImg2Addr = Ota1Addr /\ Ota1Addr + Target.len <= ota2_addr
    BY <1>1, <1>2 DEF OtaInv, Place, Addr
  <2> QED  BY <1>1, <1>2, <2>1 DEF Reach
<1>3. CASE ota_target_index = 2
  BY <1>1, <1>3 DEF Reach, Addr
<1> QED
  BY <1>1, <1>2, <1>3 DEF Slots

(* Writing a word of the signature keeps the invariant and the other slot. *)
LEMMA SignInv ==
    OtaInv /\ WriteSignature => OtaInv' /\ Unharmed
<1> SUFFICES ASSUME OtaInv, WriteSignature PROVE OtaInv' /\ Unharmed
  OBVIOUS
<1>1. /\ pc = "sign" /\ pc' = pc
      /\ UNCHANGED <<ota2_addr, ValidIMG2, dlVars, taskVars, memVars, running, restart, console>>
  BY DEF WriteSignature
<1>2. Writing /\ DOMAIN signature = 0 .. (SigLen - 1) /\ DOMAIN flash = Cells
  BY <1>1 DEF Writing, OtaInv, TypeInv
<1>3. PICK k \in 0 .. (SigLen - 1) :
        /\ flash[NewImg2Addr + k] # signature[k]
        /\ flash' = [flash EXCEPT ![NewImg2Addr + k] = Program(@, signature[k])]
  BY <1>2 DEF WriteSignature
<1>4. /\ Target.len \in Nat /\ Target.len > SigLen /\ SigLen \in Nat
      /\ file \in Known /\ NewImg2Addr \in Nat /\ Target.off \in Nat
  BY <1>2, TargetFacts, Numbers
<1>5. NewImg2Addr + k \in Cells /\ Reach(NewImg2Addr + k)
  <2>1. k \in Int /\ k >= 0 /\ k < Target.len
    BY <1>4
  <2> QED  BY <1>2, <2>1, TargetCells, TargetReach
<1>6. /\ Layout[file].good
      /\ Stored(file, ota_target_index, NewImg2Addr, SigLen, Target.len)
      /\ \A j \in 0 .. (SigLen - 1) :
            /\ signature[j] = <<file, Target.off + j>>
            /\ flash[NewImg2Addr + j] \in {Erased, signature[j]}
  BY <1>1 DEF OtaInv, Signing
<1>7. \A c \in Cells : flash'[c] = IF c = NewImg2Addr + k THEN signature[k] ELSE flash[c]
  <2>1. Program(flash[NewImg2Addr + k], signature[k]) = signature[k]
    BY <1>3, <1>6 DEF Program
  <2> QED  BY <1>2, <1>3, <1>5, <2>1
<1>8. Boots' /\ Addresses' /\ Unharmed
  BY <1>1, <1>2, <1>5, <1>7, RunningKept
<1>9. TypeInv'
  <2>1. DOMAIN flash' = Cells
    BY <1>2, <1>3
  <2>2. signature[k][1] \in Known
    BY <1>4, <1>6
  <2> QED
    BY <1>1, <1>7, <2>1, <2>2 DEF OtaInv, TypeInv, dlVars, taskVars, memVars
<1>10. \A j \in 0 .. (SigLen - 1) : flash'[NewImg2Addr + j] \in {Erased, signature[j]}
  <2> SUFFICES ASSUME NEW j \in 0 .. (SigLen - 1)
               PROVE  flash'[NewImg2Addr + j] \in {Erased, signature[j]}
    OBVIOUS
  <2>1. NewImg2Addr + j \in Cells
    <3>1. j \in Int /\ j >= 0 /\ j < Target.len
      BY <1>4
    <3> QED  BY <1>2, <3>1, TargetCells
  <2>2. NewImg2Addr + j = NewImg2Addr + k => j = k
    BY <1>4
  <2> QED  BY <1>6, <1>7, <2>1, <2>2
<1>11. ASSUME NEW j \in SigLen .. (Target.len - 1)
       PROVE  /\ NewImg2Addr + j \in Cells
              /\ flash'[NewImg2Addr + j] = <<file, Target.off + j>>
  <2>1. NewImg2Addr + j \in Cells /\ flash[NewImg2Addr + j] = <<file, Target.off + j>>
    BY <1>6 DEF Stored, Target
  <2>2. NewImg2Addr + j # NewImg2Addr + k
    BY <1>4
  <2> QED  BY <1>7, <2>1, <2>2
<1>12. Signing'
  BY <1>1, <1>6, <1>10, <1>11 DEF Signing, Stored, Target, dlVars, taskVars
<1>13. Sound'
  <2> SUFFICES ASSUME Signed(ota_target_index)'
               PROVE  Holds(file, ota_target_index)'
    BY <1>1, <1>2, <1>4, <1>8, SoundTarget DEF taskVars
  <2>1. Addr(ota_target_index)' = NewImg2Addr /\ Target.at = NewImg2Addr
    BY <1>1, <1>2, TargetFacts DEF Addr, taskVars
  <2>2. ASSUME NEW j \in 0 .. (Target.len - 1)
        PROVE  NewImg2Addr + j \in Cells /\ flash'[NewImg2Addr + j] = <<file, Target.off + j>>
    <3>1. CASE j < SigLen
      <4>1. j \in 0 .. (SigLen - 1)
        BY <3>1, <1>4
      <4>2. PICK f \in Known : flash'[NewImg2Addr + j] = <<f, Layout[f].img[ota_target_index'].off + j>>
        BY <2>1, <4>1 DEF Signed
      <4>3. NewImg2Addr + j \in Cells
        BY <1>2, <1>4, TargetCells
      <4>4. flash'[NewImg2Addr + j] # Erased
        BY <4>2, WordsDiffer
      <4> QED  BY <1>6, <1>10, <4>1, <4>3, <4>4
    <3>2. CASE ~(j < SigLen)
      BY <1>4, <1>11, <3>2
    <3> QED  BY <3>1, <3>2
  <2> QED
    BY <1>1, <1>6, <2>1, <2>2 DEF Holds, Stored, Target, taskVars
<1>14. Task' /\ Place'
  BY <1>1 DEF OtaInv, Task, Place, Writing, Target, Split, Addr, Other, taskVars
<1>15. Unsigned' /\ Downloading' /\ DownloadExact' /\ Erasing' /\ Done'
  BY <1>1 DEF Unsigned, Downloading, DownloadExact, Erasing, Done
<1>16. Ready'
  BY <1>1, <1>2, Waiting, TargetFacts DEF Ready
<1> QED
  BY <1>8, <1>9, <1>12, <1>13, <1>14, <1>15, <1>16 DEF OtaInv

(* The images to download: where they lie in flash.                        *)
LEMMA EntryFacts ==
    ASSUME OtaInv, Writing, NEW j \in 1 .. Len(Info)
    PROVE  LET d == Info[j]
           IN  /\ \/ OtaEntry(d, file, ota_target_index, NewImg2Addr)
                  \/ RdpEntry(d, file)
               /\ d.ImgId \in {"OTA", "RDP"}
               /\ d.ImageLen \in Nat /\ d.ImgOffset \in Nat /\ d.FlashAddr \in Nat
               /\ d.ImgId = "OTA" => /\ d.ImgOffset = Target.off
                                     /\ d.ImageLen = Target.len - SigLen
                                     /\ d.FlashAddr = NewImg2Addr + SigLen
               /\ d.ImgId = "RDP" => d.FlashAddr = RdpAddr /\ d.ImageLen <= SectorSize
               /\ \A k \in 0 .. (d.ImageLen - 1) :
                    /\ d.FlashAddr + k \in Cells /\ Reach(d.FlashAddr + k)
                    /\ d.FlashAddr + k >= NewImg2Addr + SigLen
                    /\ d.ImgId = "OTA" <=> d.FlashAddr + k < RdpAddr
<1> DEFINE d == Info[j]
<1>1. /\ file \in Known /\ ota_target_index \in Slots /\ NewImg2Addr \in Nat
      /\ Target.off \in Nat /\ Target.len \in Nat /\ Target.len > SigLen
      /\ NewImg2Addr + Target.len <= RdpAddr
      /\ SigLen \in Nat /\ SigLen > 0 /\ RdpAddr \in Nat /\ SectorSize \in Nat
      /\ FlashSize \in Nat /\ RdpAddr + SectorSize <= FlashSize
  BY TargetFacts, Numbers
<1>2. OtaEntry(d, file, ota_target_index, NewImg2Addr) \/ RdpEntry(d, file)
  BY <1>1, InfoEntries DEF Info
<1>3. CASE OtaEntry(d, file, ota_target_index, NewImg2Addr)
  <2>1. /\ d.ImgId = "OTA" /\ d.FlashAddr = NewImg2Addr + SigLen
        /\ d.ImageLen = Target.len - SigLen /\ d.ImgOffset = Target.off
    BY <1>3 DEF OtaEntry, Target
  <2> HIDE DEF d
  <2>2. ASSUME NEW k \in 0 .. (d.ImageLen - 1)
        PROVE  /\ d.FlashAddr + k \in Cells /\ Reach(d.FlashAddr + k)
               /\ d.FlashAddr + k >= NewImg2Addr + SigLen /\ d.FlashAddr + k < RdpAddr
    <3>1. SigLen + k \in Int /\ SigLen + k >= 0 /\ SigLen + k < Target.len
      BY <1>1, <2>1
    <3>2. d.FlashAddr + k = NewImg2Addr + (SigLen + k)
      BY <1>1, <2>1
    <3>3. Reach(d.FlashAddr + k) /\ d.FlashAddr + k \in Cells
      BY <3>1, <3>2, TargetReach, TargetCells
    <3> QED  BY <1>1, <2>1, <3>1, <3>2, <3>3
  <2> QED  BY <1>1, <1>2, <2>1, <2>2 DEF d
<1>4. CASE RdpEntry(d, file)
  <2>1. /\ d.ImgId = "RDP" /\ d.FlashAddr = RdpAddr
        /\ d.ImageLen \in Nat /\ d.ImgOffset \in Nat /\ d.ImageLen <= SectorSize
    BY <1>1, <1>4, RdpFacts DEF RdpEntry
  <2> HIDE DEF d
  <2>2. ASSUME NEW k \in 0 .. (d.ImageLen - 1)
        PROVE  /\ d.FlashAddr + k \in Cells /\ Reach(d.FlashAddr + k)
               /\ d.FlashAddr + k >= NewImg2Addr + SigLen /\ ~(d.FlashAddr + k < RdpAddr)
    BY <1>1, <2>1 DEF Reach, Cells
  <2> QED  BY <1>1, <1>2, <2>1, <2>2 DEF d
<1> QED
  BY <1>2, <1>3, <1>4

(* Two images do not share a cell.                                         *)
LEMMA EntriesApart ==
    ASSUME OtaInv, Writing, NEW i \in 1 .. Len(Info), NEW j \in 1 .. Len(Info), i # j,
           NEW k \in 0 .. (Info[i].ImageLen - 1), NEW m \in 0 .. (Info[j].ImageLen - 1)
    PROVE  Info[i].FlashAddr + k # Info[j].FlashAddr + m
<1>1. file \in Known /\ ota_target_index \in Slots /\ NewImg2Addr \in Nat
  BY TargetFacts
<1>2. Info[i].ImgId # Info[j].ImgId
  BY <1>1, InfoEntries DEF Info
<1>3. Info[i].ImgId = "OTA" <=> Info[i].FlashAddr + k < RdpAddr
  BY EntryFacts
<1>4. Info[j].ImgId = "OTA" <=> Info[j].FlashAddr + m < RdpAddr
  BY EntryFacts
<1>5. Info[i].ImgId \in {"OTA", "RDP"} /\ Info[j].ImgId \in {"OTA", "RDP"}
  BY EntryFacts
<1> QED
  BY <1>2, <1>3, <1>4, <1>5

(* Erasing the RDP sector touches neither slot.                            *)
LEMMA EraseRdpInv ==
    OtaInv /\ EraseRdp => OtaInv' /\ Unharmed /\ ~Signed(ota_target_index)'
<1> SUFFICES ASSUME OtaInv, EraseRdp PROVE OtaInv' /\ Unharmed /\ ~Signed(ota_target_index)'
  OBVIOUS
<1>1. /\ pc = "erase" /\ blk = NewImg2BlkSize /\ pc' = "download"
      /\ flash' = IF Layout[file].rdp = <<>> THEN flash ELSE flash_erase_sector(RdpAddr)
      /\ DownloadInit(file, ota_target_index, NewImg2Addr)
      /\ UNCHANGED <<ota2_addr, ValidIMG2, taskVars, memVars, running, restart, console>>
  BY DEF EraseRdp
<1>2. Writing
  BY <1>1 DEF Writing
<1>3. /\ file \in Known /\ NewImg2Addr \in Nat /\ Target.len \in Nat /\ Target.len > SigLen
      /\ ota_target_index \in Slots /\ NewImg2Addr + Target.len <= RdpAddr
      /\ RdpAddr \in Nat /\ RdpAddr % SectorSize = 0 /\ SectorSize \in Nat
  BY <1>2, TargetFacts, Numbers
<1>4. /\ \A c \in Cells : c < RdpAddr => flash'[c] = flash[c]
      /\ \A c \in Cells : flash'[c] = flash[c] \/ flash'[c] = Erased
      /\ Layout[file].rdp # <<>> =>
            \A c \in Cells : c \in RdpAddr .. (RdpAddr + SectorSize - 1) => flash'[c] = Erased
      /\ DOMAIN flash' = Cells
  <2>1. \A c \in Cells : c \in Nat /\ (c \div SectorSize = RdpAddr \div SectorSize
                            <=> c \in RdpAddr .. (RdpAddr + SectorSize - 1))
    <3>1. \A c \in Cells : c \in Nat
      BY DEF Cells
    <3> QED  BY <1>3, <3>1, SectorCells
  <2>2. CASE Layout[file].rdp = <<>>
    BY <1>1, <2>2 DEF OtaInv, TypeInv
  <2>3. CASE Layout[file].rdp # <<>>
    <3>1. flash' = flash_erase_sector(RdpAddr)
      BY <1>1, <2>3
    <3>2. \A c \in Cells : flash'[c] = IF c \in RdpAddr .. (RdpAddr + SectorSize - 1)
                                       THEN Erased ELSE flash[c]
      BY <2>1, <3>1 DEF flash_erase_sector
    <3>3. DOMAIN flash' = Cells
      BY <3>1 DEF flash_erase_sector
    <3> QED  BY <1>3, <2>1, <3>2, <3>3
  <2> QED  BY <2>2, <2>3
<1>5. \A c \in Cells : Reach(c) \/ flash'[c] = flash[c]
  <2> SUFFICES ASSUME NEW c \in Cells, c >= RdpAddr PROVE Reach(c)
    BY <1>3, <1>4 DEF Cells
  <2> QED  BY DEF Reach
<1>6. ASSUME NEW k \in 0 .. (Target.len - 1) PROVE flash'[NewImg2Addr + k] = Erased
  <2>1. NewImg2Addr + k \in Cells /\ NewImg2Addr + k < RdpAddr
    BY <1>2, <1>3, TargetCells
  <2> DEFINE x == blk * SectorSize
  <2>2. x \in Nat /\ x >= Target.len
    <3>1. Target.len \in Nat /\ Target.len > 0
      BY <1>2, TargetFacts, Numbers
    <3>2. NewImg2BlkSize \in Nat /\ NewImg2BlkSize * SectorSize >= Target.len
      BY <3>1, SectorsCover DEF NewImg2BlkSize, Target
    <3>3. NewImg2BlkSize * SectorSize \in Nat
      BY <3>2, <1>3
    <3> QED  BY <1>1, <3>2, <3>3
  <2>3. \A c \in Cells : c \in NewImg2Addr .. (NewImg2Addr + x - 1) => flash[c] = Erased
    BY <1>1, Zenon DEF OtaInv, Erasing
  <2> HIDE DEF x
  <2>4. NewImg2Addr + k \in NewImg2Addr .. (NewImg2Addr + x - 1)
    BY <1>3, <2>2
  <2> QED  BY <1>4, <2>1, <2>3, <2>4
<1>7. Boots' /\ Addresses' /\ Unharmed
  BY <1>1, <1>2, <1>5, RunningKept
<1>8. \A k \in 0 .. (SigLen - 1) : flash'[NewImg2Addr + k] = Erased
  <2> SUFFICES ASSUME NEW k \in 0 .. (SigLen - 1) PROVE flash'[NewImg2Addr + k] = Erased
    OBVIOUS
  <2>1. k \in 0 .. (Target.len - 1)
    BY <1>3, Numbers
  <2> QED  BY <1>6, <2>1
<1>9. Sound' /\ ~Signed(ota_target_index)'
  BY <1>1, <1>2, <1>7, <1>8, NotSigned, SoundTarget DEF taskVars
<1>10. /\ img' = 1 /\ RemainBytes' = Info[1].ImageLen /\ TempLen' = HdrLen
       /\ size' = 0 /\ OtaFg' = FALSE /\ SigCnt' = 0 /\ IncFg' = FALSE /\ eof' = FALSE
       /\ signature' = [k \in 0 .. (SigLen - 1) |-> Erased]
       /\ Info' = Info
  BY <1>1 DEF DownloadInit, Info, taskVars
<1>11. TypeInv'
  <2>1. OtaFg' \in BOOLEAN /\ IncFg' \in BOOLEAN /\ eof' \in BOOLEAN
    BY <1>10
  <2>2. SigCnt' \in 0 .. SigLen
    BY <1>10, Numbers
  <2>3. DOMAIN signature' = 0 .. (SigLen - 1)
    BY <1>10
  <2>4. \A c \in Cells : flash'[c] = Erased \/ flash'[c][1] \in Known
    BY <1>4 DEF OtaInv, TypeInv
  <2> QED
    BY <1>1, <1>4, <2>1, <2>2, <2>3, <2>4 DEF OtaInv, TypeInv, taskVars, memVars
<1>12. ASSUME NEW j \in 1 .. Len(Info) PROVE Blank(Info[j], 0)'
  <2> DEFINE d == Info[j]
  <2>1. /\ d.ImageLen \in Nat /\ d.FlashAddr \in Nat /\ d.ImgId \in {"OTA", "RDP"}
        /\ d.ImgId = "OTA" => d.FlashAddr = NewImg2Addr + SigLen /\ d.ImageLen = Target.len - SigLen
        /\ d.ImgId = "RDP" => d.FlashAddr = RdpAddr /\ d.ImageLen <= SectorSize
        /\ \A k \in 0 .. (d.ImageLen - 1) : d.FlashAddr + k \in Cells
    BY <1>2, EntryFacts
  <2>2. d.ImgId = "RDP" => Layout[file].rdp # <<>>
    BY <1>2, EntryFacts DEF OtaEntry, RdpEntry
  <2>3. ASSUME NEW k \in 0 .. (d.ImageLen - 1) PROVE flash'[d.FlashAddr + k] = Erased
    <3> HIDE DEF d
    <3>1. CASE d.ImgId = "OTA"
      <4>0. /\ d.FlashAddr = NewImg2Addr + SigLen /\ d.ImageLen = Target.len - SigLen
            /\ SigLen \in Nat
        BY <2>1, <3>1, Numbers
      <4>1. SigLen + k \in 0 .. (Target.len - 1) /\ d.FlashAddr + k = NewImg2Addr + (SigLen + k)
        BY <1>3, <4>0
      <4> QED  BY <1>6, <4>1
    <3>2. CASE d.ImgId = "RDP"
      <4>1. d.FlashAddr + k \in RdpAddr .. (RdpAddr + SectorSize - 1)
        BY <1>3, <2>1, <3>2
      <4> QED  BY <1>4, <2>1, <2>2, <3>2, <4>1
    <3> QED  BY <2>1, <3>1, <3>2
  <2> QED
    BY <1>10, <2>3 DEF Blank
<1>13. 1 \in 1 .. Len(Info) /\ Len(Info) \in Nat
  <2>1. Len(Info) \in Nat /\ Len(Info) >= 1
    BY <1>3, InfoEntries DEF Info
  <2> QED  BY <2>1
<1>14. Position'
  <2>1. Layout[file].end \in Nat /\ HdrLen <= Layout[file].end /\ HdrLen \in Nat
    BY <1>3, ImageFacts, Numbers DEF Slots
  <2>2. Info[1].ImageLen \in Nat
    BY <1>2, <1>13, EntryFacts
  <2>3. file' = file
    BY <1>1 DEF taskVars
  <2> QED
    BY <1>10, <2>1, <2>2, <2>3 DEF Position
<1>15. Downloading'
  <2>1. Written(Info[1], 0)'
    BY DEF Written
  <2>2. \A j \in 1 .. Len(Info) : Pending(Info[j])'
    BY <1>10, <1>12 DEF Pending
  <2>3. \A k \in 0 .. (SigCnt' - 1) : FALSE
    BY <1>10
  <2> QED
    BY <1>10, <1>12, <1>13, <1>14, <2>1, <2>2, <2>3 DEF Downloading
<1>16. Task' /\ Place'
  BY <1>1 DEF OtaInv, Task, Place, Writing, Target, Split, Addr, Other, taskVars
<1>17. Unsigned' /\ Erasing' /\ DownloadExact' /\ Signing' /\ Done'
  BY <1>1, <1>8 DEF Unsigned, Erasing, DownloadExact, Signing, Done, taskVars
<1>18. Ready'
  BY <1>1, Waiting DEF Ready
<1> QED
  BY <1>7, <1>9, <1>11, <1>15, <1>16, <1>17, <1>18 DEF OtaInv

(* What a packet does: n words that end at position pos of the stream.     *)
LEMMA ConsumeStep ==
    ASSUME OtaInv, pc = "download", RemainBytes > 0,
           NEW n, NEW pos \in HdrLen .. Layout[file].end,
           OtaFg => n \in Nat /\ n >= 1 /\ pos = TempLen + n,
           Consume(file, Info[img], n, pos),
           UNCHANGED <<img, file, NewImg2Addr, ota_target_index>>
    PROVE  /\ Position' /\ Written(Info[img], size)' /\ Blank(Info[img], size)'
           /\ Info' = Info
           /\ \A k \in 0 .. (SigCnt' - 1) : signature'[k] = <<file, Target.off + k>>
           /\ DOMAIN signature' = 0 .. (SigLen - 1) /\ SigCnt' \in 0 .. SigLen
           /\ OtaFg' \in BOOLEAN /\ IncFg' \in BOOLEAN
           /\ Info[img].ImgId # "OTA" => SigCnt' = SigCnt
           /\ DOMAIN flash' = Cells
           /\ \A c \in Cells : \/ flash'[c] = flash[c]
                               \/ /\ \E k \in 0 .. (Info[img].ImageLen - 1) :
                                        c = Info[img].FlashAddr + k
                                  /\ flash'[c][1] \in Known
<1> DEFINE d == Info[img]
<1>0. Writing
  BY DEF Writing
<1>1. Info' = Info /\ img' = img
  BY DEF Info
<1>2. /\ img \in 1 .. Len(Info) /\ Position
      /\ Written(d, size) /\ Blank(d, size)
      /\ \A k \in 0 .. (SigCnt - 1) : signature[k] = <<file, Target.off + k>>
  BY DEF OtaInv, Downloading
<1>3. /\ SigCnt \in 0 .. SigLen /\ OtaFg \in BOOLEAN /\ DOMAIN signature = 0 .. (SigLen - 1)
      /\ DOMAIN flash = Cells
  BY DEF OtaInv, TypeInv
<1>4. /\ d.ImageLen \in Nat /\ d.ImgOffset \in Nat /\ d.FlashAddr \in Nat
      /\ d.ImgId = "OTA" => d.ImgOffset = Target.off
      /\ d.ImgId \in {"OTA", "RDP"}
      /\ \A k \in 0 .. (d.ImageLen - 1) : d.FlashAddr + k \in Cells
  BY <1>0, <1>2, EntryFacts
<1>5. /\ file \in Known /\ SigLen \in Nat /\ SigLen > 0 /\ Layout[file].end \in Nat
      /\ HdrLen \in Nat
  BY <1>0, TargetFacts, ImageFacts, Numbers
<1>6. /\ TempLen \in Int /\ RemainBytes \in Int
      /\ size = d.ImageLen - RemainBytes /\ size >= 0
      /\ OtaFg => TempLen = d.ImgOffset + size + (IF d.ImgId = "OTA" THEN SigCnt ELSE 0)
      /\ ~OtaFg => size = 0 /\ RemainBytes = d.ImageLen
      /\ d.ImgId = "OTA" => /\ ~OtaFg => SigCnt = 0
                            /\ SigCnt < SigLen => RemainBytes = d.ImageLen
  <2> HIDE DEF d
  <2> QED  BY <1>2, <1>4, <1>3, <1>5 DEF Position, d
<1>7. pos \in Nat
  BY <1>5
<1>8. CASE pos <= d.ImgOffset
  <2>1. /\ TempLen' = pos /\ IncFg' = FALSE
        /\ UNCHANGED <<flash, RemainBytes, size, OtaFg, SigCnt, signature>>
    BY <1>8 DEF Consume
  <2>2. ~OtaFg
    <3> HIDE DEF d
    <3> QED  BY <1>3, <1>4, <1>6, <1>7, <1>8
  <2>3. Position'
    <3>1. d.ImgId = "OTA" => SigCnt = 0
      BY <1>6, <2>2
    <3> QED
      BY <1>1, <1>4, <1>6, <2>1, <2>2, <3>1 DEF Position
  <2>4. Written(d, size)' /\ Blank(d, size)'
    BY <1>1, <1>2, <2>1 DEF Written, Blank, Base
  <2>5. OtaFg' \in BOOLEAN /\ IncFg' \in BOOLEAN
    BY <1>3, <2>1
  <2> QED
    BY <1>1, <1>2, <1>3, <2>1, <2>3, <2>4, <2>5
<1>9. CASE pos > d.ImgOffset
  <2> DEFINE start == IF OtaFg THEN pos - n ELSE d.ImgOffset
             cnt == IF OtaFg THEN n ELSE pos - d.ImgOffset
             sig == IF d.ImgId = "OTA" THEN Min({SigLen - SigCnt, cnt}) ELSE 0
             rest == cnt - sig
             w == Min({rest, RemainBytes})
  <2>1. Payload(d, n, pos) = [start |-> start, sig |-> sig, cnt |-> rest]
    BY DEF Payload
  <2>2. /\ TempLen' = pos /\ IncFg' = FALSE /\ OtaFg' = TRUE
        /\ SigCnt' = SigCnt + sig
        /\ signature' = [k \in DOMAIN signature |->
                            IF k \in SigCnt .. (SigCnt + sig - 1)
                            THEN <<file, start + k - SigCnt>> ELSE signature[k]]
        /\ RemainBytes' = RemainBytes - rest
        /\ flash' = flash_stream_write(d.FlashAddr + size, w, file, start + sig)
        /\ size' = size + w
    <3>1. ~(pos <= d.ImgOffset)
      BY <1>4, <1>7, <1>9
    <3> HIDE DEF d, start, cnt, sig, rest
    <3> QED  BY <2>1, <3>1 DEF Consume, d
  <2>3. /\ start \in Int /\ cnt \in Nat /\ cnt >= 1 /\ pos = start + cnt
        /\ start = d.ImgOffset + size + (IF d.ImgId = "OTA" THEN SigCnt ELSE 0)
    <3> HIDE DEF d
    <3>1. CASE OtaFg
      BY <1>4, <1>6, <1>7, <3>1, <1>3
    <3>2. CASE ~OtaFg
      <4>1. start = d.ImgOffset /\ cnt = pos - d.ImgOffset /\ size = 0
        BY <1>6, <3>2
      <4>2. (IF d.ImgId = "OTA" THEN SigCnt ELSE 0) = 0
        BY <1>6, <3>2
      <4> HIDE DEF start, cnt
      <4> QED  BY <1>4, <1>7, <1>9, <4>1, <4>2
    <3> QED  BY <3>1, <3>2
  <2> HIDE DEF start, cnt
  <2>4. /\ sig \in Nat /\ sig <= cnt /\ SigCnt + sig \in 0 .. SigLen
        /\ d.ImgId # "OTA" => sig = 0
        /\ d.ImgId = "OTA" /\ sig < cnt => SigCnt + sig = SigLen
    <3>1. Min({SigLen - SigCnt, cnt}) = IF SigLen - SigCnt <= cnt THEN SigLen - SigCnt ELSE cnt
      BY <1>3, <1>5, <2>3, MinOfTwo
    <3> HIDE DEF d
    <3> QED  BY <1>3, <1>5, <2>3, <3>1
  <2> HIDE DEF sig
  <2>5. rest \in Nat /\ rest + sig = cnt
    BY <2>3, <2>4
  <2> HIDE DEF rest
  <2>6. /\ w = IF rest <= RemainBytes THEN rest ELSE RemainBytes
        /\ w \in Nat /\ size + w <= d.ImageLen
    BY <1>4, <1>6, <2>5, MinOfTwo
  <2> HIDE DEF w
  <2>7. w > 0 => start + sig = Base(d) + size
    <3> SUFFICES ASSUME w > 0 PROVE start + sig = Base(d) + size
      OBVIOUS
    <3>1. sig < cnt
      BY <2>3, <2>4, <2>5, <2>6, <1>6
    <3> HIDE DEF d
    <3>2. CASE d.ImgId = "OTA"
      <4>1. Base(d) = d.ImgOffset + SigLen /\ start = d.ImgOffset + size + SigCnt
        BY <2>3, <3>2 DEF Base
      <4>2. SigCnt + sig = SigLen
        BY <2>4, <3>1, <3>2
      <4>3. size \in Int /\ SigCnt \in Int /\ sig \in Int
        BY <1>3, <1>4, <1>6, <2>4
      <4> QED  BY <1>4, <1>5, <4>1, <4>2, <4>3
    <3>3. CASE d.ImgId # "OTA"
      <4>1. Base(d) = d.ImgOffset + 0 /\ start = d.ImgOffset + size + 0 /\ sig = 0
        BY <2>3, <2>4, <3>3 DEF Base
      <4> QED  BY <1>4, <1>6, <4>1
    <3> QED  BY <3>2, <3>3
  <2>8. sig > 0 => d.ImgId = "OTA" /\ start = Target.off + SigCnt
    <3> SUFFICES ASSUME sig > 0 PROVE d.ImgId = "OTA" /\ start = Target.off + SigCnt
      OBVIOUS
    <3> HIDE DEF d
    <3>1. d.ImgId = "OTA"
      BY <2>4
    <3>2. SigCnt < SigLen
      BY <1>3, <1>5, <2>4
    <3>3. size = 0
      BY <1>6, <3>1, <3>2, <1>4
    <3> QED  BY <1>3, <1>4, <2>3, <3>1, <3>3
  <2>9. Position'
    <3>1. size' \in 0 .. d.ImageLen /\ RemainBytes' \in Int
      BY <1>4, <1>6, <2>2, <2>5, <2>6
    <3>2. RemainBytes' >= 0 => size' = d.ImageLen - RemainBytes'
      BY <1>4, <1>6, <2>2, <2>5, <2>6
    <3>3. RemainBytes' < 0 => size' = d.ImageLen
      BY <1>4, <1>6, <2>2, <2>5, <2>6
    <3>4. TempLen' = d.ImgOffset + d.ImageLen - RemainBytes'
                                    + (IF d.ImgId = "OTA" THEN SigCnt' ELSE 0)
      <4> HIDE DEF d
      <4>1. CASE d.ImgId = "OTA"
        <5>1. start = d.ImgOffset + size + SigCnt
          BY <2>3, <4>1
        <5>2. /\ TempLen' = start + cnt /\ SigCnt' = SigCnt + sig /\ cnt = rest + sig
              /\ RemainBytes' = RemainBytes - rest /\ size = d.ImageLen - RemainBytes
          BY <1>6, <2>2, <2>3, <2>5
        <5>3. SigCnt \in Int /\ sig \in Int /\ rest \in Int /\ RemainBytes \in Int
          BY <1>3, <1>6, <2>4, <2>5
        <5>4. TempLen' = d.ImgOffset + d.ImageLen - RemainBytes' + SigCnt'
          BY <1>4, <5>1, <5>2, <5>3
        <5> QED  BY <4>1, <5>4
      <4>2. CASE d.ImgId # "OTA"
        <5>1. start = d.ImgOffset + size /\ sig = 0
          BY <2>3, <2>4, <4>2, <1>4, <1>6
        <5>2. /\ TempLen' = start + cnt /\ cnt = rest + sig
              /\ RemainBytes' = RemainBytes - rest /\ size = d.ImageLen - RemainBytes
          BY <1>6, <2>2, <2>3, <2>5
        <5>3. rest \in Int /\ RemainBytes \in Int
          BY <1>6, <2>5
        <5>4. TempLen' = d.ImgOffset + d.ImageLen - RemainBytes' + 0
          BY <1>4, <5>1, <5>2, <5>3
        <5> QED  BY <4>2, <5>4
      <4> QED  BY <4>1, <4>2
    <3>5. d.ImgId = "OTA" => (SigCnt' < SigLen => RemainBytes' = d.ImageLen)
      <4> SUFFICES ASSUME d.ImgId = "OTA", SigCnt' < SigLen PROVE RemainBytes' = d.ImageLen
        OBVIOUS
      <4> HIDE DEF d
      <4>1. ~(sig < cnt)
        BY <1>3, <1>5, <2>2, <2>4
      <4>2. rest = 0
        BY <2>3, <2>4, <2>5, <4>1
      <4>3. SigCnt < SigLen
        BY <1>3, <1>5, <2>2, <2>4
      <4> QED  BY <1>4, <1>6, <2>2, <4>2, <4>3
    <3>6. TempLen' \in HdrLen .. Layout[file].end
      BY <2>2
    <3> HIDE DEF d
    <3> QED  BY <1>1, <2>2, <3>1, <3>2, <3>3, <3>4, <3>5, <3>6 DEF Position, d
  <2>10. \A c \in Cells : flash'[c] = IF c \in (d.FlashAddr + size) .. (d.FlashAddr + size + w - 1)
                THEN Program(flash[c], <<file, start + sig + c - (d.FlashAddr + size)>>)
                ELSE flash[c]
    <3> HIDE DEF d
    <3> QED  BY <2>2 DEF flash_stream_write
  <2>11. ASSUME NEW k \in size .. (size + w - 1)
         PROVE  /\ k \in 0 .. (d.ImageLen - 1) /\ d.FlashAddr + k \in Cells
                /\ flash'[d.FlashAddr + k] = <<file, Base(d) + k>>
    <3> HIDE DEF d
    <3>1. k \in 0 .. (d.ImageLen - 1) /\ k \in size .. (d.ImageLen - 1) /\ w > 0
      BY <1>4, <1>6, <2>6
    <3>2. d.FlashAddr + k \in Cells
      BY <1>4, <3>1
    <3>3. flash[d.FlashAddr + k] = Erased
      BY <1>2, <3>1 DEF Blank
    <3>4. d.FlashAddr + k \in (d.FlashAddr + size) .. (d.FlashAddr + size + w - 1)
      BY <1>4, <1>6, <2>6
    <3>5. Base(d) \in Int
      BY <1>4, <1>5 DEF Base
    <3>6. start + sig + (d.FlashAddr + k) - (d.FlashAddr + size) = Base(d) + k
      BY <1>4, <1>6, <2>3, <2>4, <2>7, <3>1, <3>5
    <3> QED  BY <2>10, <3>1, <3>2, <3>3, <3>4, <3>6 DEF Program
  <2>12. ASSUME NEW c \in Cells, \A k \in size .. (size + w - 1) : c # d.FlashAddr + k
         PROVE  flash'[c] = flash[c]
    <3> HIDE DEF d
    <3>1. ASSUME c \in (d.FlashAddr + size) .. (d.FlashAddr + size + w - 1) PROVE FALSE
      <4>1. c \in Int /\ c - d.FlashAddr \in size .. (size + w - 1)
        BY <1>4, <1>6, <2>6, <3>1
      <4>2. c = d.FlashAddr + (c - d.FlashAddr)
        BY <4>1, <1>4
      <4> QED  BY <2>12, <4>1, <4>2
    <3> QED  BY <2>10, <3>1
  <2>13. Written(d, size)'
    <3> HIDE DEF d
    <3> SUFFICES ASSUME NEW k \in 0 .. (size' - 1)
                 PROVE  flash'[d.FlashAddr + k] = <<file, Base(d) + k>>
      BY <1>1 DEF Written, Base, d
    <3>1. CASE k >= size
      BY <1>6, <2>2, <2>6, <2>11, <3>1
    <3>2. CASE k < size
      <4>1. flash[d.FlashAddr + k] = <<file, Base(d) + k>>
        <5>1. k \in 0 .. (size - 1)
          BY <1>4, <1>6, <3>2
        <5> QED  BY <1>2, <5>1 DEF Written
      <4>2. d.FlashAddr + k \in Cells
        BY <1>4, <1>6, <3>2
      <4>3. \A j \in size .. (size + w - 1) : d.FlashAddr + k # d.FlashAddr + j
        BY <1>4, <1>6, <3>2, <2>6
      <4> QED  BY <2>12, <4>1, <4>2, <4>3
    <3> QED  BY <1>6, <3>1, <3>2
  <2>14. Blank(d, size)'
    <3> HIDE DEF d
    <3> SUFFICES ASSUME NEW k \in size' .. (d.ImageLen - 1)
                 PROVE  flash'[d.FlashAddr + k] = Erased
      BY <1>1 DEF Blank, d
    <3>1. k \in size .. (d.ImageLen - 1) /\ k \in 0 .. (d.ImageLen - 1)
      BY <1>4, <1>6, <2>2, <2>6
    <3>2. d.FlashAddr + k \in Cells /\ flash[d.FlashAddr + k] = Erased
      BY <1>2, <1>4, <3>1 DEF Blank
    <3>3. \A j \in size .. (size + w - 1) : d.FlashAddr + k # d.FlashAddr + j
      BY <1>4, <1>6, <2>2, <2>6
    <3> QED  BY <2>12, <3>2, <3>3
  <2>15. \A k \in 0 .. (SigCnt' - 1) : signature'[k] = <<file, Target.off + k>>
    <3> HIDE DEF d
    <3> SUFFICES ASSUME NEW k \in 0 .. (SigCnt' - 1)
                 PROVE  signature'[k] = <<file, Target.off + k>>
      OBVIOUS
    <3>1. k \in 0 .. (SigLen - 1)
      BY <1>3, <1>5, <2>2, <2>4
    <3>2. CASE k < SigCnt
      <4>1. ~(k \in SigCnt .. (SigCnt + sig - 1)) /\ k \in 0 .. (SigCnt - 1)
        BY <1>3, <2>4, <3>2
      <4> QED  BY <1>2, <1>3, <2>2, <3>1, <4>1
    <3>3. CASE k >= SigCnt
      <4>1. k \in SigCnt .. (SigCnt + sig - 1) /\ sig > 0
        BY <1>3, <2>2, <2>4, <3>3
      <4>2. Target.off \in Nat
        BY <1>0, TargetFacts
      <4>3. start + k - SigCnt = Target.off + k
        BY <1>3, <2>8, <4>1, <4>2
      <4> QED  BY <1>3, <2>2, <3>1, <4>1, <4>3
    <3> QED  BY <1>3, <3>2, <3>3
  <2>16. DOMAIN signature' = 0 .. (SigLen - 1) /\ DOMAIN flash' = Cells
    BY <1>3, <2>2 DEF flash_stream_write
  <2>17. SigCnt' \in 0 .. SigLen /\ (d.ImgId # "OTA" => SigCnt' = SigCnt)
    BY <1>3, <1>5, <2>2, <2>4
  <2>18. OtaFg' \in BOOLEAN /\ IncFg' \in BOOLEAN
    BY <2>2
  <2>19. ASSUME NEW c \in Cells
         PROVE  \/ flash'[c] = flash[c]
                \/ /\ \E k \in 0 .. (d.ImageLen - 1) : c = d.FlashAddr + k
                   /\ flash'[c][1] \in Known
    <3> HIDE DEF d
    <3>1. CASE \A k \in size .. (size + w - 1) : c # d.FlashAddr + k
      BY <2>12, <3>1
    <3>2. CASE \E k \in size .. (size + w - 1) : c = d.FlashAddr + k
      <4>1. PICK k \in size .. (size + w - 1) : c = d.FlashAddr + k
        BY <3>2
      <4>2. k \in 0 .. (d.ImageLen - 1) /\ flash'[c] = <<file, Base(d) + k>>
        BY <2>11, <4>1
      <4> QED  BY <1>5, <4>1, <4>2
    <3> QED  BY <3>1, <3>2
  <2> QED
    BY <1>1, <2>9, <2>13, <2>14, <2>15, <2>16, <2>17, <2>18, <2>19
<1> QED
  <2> HIDE DEF d
  <2>1. pos <= d.ImgOffset \/ pos > d.ImgOffset
    BY <1>4, <1>7
  <2> QED  BY <1>8, <1>9, <2>1 

(* A packet is programmed where it belongs, into erased cells of the       *)
(* target or of the RDP sector.                                            *)
LEMMA DownloadInv ==
    OtaInv /\ Download => OtaInv' /\ Unharmed /\ ~Signed(ota_target_index)'
<1> SUFFICES ASSUME OtaInv, Download PROVE OtaInv' /\ Unharmed /\ ~Signed(ota_target_index)'
  OBVIOUS
<1>1. /\ pc = "download" /\ pc' = pc /\ DownloadPacket(file, Info[img])
      /\ UNCHANGED <<ota2_addr, ValidIMG2, taskVars, memVars, running, restart, console>>
  BY DEF Download
<1>2. /\ RemainBytes > 0 /\ UNCHANGED <<img, OtaImgSize, eof>>
      /\ UNCHANGED <<file, NewImg2Addr, ota_target_index>>
  BY <1>1 DEF DownloadPacket, taskVars
<1>3. Writing
  BY <1>1 DEF Writing
<1>4. /\ img \in 1 .. Len(Info) /\ Position
      /\ \A j \in 1 .. Len(Info) : j > img => Pending(Info[j])
      /\ \A j \in 1 .. Len(Info) : j < img => Finished(Info[j])
  BY <1>1 DEF OtaInv, Downloading
<1>5. /\ TempLen \in HdrLen .. Layout[file].end /\ (OtaFg => ~IncFg)
      /\ HdrLen \in Nat /\ Layout[file].end \in Nat
  <2>1. file \in Known
    BY <1>3, TargetFacts
  <2> QED  BY <1>4, <2>1, ImageFacts, Numbers DEF Position, Slots
<1>6. \E n, pos : /\ pos \in HdrLen .. Layout[file].end
                  /\ OtaFg => n \in Nat /\ n >= 1 /\ pos = TempLen + n
                  /\ Consume(file, Info[img], n, pos)
  <2>1. CASE IncFg /\ Consume(file, Info[img], read_bytes_buf, TempLen)
    BY <1>5, <2>1
  <2>2. CASE \E n \in 1 .. Min({BufSize, Layout[file].end - TempLen}) :
                Consume(file, Info[img], n, TempLen + n)
    <3>1. PICK n \in 1 .. Min({BufSize, Layout[file].end - TempLen}) :
                Consume(file, Info[img], n, TempLen + n)
      BY <2>2
    <3>2. /\ Min({BufSize, Layout[file].end - TempLen}) \in Int
          /\ Min({BufSize, Layout[file].end - TempLen}) <= Layout[file].end - TempLen
      BY <1>5, Numbers, MinOfTwo
    <3>3. n \in Nat /\ n >= 1 /\ TempLen + n \in HdrLen .. Layout[file].end
      BY <1>5, <3>2
    <3> QED  BY <3>1, <3>3
  <2> QED
    BY <1>1, <2>1, <2>2 DEF DownloadPacket
<1>7. PICK n, pos : /\ pos \in HdrLen .. Layout[file].end
                    /\ OtaFg => n \in Nat /\ n >= 1 /\ pos = TempLen + n
                    /\ Consume(file, Info[img], n, pos)
  BY <1>6
<1>8. /\ Position' /\ Written(Info[img], size)' /\ Blank(Info[img], size)' /\ Info' = Info
      /\ \A k \in 0 .. (SigCnt' - 1) : signature'[k] = <<file, Target.off + k>>
      /\ DOMAIN signature' = 0 .. (SigLen - 1) /\ SigCnt' \in 0 .. SigLen
      /\ OtaFg' \in BOOLEAN /\ IncFg' \in BOOLEAN
      /\ Info[img].ImgId # "OTA" => SigCnt' = SigCnt
      /\ DOMAIN flash' = Cells
  BY <1>1, <1>2, <1>7, ConsumeStep
<1>9. \A c \in Cells : \/ flash'[c] = flash[c]
                       \/ /\ \E k \in 0 .. (Info[img].ImageLen - 1) : c = Info[img].FlashAddr + k
                          /\ flash'[c][1] \in Known
  BY <1>1, <1>2, <1>7, ConsumeStep
<1>10. \A c \in Cells : Reach(c) \/ flash'[c] = flash[c]
  BY <1>3, <1>4, <1>9, EntryFacts
<1>11. Boots' /\ Addresses' /\ Unharmed
  BY <1>1, <1>3, <1>10, RunningKept
<1>12. \A k \in 0 .. (SigLen - 1) : flash'[NewImg2Addr + k] = Erased
  <2> SUFFICES ASSUME NEW k \in 0 .. (SigLen - 1) PROVE flash'[NewImg2Addr + k] = Erased
    OBVIOUS
  <2>1. flash[NewImg2Addr + k] = Erased
    BY <1>1 DEF OtaInv, Unsigned
  <2>2. k \in Int /\ k >= 0 /\ k < Target.len /\ NewImg2Addr \in Nat /\ k < SigLen /\ SigLen \in Nat
    BY <1>3, TargetFacts, Numbers
  <2>3. NewImg2Addr + k \in Cells
    BY <1>3, <2>2, TargetCells
  <2>4. ASSUME NEW m \in 0 .. (Info[img].ImageLen - 1), NewImg2Addr + k = Info[img].FlashAddr + m
        PROVE  FALSE
    <3>1. Info[img].FlashAddr + m >= NewImg2Addr + SigLen
      BY <1>3, <1>4, EntryFacts
    <3> QED  BY <2>2, <2>4, <3>1
  <2> QED  BY <1>9, <2>1, <2>3, <2>4
<1>13. Sound' /\ ~Signed(ota_target_index)'
  BY <1>1, <1>2, <1>3, <1>11, <1>12, NotSigned, SoundTarget
<1>14. TypeInv'
  <2>1. \A c \in Cells : flash'[c] = Erased \/ flash'[c][1] \in Known
    BY <1>9 DEF OtaInv, TypeInv
  <2> QED
    BY <1>1, <1>2, <1>8, <2>1 DEF OtaInv, TypeInv, taskVars, memVars
<1>15. ASSUME NEW j \in 1 .. Len(Info), j # img
       PROVE  /\ \A k \in 0 .. (Info[j].ImageLen - 1) :
                    flash'[Info[j].FlashAddr + k] = flash[Info[j].FlashAddr + k]
              /\ Info[j].ImgId = "OTA" => SigCnt' = SigCnt
  <2>1. ASSUME NEW k \in 0 .. (Info[j].ImageLen - 1)
        PROVE  flash'[Info[j].FlashAddr + k] = flash[Info[j].FlashAddr + k]
    <3>1. Info[j].FlashAddr + k \in Cells
      BY <1>3, EntryFacts
    <3>2. \A m \in 0 .. (Info[img].ImageLen - 1) : Info[j].FlashAddr + k # Info[img].FlashAddr + m
      BY <1>3, <1>4, <1>15, EntriesApart
    <3> QED  BY <1>9, <3>1, <3>2
  <2>2. Info[j].ImgId # Info[img].ImgId
    <3>1. file \in Known /\ ota_target_index \in Slots /\ NewImg2Addr \in Nat
      BY <1>3, TargetFacts
    <3> QED  BY <1>4, <1>15, <3>1, InfoEntries DEF Info
  <2> QED  BY <1>8, <2>1, <2>2
<1>16. ASSUME NEW j \in 1 .. Len(Info), j > img PROVE Pending(Info[j])'
  <2>1. j # img
    BY <1>4, <1>16
  <2>2. Blank(Info[j], 0) /\ (Info[j].ImgId = "OTA" => SigCnt = 0)
    BY <1>4, <1>16 DEF Pending
  <2>3. Blank(Info[j], 0)'
    BY <1>8, <1>15, <2>1, <2>2 DEF Blank
  <2> QED  BY <1>8, <1>15, <2>1, <2>2, <2>3 DEF Pending
<1>17. ASSUME NEW j \in 1 .. Len(Info), j < img PROVE Finished(Info[j])'
  <2>1. j # img
    BY <1>4, <1>17
  <2>2. Written(Info[j], Info[j].ImageLen)' <=> Written(Info[j], Info[j].ImageLen)
    BY <1>2, <1>8, <1>15, <2>1 DEF Written, Base
  <2>3. Finished(Info[j])
    BY <1>4, <1>17
  <2> QED  BY <1>2, <1>8, <1>15, <2>1, <2>2, <2>3 DEF Finished
<1>18. Downloading'
  <2>1. Target' = Target
    BY <1>2 DEF Target
  <2> QED
    BY <1>2, <1>4, <1>8, <1>16, <1>17, <2>1 DEF Downloading
<1>19. Task' /\ Place'
  BY <1>1, <1>2 DEF OtaInv, Task, Place, Writing, Target, Split, Addr, Other
<1>20. Unsigned' /\ Erasing' /\ DownloadExact' /\ Signing' /\ Done'
  BY <1>1, <1>2, <1>12 DEF Unsigned, Erasing, DownloadExact, Signing, Done
<1>21. Ready'
  BY <1>1, Waiting DEF Ready
<1> QED
  BY <1>11, <1>13, <1>14, <1>18, <1>19, <1>20, <1>21 DEF OtaInv

(* The loop goes on to the next image, or ends, with the current one       *)
(* finished.                                                               *)
LEMMA ImageEndInv == OtaInv /\ DownloadImageEnd => OtaInv'
<1> SUFFICES ASSUME OtaInv, DownloadImageEnd PROVE OtaInv'
  OBVIOUS
<1>1. /\ pc = "download" /\ NextImage(Info)
      /\ (RemainBytes <= 0 /\ eof' = eof) \/ eof' = TRUE
      /\ pc' = IF img < Len(Info) THEN pc
               ELSE IF OtaImgSize' = Layout[file].img[ota_target_index].len - SigLen
                    THEN "verify" ELSE "failed"
      /\ UNCHANGED <<ota2_addr, ValidIMG2, taskVars, memVars, running, restart, console>>
  BY DEF DownloadImageEnd
<1>2. /\ OtaImgSize' = IF Info[img].ImgId = "OTA" THEN size ELSE OtaImgSize
      /\ size' = 0 /\ OtaFg' = FALSE /\ IncFg' = TRUE
      /\ img' = IF img < Len(Info) THEN img + 1 ELSE img
      /\ RemainBytes' = Info[img'].ImageLen
      /\ UNCHANGED <<flash, TempLen, SigCnt, signature>>
      /\ UNCHANGED <<file, NewImg2Addr, ota_target_index, ota2_addr, running, restart>>
  BY <1>1 DEF NextImage, taskVars
<1>3. Writing
  BY <1>1 DEF Writing
<1>4. /\ img \in 1 .. Len(Info) /\ Position
      /\ Written(Info[img], size)
      /\ \A j \in 1 .. Len(Info) : j > img => Pending(Info[j])
      /\ \A j \in 1 .. Len(Info) : j < img => Finished(Info[j])
      /\ \A k \in 0 .. (SigCnt - 1) : signature[k] = <<file, Target.off + k>>
  BY <1>1 DEF OtaInv, Downloading
<1>5. Info' = Info /\ Target' = Target
  BY <1>2 DEF Info, Target
<1>6. Len(Info) \in Nat /\ Len(Info) >= 1 /\ img \in Nat /\ img <= Len(Info)
  <2>1. file \in Known /\ ota_target_index \in Slots /\ NewImg2Addr \in Nat
    BY <1>3, TargetFacts
  <2>2. Len(Info) \in Nat /\ Len(Info) >= 1
    BY <2>1, InfoEntries DEF Info
  <2> QED  BY <1>4, <2>2
<1>7. \A d, n : Written(d, n)' <=> Written(d, n)
  BY <1>2 DEF Written, Base
<1>8. \A d, n : Blank(d, n)' <=> Blank(d, n)
  BY <1>2 DEF Blank
<1>9. ASSUME NEW i \in 1 .. Len(Info), i = img
      PROVE  Finished(Info[i])'
  <2> DEFINE d == Info[i]
  <2>1. /\ d.ImageLen \in Nat /\ (d.ImgId = "OTA" => d.ImageLen > 0)
        /\ SigCnt \in 0 .. SigLen /\ SigLen \in Nat
    <3>1. d.ImageLen \in Nat /\ (d.ImgId = "OTA" => d.ImageLen = Target.len - SigLen)
      BY <1>3, EntryFacts
    <3>2. Target.len \in Nat /\ Target.len > SigLen /\ SigLen \in Nat
      BY <1>3, TargetFacts, Numbers
    <3>3. SigCnt \in 0 .. SigLen
      BY DEF OtaInv, TypeInv
    <3> HIDE DEF d
    <3> QED  BY <3>1, <3>2, <3>3
  <2>2. /\ RemainBytes \in Int
        /\ RemainBytes >= 0 => size = d.ImageLen - RemainBytes
        /\ RemainBytes < 0 => size = d.ImageLen
        /\ d.ImgId = "OTA" => (SigCnt < SigLen => RemainBytes = d.ImageLen)
    BY <1>4, <1>9 DEF Position
  <2>3. Written(d, size) /\ (d.ImgId = "OTA" => OtaImgSize' = size)
    BY <1>2, <1>4, <1>9
  <2>4. ASSUME d.ImgId = "OTA", OtaImgSize' = d.ImageLen
        PROVE  size = d.ImageLen /\ SigCnt' = SigLen
    <3> HIDE DEF d
    <3>1. size = d.ImageLen
      BY <2>3, <2>4
    <3>2. SigCnt = SigLen
      BY <2>1, <2>2, <2>4, <3>1
    <3> QED  BY <1>2, <3>1, <3>2
  <2>5. ASSUME eof' # TRUE PROVE size = d.ImageLen
    <3> HIDE DEF d
    <3>1. RemainBytes <= 0
      BY <1>1, <2>5
    <3> QED  BY <2>1, <2>2, <3>1
  <2>6. eof' \in BOOLEAN
    BY <1>1 DEF OtaInv, TypeInv
  <2>7. size = d.ImageLen => Written(Info[i], Info[i].ImageLen)'
    BY <1>5, <1>7, <2>3
  <2> QED
    BY <1>5, <2>4, <2>5, <2>6, <2>7 DEF Finished
<1>10. ASSUME NEW j \in 1 .. Len(Info), j <= img
       PROVE  Finished(Info[j])'
  <2>1. CASE j = img
    BY <1>9, <2>1
  <2>2. CASE j # img
    <3>1. Finished(Info[j])
      BY <1>4, <1>6, <1>10, <2>2
    <3>2. Info[j].ImgId = "OTA" => OtaImgSize' = OtaImgSize
      <4>1. file \in Known /\ ota_target_index \in Slots /\ NewImg2Addr \in Nat
        BY <1>3, TargetFacts
      <4>2. Info[j].ImgId # Info[img].ImgId
        BY <1>4, <2>2, <4>1, InfoEntries DEF Info
      <4> QED  BY <1>2, <4>2
    <3>3. eof => eof'
      BY <1>1
    <3> QED
      BY <1>2, <1>5, <1>7, <3>1, <3>2, <3>3 DEF Finished
  <2> QED  BY <2>1, <2>2
<1>11. Boots' /\ Sound' /\ Addresses'
  BY <1>2, <1>3, SlotsKept
<1>12. TypeInv'
  <2>1. OtaFg' \in BOOLEAN /\ IncFg' \in BOOLEAN /\ eof' \in BOOLEAN
    BY <1>1, <1>2 DEF OtaInv, TypeInv
  <2>2. pc' \in {"download", "verify", "failed"}
    BY <1>1
  <2> QED
    BY <1>1, <1>2, <2>1, <2>2 DEF OtaInv, TypeInv, taskVars, memVars
<1>13. Task' /\ Place'
  BY <1>1, <1>2 DEF OtaInv, Task, Place, Writing, Target, Split, Addr, Other
<1>14. Unsigned' /\ Erasing' /\ Signing' /\ Done'
  BY <1>1, <1>2 DEF OtaInv, Unsigned, Erasing, Signing, Done
<1>15. Ready'
  BY <1>1, <1>2, <1>3, Waiting, TargetFacts DEF Ready
<1>16. Downloading'
  <2> SUFFICES ASSUME img < Len(Info) PROVE Downloading'
    BY <1>1 DEF Downloading
  <2>1. /\ img' = img + 1 /\ img' \in 1 .. Len(Info) /\ img' > img
    BY <1>2, <1>6
  <2>2. PICK i \in 1 .. Len(Info) : i = img'
    BY <2>1
  <2>3. Pending(Info[i])
    BY <1>4, <2>1, <2>2
  <2>4. Info[i].ImageLen \in Nat
    BY <1>3, EntryFacts
  <2>5. Position'
    <3>1. /\ TempLen' \in HdrLen .. Layout[file].end /\ file' = file
      BY <1>2, <1>4 DEF Position
    <3>2. Info[i].ImgId = "OTA" => SigCnt' = 0
      BY <1>2, <2>3 DEF Pending
    <3>3. RemainBytes' = Info[i].ImageLen
      BY <1>2, <2>2
    <3>4. Info[img]' = Info[i]
      BY <1>5, <2>2
    <3>5. OtaFg' = FALSE /\ size' = 0
      BY <1>2
    <3> QED
      BY <2>4, <3>1, <3>2, <3>3, <3>4, <3>5 DEF Position
  <2>6. Written(Info[i], 0)' /\ Blank(Info[i], 0)'
    <3>1. Blank(Info[i], 0)
      BY <2>3 DEF Pending
    <3>2. Blank(Info[i], 0)'
      BY <1>5, <1>8, <3>1
    <3> QED  BY <3>2 DEF Written
  <2>7. ASSUME NEW j \in 1 .. Len(Info), j > img' PROVE Pending(Info[j])'
    <3>1. Pending(Info[j])
      BY <1>4, <1>6, <2>1, <2>7
    <3> QED  BY <1>2, <1>5, <1>8, <3>1 DEF Pending
  <2>8. ASSUME NEW j \in 1 .. Len(Info), j < img' PROVE Finished(Info[j])'
    BY <1>6, <1>10, <2>1, <2>8
  <2>9. Written(Info[img], size)' /\ Blank(Info[img], size)'
    BY <1>2, <2>2, <2>6
  <2> QED
    BY <1>2, <1>4, <1>5, <2>1, <2>5, <2>7, <2>8, <2>9 DEF Downloading
<1>17. DownloadExact'
  <2> SUFFICES ASSUME pc' = "verify"
               PROVE  /\ Stored(file, ota_target_index, NewImg2Addr, SigLen, Target.len)'
                      /\ \A k \in DOMAIN signature' : signature'[k] = <<file, Target.off + k>>
                      /\ eof' \/ RdpStored(file)'
    BY <1>2, <1>5 DEF DownloadExact, Target
  <2>1. ~(img < Len(Info)) /\ OtaImgSize' = Target.len - SigLen
    BY <1>1 DEF Target
  <2>2. \A j \in 1 .. Len(Info) : Finished(Info[j])'
    BY <1>6, <1>10, <2>1
  <2>3. /\ file \in Known /\ ota_target_index \in Slots /\ NewImg2Addr \in Nat
        /\ Target.len \in Nat /\ Target.len > SigLen /\ SigLen \in Nat /\ Target.off \in Nat
    BY <1>3, TargetFacts, Numbers
  <2>4. PICK j \in 1 .. Len(Info) : OtaEntry(Info[j], file, ota_target_index, NewImg2Addr)
    BY <2>3, InfoEntries DEF Info
  <2>5. /\ Info[j].ImgId = "OTA" /\ Info[j].FlashAddr = NewImg2Addr + SigLen
        /\ Info[j].ImageLen = Target.len - SigLen /\ Info[j].ImgOffset = Target.off
    BY <2>4 DEF OtaEntry, Target
  <2>6. Written(Info[j], Info[j].ImageLen) /\ SigCnt = SigLen
    BY <1>2, <1>5, <1>7, <2>1, <2>2, <2>5 DEF Finished
  <2>7. ASSUME NEW k \in SigLen .. (Target.len - 1)
        PROVE  NewImg2Addr + k \in Cells /\ flash[NewImg2Addr + k] = <<file, Target.off + k>>
    <3>1. NewImg2Addr + k \in Cells
      BY <1>3, <2>3, TargetCells
    <3>2. k - SigLen \in 0 .. (Info[j].ImageLen - 1)
      BY <2>3, <2>5
    <3>3. flash[Info[j].FlashAddr + (k - SigLen)] = <<file, Base(Info[j]) + (k - SigLen)>>
      BY <2>6, <3>2 DEF Written
    <3>4. Info[j].FlashAddr + (k - SigLen) = NewImg2Addr + k
      BY <2>3, <2>5
    <3>5. Base(Info[j]) + (k - SigLen) = Target.off + k
      <4>1. Base(Info[j]) = Target.off + SigLen
        BY <2>5 DEF Base
      <4> QED  BY <2>3, <4>1
    <3> QED  BY <3>1, <3>3, <3>4, <3>5
  <2>8. Stored(file, ota_target_index, NewImg2Addr, SigLen, Target.len)'
    BY <1>2, <1>5, <2>7 DEF Stored, Target
  <2>9. \A k \in DOMAIN signature' : signature'[k] = <<file, Target.off + k>>
    BY <1>2, <1>4, <2>6 DEF OtaInv, TypeInv
  <2>10. ASSUME eof' # TRUE PROVE RdpStored(file)'
    <3>1. CASE Layout[file].rdp = <<>>
      BY <1>2, <3>1 DEF RdpStored
    <3>2. CASE Layout[file].rdp # <<>>
      <4>1. PICK r \in 1 .. Len(Info) : RdpEntry(Info[r], file)
        BY <2>3, <3>2, InfoEntries DEF Info
      <4>2. eof' \in BOOLEAN
        BY <1>1 DEF OtaInv, TypeInv
      <4>3. Written(Info[r], Info[r].ImageLen)
        BY <1>5, <1>7, <2>2, <2>10, <4>1, <4>2 DEF Finished, RdpEntry
      <4>4. \A m \in DOMAIN Layout[file].rdp : m = 1
        <5> DEFINE x == Layout[file].rdp[1]
        <5>1. DOMAIN <<x>> = {1}
          OBVIOUS
        <5>2. Layout[file].rdp = <<x>>
          BY <2>3, <3>2, RdpFacts
        <5> HIDE DEF x
        <5> QED  BY <5>1, <5>2
      <4>5. Layout[file].rdp[1].off \in Nat
        BY <2>3, <3>2, RdpFacts
      <4>6. ASSUME NEW k \in 0 .. (Layout[file].rdp[1].len - 1)
            PROVE  flash[RdpAddr + k] = <<file, Layout[file].rdp[1].off + k>>
        <5>1. Base(Info[r]) = Layout[file].rdp[1].off + 0
          BY <4>1 DEF Base, RdpEntry
        <5>2. Base(Info[r]) = Layout[file].rdp[1].off
          BY <5>1, <4>5
        <5> QED  BY <4>1, <4>3, <5>2 DEF Written, RdpEntry
      <4> QED  BY <1>2, <4>4, <4>6 DEF RdpStored
    <3> QED  BY <3>1, <3>2
  <2>11. eof' \in BOOLEAN
    BY <1>1 DEF OtaInv, TypeInv
  <2> QED  BY <2>8, <2>9, <2>10, <2>11
<1> QED
  BY <1>11, <1>12, <1>13, <1>14, <1>15, <1>16, <1>17 DEF OtaInv

-----------------------------------------------------------------------------
(* Every step keeps the invariant.                                         *)
LEMMA NextInv == OtaInv /\ [OtaNext]_otaVars => OtaInv'
<1> SUFFICES ASSUME OtaInv, [OtaNext]_otaVars PROVE OtaInv'
  OBVIOUS
<1>1. CASE update_ota_local
  BY <1>1, StartInv
<1>2. CASE UpdateStep
  BY <1>2, PrepareInv, AddressInv, EraseInv, EraseRdpInv, ImageEndInv, DownloadInv,
     VerifyInv, ClearInv, SignInv, ChangeInv, ExitInv DEF UpdateStep
<1>3. CASE ota_platform_reset \/ PowerLoss
  BY <1>3, RebootInv DEF ota_platform_reset, PowerLoss
<1>4. CASE SwitchBegin \/ SwitchWrite \/ cmd_ota_image
  BY <1>4, ConsoleInv
<1>5. CASE UNCHANGED otaVars
  <2>1. UNCHANGED <<flash, ota2_addr, dlVars, taskVars, memVars, running, restart, pc>>
    BY <1>5 DEF otaVars, persistent
  <2>2. TypeInv'
    BY <1>5 DEF otaVars, persistent, dlVars, taskVars, memVars, OtaInv, TypeInv
  <2> QED  BY <2>1, <2>2, TaskKept DEF OtaInv
<1> QED
  BY <1>1, <1>2, <1>3, <1>4, <1>5 DEF OtaNext

(* The invariant that all the results below rest on.                       *)
THEOREM OtaInvariant == OtaSpec => []OtaInv
BY InitInv, NextInv, PTL DEF OtaSpec

(* The types: every word in flash is one of a known file or erased, never  *)
(* one that was programmed twice, and the loop of                          *)
(* download_new_fw_from_server stays inside the file and inside the image. *)
THEOREM TypeCorrect == OtaSpec => []OtaTypeOK
<1>1. OtaInv => OtaTypeOK
  <2> SUFFICES ASSUME OtaInv PROVE OtaTypeOK
    OBVIOUS
  <2>1. pc = "download" => TempLen \in HdrLen .. Layout[file].end /\ size \in 0 .. Info[img].ImageLen
    BY DEF OtaInv, Downloading, Position
  <2>2. console \in -1 .. Bits
    BY Numbers DEF OtaInv, TypeInv
  <2> QED
    BY <2>1, <2>2 DEF OtaInv, TypeInv, OtaTypeOK
<1> QED
  BY <1>1, OtaInvariant, PTL

(* A slot with a signature holds one whole, correct image, whatever the    *)
(* files, their layout and the moment power was lost.                      *)
THEOREM SignedSlotsAreWhole == OtaSpec => []SignedIsWhole
<1>1. OtaInv => SignedIsWhole
  BY HeldIsWhole DEF OtaInv, Sound, SignedIsWhole, Signed
<1> QED
  BY <1>1, OtaInvariant, PTL

(* A download of the right size has programmed exactly the image and kept  *)
(* exactly its signature, however the stream was cut into packets.         *)
THEOREM DownloadIsExact == OtaSpec => []DownloadExact
BY OtaInvariant, PTL DEF OtaInv

(* After an update the slot to restart into is signed and whole, if no     *)
(* update is started while the restart is under way.                       *)
THEOREM RestartIsReady == ~Impatient => (OtaSpec => []RestartReady)
<1> SUFFICES ASSUME ~Impatient PROVE OtaSpec => []RestartReady
  OBVIOUS
<1>1. OtaInv => RestartReady
  BY HeldIsWhole DEF OtaInv, TypeInv, Sound, Ready, RestartReady, Signed
<1> QED
  BY <1>1, OtaInvariant, PTL

(* The choice of the boot loader does not depend on where in               *)
(* sys_clear_ota_signature power is lost: erasing ValidIMG2 keeps its      *)
(* parity.                                                                 *)
THEOREM SwitchAtomic == OtaSpec => SwitchIsAtomic
<1>1. OtaInv /\ [OtaNext]_otaVars => [(console' # -1 /\ pc # "sign") => Choice' = Choice]_otaVars
  <2> SUFFICES ASSUME OtaInv, OtaNext, console' # -1, pc # "sign"
               PROVE  Choice' = Choice
    OBVIOUS
  <2>1. CASE SwitchBegin
    <3>1. Bits % 2 = 0 /\ 0 % 2 = 0
      BY Numbers
    <3>2. ValidIMG2' % 2 = ValidIMG2 % 2
      BY <2>1, <3>1 DEF SwitchBegin
    <3> QED  BY <3>2 DEF Choice
  <2>2. CASE ~SwitchBegin
    <3>1. ValidIMG2' = ValidIMG2
      BY <2>2 DEF OtaNext, update_ota_local, UpdateStep, Connect, Header, get_ota_address,
         erase_ota_target_flash, EraseRdp, DownloadError, DownloadImageEnd, Download,
         verify_ota_checksum, ClearSignature, WriteSignature, change_ota_signature,
         UpdateExit, ota_platform_reset, PowerLoss, Reboot, SwitchWrite, cmd_ota_image,
         persistent
    <3> QED  BY <3>1 DEF Choice
  <2> QED  BY <2>1, <2>2
<1> QED
  BY <1>1, OtaInvariant, PTL DEF OtaSpec, SwitchIsAtomic

-----------------------------------------------------------------------------
(* The refinement of SlotStore.  A slot shows the image it holds: the word *)
(* at its address tells which one that is.                                 *)
LEMMA SlotView ==
    ASSUME NEW i \in Slots, NEW f \in Known
    PROVE  OtaInv => /\ HasAddr(i) /\ Holds(f, i) => SlotImage(i) = f
                     /\ ~Signed(i) => SlotImage(i) = "empty"
                     /\ Signed(i) => \E g \in Known : SlotImage(i) = g /\ Holds(g, i)
<1> SUFFICES ASSUME OtaInv
             PROVE  /\ HasAddr(i) /\ Holds(f, i) => SlotImage(i) = f
                    /\ ~Signed(i) => SlotImage(i) = "empty"
                    /\ Signed(i) => \E g \in Known : SlotImage(i) = g /\ Holds(g, i)
  OBVIOUS
<1>1. ASSUME NEW g \in Known, HasAddr(i), Holds(g, i)
      PROVE  SlotImage(i) = g
  <2> DEFINE P(h) == Layout[h].good /\ Stored(h, i, Addr(i), 0, Layout[h].img[i].len)
  <2>1. Signed(i) /\ Whole(i)
    BY <1>1, HeldIsSigned, HeldIsWhole
  <2>2. P(g)
    BY <1>1 DEF Holds
  <2>3. ASSUME NEW h \in Known, P(h) PROVE h = g
    <3>1. 0 \in 0 .. (Layout[h].img[i].len - 1) /\ 0 \in 0 .. (Layout[g].img[i].len - 1)
      BY ImageFacts, Numbers
    <3>2. /\ flash[Addr(i) + 0] = <<h, Layout[h].img[i].off + 0>>
          /\ flash[Addr(i) + 0] = <<g, Layout[g].img[i].off + 0>>
      BY <2>2, <2>3, <3>1 DEF Stored
    <3> QED  BY <3>2
  <2>4. (CHOOSE h \in Known : P(h)) = g
    <3> HIDE DEF P
    <3> QED  BY <2>2, <2>3
  <2> QED  BY <2>1, <2>4 DEF SlotImage
<1>2. ~Signed(i) => SlotImage(i) = "empty"
  BY DEF SlotImage
<1>3. Signed(i) => \E g \in Known : SlotImage(i) = g /\ Holds(g, i)
  BY <1>1 DEF OtaInv, Sound, Signed
<1> QED
  BY <1>1, <1>2, <1>3

(* What the abstract store sees in slot i after a step.                    *)
LEMMA SlotViewNext ==
    ASSUME NEW i \in Slots, NEW f \in Known
    PROVE  OtaInv' => /\ HasAddr(i)' /\ Holds(f, i)' => SlotImage(i)' = f
                      /\ ~Signed(i)' => SlotImage(i)' = "empty"
                      /\ Signed(i)' => \E g \in Known : SlotImage(i)' = g /\ Holds(g, i)'
<1>1. OtaInv => /\ HasAddr(i) /\ Holds(f, i) => SlotImage(i) = f
                /\ ~Signed(i) => SlotImage(i) = "empty"
                /\ Signed(i) => \E g \in Known : SlotImage(i) = g /\ Holds(g, i)
  BY SlotView
<1>2. (OtaInv => /\ HasAddr(i) /\ Holds(f, i) => SlotImage(i) = f
                 /\ ~Signed(i) => SlotImage(i) = "empty"
                 /\ Signed(i) => \E g \in Known : SlotImage(i) = g /\ Holds(g, i))'
  BY <1>1, PTL
<1> QED
  BY <1>2

(* A step that touches neither flash nor addresses does not show in the    *)
(* slots.                                                                  *)
LEMMA SlotsSame ==
    ASSUME OtaInv, OtaInv', NEW i \in Slots,
           Signed(i)' <=> Signed(i), \A f : Holds(f, i) => Holds(f, i)'
    PROVE  SlotImage(i)' = SlotImage(i)
<1>1. CASE Signed(i)
  <2>0. Factory \in Known
    BY DEF Known
  <2>1. PICK g \in Known : SlotImage(i) = g /\ Holds(g, i)
    BY <1>1, <2>0, SlotView
  <2>2. HasAddr(i)' /\ Holds(g, i)'
    BY <1>1, <2>1 DEF Signed
  <2> QED  BY <2>1, <2>2, SlotViewNext
<1>2. CASE ~Signed(i)
  <2>1. \E f : f \in Known
    BY DEF Known
  <2> QED  BY <1>2, <2>1, SlotView, SlotViewNext
<1> QED
  BY <1>1, <1>2

(* The state of SlotStore that a state of the update shows.                *)
slotbar == [i \in Slots |-> SlotImage(i)]

(* The store does not change when flash does not.                          *)
LEMMA SlotsSameAll ==
    ASSUME OtaInv, OtaInv', flash' = flash, ota2_addr' = ota2_addr
    PROVE  slotbar' = slotbar
<1>1. ASSUME NEW i \in Slots PROVE SlotImage(i)' = SlotImage(i)
  BY SameSlots, SlotsSame
<1> QED
  BY <1>1 DEF slotbar

(* A step that writes to flash leaves the running slot alone.              *)
LEMMA RunningSame ==
    ASSUME OtaInv, OtaInv', Unharmed, running' = running, NEW i \in Slots, i = running
    PROVE  SlotImage(i)' = SlotImage(i)
<1>1. PICK f \in Known : Holds(f, running) /\ Holds(f, running)'
  BY DEF Unharmed
<1>2. HasAddr(i) /\ HasAddr(i)' /\ Holds(f, i) /\ Holds(f, i)'
  BY <1>1 DEF OtaInv, Boots
<1> QED
  BY <1>2, SlotView, SlotViewNext

(* The store does not change when slot 2 is given its default address:     *)
(* before, no slot 2 could be signed.                                      *)
LEMMA AddressSame ==
    ASSUME OtaInv, OtaInv', get_ota_address
    PROVE  slotbar' = slotbar
<1>1. flash' = flash /\ ota2_addr' = IF ota2_addr = Unset THEN Ota2Default ELSE ota2_addr
  BY DEF get_ota_address
<1>2. CASE ota2_addr # Unset
  BY <1>1, <1>2, SlotsSameAll
<1>3. CASE ota2_addr = Unset
  <2>1. SlotImage(1)' = SlotImage(1)
    <3>1. /\ Signed(1)' <=> Signed(1)
          /\ \A f : Holds(f, 1) => Holds(f, 1)'
      BY <1>1 DEF Signed, Holds, Stored, Addr, HasAddr
    <3> QED  BY <3>1, SlotsSame DEF Slots
  <2>2. ~Signed(2)
    BY <1>3 DEF Signed, HasAddr
  <2>3. ~Signed(2)'
    <3> SUFFICES ASSUME Signed(2)' PROVE FALSE
      OBVIOUS
    <3>1. flash = FactoryFlash
      BY <1>3, OtaUpdateAssumption DEF OtaInv, Addresses, Split
    <3>2. PICK f \in Known : Addr(2)' \in Cells /\ flash'[Addr(2)'] = <<f, Layout[f].img[2].off>>
      BY FirstWordNext DEF Slots, OtaInv, TypeInv
    <3> QED  BY <1>1, <3>1, <3>2, FactoryWords
  <2>4. SlotImage(2)' = SlotImage(2)
    <3>1. \E f : f \in Known
      BY DEF Known
    <3> QED  BY <2>2, <2>3, <3>1, SlotView, SlotViewNext DEF Slots
  <2> QED
    BY <2>1, <2>4 DEF slotbar, Slots
<1> QED
  BY <1>2, <1>3

(* The boot choice is one of the slots.                                    *)
LEMMA ChoiceSlot == Choice \in {1, 2} /\ Choice' \in {1, 2}
BY DEF Choice

(* The device as it was sold is an initial state of the store.             *)
LEMMA StoreInit == OtaInit => Store!SlotInit
<1> SUFFICES ASSUME OtaInit PROVE Store!SlotInit
  OBVIOUS
<1>1. OtaInv /\ running = 1 /\ flash = FactoryFlash
  BY InitInv DEF OtaInit, FactoryFlash
<1>2. Choice = 1
  <2>1. 0 % 2 = 0
    OBVIOUS
  <2> QED  BY <2>1 DEF OtaInit, Choice
<1>3. slotbar[1] \in Known
  <2>1. Signed(1) /\ 1 \in Slots
    BY <1>1, RunningSigned DEF OtaInv, Slots
  <2>2. \E f : f \in Known
    BY DEF Known
  <2> QED  BY <1>1, <2>1, <2>2, SlotView DEF slotbar
<1>4. slotbar[2] = "empty"
  <2>1. ~Signed(2)
    <3> SUFFICES ASSUME Signed(2) PROVE FALSE
      OBVIOUS
    <3> QED  BY <1>1, FirstWord, FactoryWords DEF OtaInv, TypeInv, Slots
  <2>2. \E f : f \in Known
    BY DEF Known
  <2> QED  BY <1>1, <2>1, <2>2, SlotView DEF slotbar, Slots
<1> QED
  BY <1>1, <1>2, <1>3, <1>4 DEF Store!SlotInit, slotbar

(* A step that harms the other slot only and leaves it unsigned empties    *)
(* it.                                                                     *)
LEMMA DiscardStep ==
    ASSUME OtaInv, OtaInv', Unharmed, ~Signed(ota_target_index)', pc # "none",
           UNCHANGED <<running, ValidIMG2, ota_target_index>>
    PROVE  Store!Discard
<1>1. /\ running \in Slots /\ ota_target_index = Other(running) /\ ota_target_index \in Slots
  BY DEF OtaInv, TypeInv, Task, Slots, Other
<1>2. PICK r \in Slots, t \in Slots : r = running /\ t = ota_target_index
  BY <1>1
<1>3. SlotImage(r)' = SlotImage(r)
  BY <1>2, RunningSame
<1>4. SlotImage(t)' = "empty"
  <2>1. ~Signed(t)'
    BY <1>2
  <2>2. \E f : f \in Known
    BY DEF Known
  <2> QED  BY <2>1, <2>2, SlotViewNext
<1>5. slotbar' = [slotbar EXCEPT ![Other(running)] = "empty"]
  <2>1. \A i \in Slots : i = r \/ i = t
    BY <1>1, <1>2 DEF Slots, Other
  <2>2. r # t
    BY <1>1, <1>2 DEF Slots, Other
  <2> QED  BY <1>1, <1>2, <1>3, <1>4, <2>1, <2>2 DEF slotbar
<1>6. Choice' = Choice
  BY DEF Choice
<1> QED
  BY <1>5, <1>6 DEF Store!Discard, Store!Spare, slotbar, Other

(* Writing the signature installs the image with its last word and changes *)
(* nothing before.                                                         *)
LEMMA SignStep ==
    ASSUME OtaInv, OtaInv', WriteSignature, Unharmed
    PROVE  Store!Install \/ UNCHANGED Store!slotVars
<1>1. /\ pc = "sign" /\ running' = running /\ ValidIMG2' = ValidIMG2
      /\ ota_target_index' = ota_target_index
  BY DEF WriteSignature, taskVars
<1>2. Writing
  BY <1>1 DEF Writing
<1>3. /\ running \in Slots /\ ota_target_index = Other(running) /\ ota_target_index \in Slots
      /\ NewImg2Addr = Addr(ota_target_index)
  BY <1>2, TargetFacts
<1>4. PICK r \in Slots, t \in Slots : r = running /\ t = ota_target_index
  BY <1>3
<1>5. SlotImage(r)' = SlotImage(r)
  BY <1>1, <1>4, RunningSame
<1>6. ~Signed(t)
  <2> SUFFICES ASSUME Signed(t) PROVE FALSE
    OBVIOUS
  <2>1. PICK k \in 0 .. (SigLen - 1) : flash[NewImg2Addr + k] # signature[k]
    BY DEF WriteSignature, OtaInv, TypeInv
  <2>2. flash[NewImg2Addr + k] = Erased
    BY <1>1, <2>1 DEF OtaInv, Signing
  <2>3. PICK f \in Known : flash[NewImg2Addr + k] = <<f, Layout[f].img[t].off + k>>
    BY <1>3, <1>4 DEF Signed
  <2> QED  BY <2>2, <2>3, WordsDiffer
<1>7. Factory \in Known
  BY DEF Known
<1>8. SlotImage(t) = "empty"
  BY <1>6, <1>7, SlotView
<1>9. Choice' = Choice
  BY <1>1 DEF Choice
<1>10. /\ \A i \in Slots : i = r \/ i = t
       /\ r # t
  BY <1>3, <1>4 DEF Slots, Other
<1>11. CASE Signed(t)'
  <2>1. PICK g \in Known : SlotImage(t)' = g
    BY <1>7, <1>11, SlotViewNext
  <2>2. slotbar' = [slotbar EXCEPT ![Other(running)] = g] /\ slotbar[Other(running)] = "empty"
    BY <1>3, <1>4, <1>5, <1>8, <1>10, <2>1 DEF slotbar
  <2>3. Store!Install
    BY <1>1, <1>9, <2>2 DEF Store!Install, Store!Spare, slotbar, Other
  <2> QED  BY <2>3
<1>12. CASE ~Signed(t)'
  <2>1. SlotImage(t)' = "empty"
    BY <1>7, <1>12, SlotViewNext
  <2>2. slotbar' = slotbar
    BY <1>5, <1>8, <1>10, <2>1 DEF slotbar
  <2> QED
    BY <1>1, <1>9, <2>2 DEF Store!slotVars, slotbar
<1> QED
  BY <1>11, <1>12

(* A reboot restarts the store.                                            *)
LEMMA RestartStep ==
    ASSUME OtaInv, OtaInv', Reboot
    PROVE  Store!Restart
<1>1. flash' = flash /\ ota2_addr' = ota2_addr /\ ValidIMG2' = ValidIMG2 /\ running' = BootImage
  BY DEF Reboot, persistent
<1>2. slotbar' = slotbar /\ Choice' = Choice
  BY <1>1, SlotsSameAll DEF Choice
<1>3. \A i \in Slots : (slotbar[i] # "empty" <=> Signed(i)) /\ (Signed(i) => slotbar[i] \in Known)
  <2>1. Factory \in Known
    BY DEF Known
  <2> QED  BY <2>1, SlotView, OtaUpdateAssumption DEF slotbar
<1>4. Signed(running) /\ running \in Slots /\ Choice \in Slots /\ Other(Choice) \in Slots
  BY RunningSigned DEF OtaInv, TypeInv, Choice, Slots, Other
<1>5. running = Choice \/ running = Other(Choice)
  BY <1>4 DEF Slots, Other
<1>6. running' = (IF slotbar[Choice] # "empty" THEN Choice ELSE Other(Choice)) /\ Signed(running')
  BY <1>1, <1>3, <1>4, <1>5 DEF BootImage
<1>7. running' \in Slots
  BY DEF OtaInv, TypeInv
<1>8. slotbar[running'] \in Known
  BY <1>3, <1>6, <1>7
<1> QED
  BY <1>2, <1>6, <1>8 DEF Store!Restart, Store!Spare, slotbar, Other

(* Every step is a step of the store or leaves it alone.                   *)
LEMMA StoreStep ==
    OtaInv /\ OtaInv' /\ [OtaNext]_otaVars => [Store!SlotNext]_(Store!slotVars)
<1> SUFFICES ASSUME OtaInv, OtaInv', [OtaNext]_otaVars
             PROVE  Store!SlotNext \/ UNCHANGED Store!slotVars
  BY DEF Store!slotVars
<1>1. CASE flash' = flash /\ ota2_addr' = ota2_addr /\ running' = running
  <2>1. slotbar' = slotbar /\ Choice' \in {1, 2}
    BY <1>1, SlotsSameAll, ChoiceSlot
  <2>2. Store!Select
    BY <1>1, <2>1 DEF Store!Select, slotbar
  <2> QED  BY <2>2 DEF Store!SlotNext
<1>2. CASE get_ota_address
  <2>1. slotbar' = slotbar
    BY <1>2, AddressSame
  <2>2. running' = running /\ Choice' = Choice
    BY <1>2 DEF get_ota_address, Choice
  <2> QED  BY <2>1, <2>2 DEF Store!slotVars, slotbar
<1>3. CASE erase_ota_target_flash \/ EraseRdp \/ Download \/ ClearSignature
  <2>1. Unharmed /\ ~Signed(ota_target_index)'
    BY <1>3, EraseInv, EraseRdpInv, DownloadInv, ClearInv
  <2>2. pc # "none" /\ UNCHANGED <<running, ValidIMG2, ota_target_index>>
    BY <1>3 DEF erase_ota_target_flash, EraseRdp, Download, ClearSignature, taskVars
  <2> QED  BY <2>1, <2>2, DiscardStep DEF Store!SlotNext
<1>4. CASE WriteSignature
  BY <1>4, SignInv, SignStep DEF Store!SlotNext
<1>5. CASE Reboot
  BY <1>5, RestartStep DEF Store!SlotNext
<1>6. ASSUME update_ota_local \/ Connect \/ Header \/ DownloadError \/ DownloadImageEnd
             \/ verify_ota_checksum \/ change_ota_signature \/ UpdateExit
             \/ SwitchBegin \/ SwitchWrite \/ cmd_ota_image \/ UNCHANGED otaVars
      PROVE  flash' = flash /\ ota2_addr' = ota2_addr /\ running' = running
  BY <1>6 DEF update_ota_local, Connect, Header, DownloadError, DownloadImageEnd, NextImage,
     verify_ota_checksum, change_ota_signature, UpdateExit, SwitchBegin, SwitchWrite,
     cmd_ota_image, otaVars, persistent
<1> QED
  BY <1>1, <1>2, <1>3, <1>4, <1>5, <1>6 DEF OtaNext, UpdateStep, ota_platform_reset, PowerLoss

(* The update task, the console and the boot loader, with power lost       *)
(* between any two flash operations, implement the store of whole images:  *)
(* the running slot never changes, the other one is emptied and filled in  *)
(* single steps, and every restart runs a whole image.                     *)
THEOREM UpdateImplementsSlotStore == OtaSpec => ImplementsSlotStore
<1>1. OtaInv /\ OtaInv' /\ [OtaNext]_otaVars => [Store!SlotNext]_(Store!slotVars)
  BY StoreStep
<1> QED
  BY <1>1, StoreInit, OtaInvariant, PTL DEF OtaSpec, ImplementsSlotStore, Store!SlotSpec
=============================================================================
