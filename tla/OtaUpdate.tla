------------------------------ MODULE OtaUpdate ------------------------------
(***************************************************************************)
(* Over-the-air update (component/soc/realtek/8711b/misc/rtl8710b_ota.c)   *)
(* and the choice of the image to boot (mbed/targets/hal/rtl8711b/         *)
(* sys_api.c), with power loss between any two flash operations.           *)
(*                                                                         *)
(* Flash holds two image slots.  The update task erases the slot that does *)
(* not run, downloads the image without its signature, verifies it, writes *)
(* the signature, changes the boot choice and restarts.  The boot loader   *)
(* is external: it boots the chosen slot if that is signed, else the other *)
(* one.                                                                    *)
(***************************************************************************)
EXTENDS OtaDownload

CONSTANTS
    Ota1Addr,       \* OTA1_ADDR
    Ota2Default,    \* OTA2_DEFAULT_ADDR
    Unset,          \* the system data zone holds no OTA2 address
    Ota2Addrs,      \* what the system data zone may hold at first
    Bits,           \* bits of ValidIMG2 (32)
    Impatient       \* an update may be started while a restart is under way

Known == Files \cup {Factory}

ASSUME OtaUpdateAssumption ==
    /\ Ota1Addr \in Cells /\ Ota1Addr % SectorSize = 0 /\ Ota2Default \in Cells
    /\ Layout[Factory].good /\ Layout[Factory].img[1].at = Ota1Addr
    /\ Unset \notin Cells /\ Ota2Addrs \subseteq Cells \cup {Unset}
    /\ Bits \in Nat \ {0} /\ Bits % 2 = 0
    /\ Impatient \in BOOLEAN
    /\ {"empty", "broken"} \cap Known = {}

VARIABLES
    ota2_addr,      \* first word of the system data zone
    ValidIMG2,      \* its second word: how many bits are cleared, from bit 0
    running,        \* slot the processor runs from, 0: nothing to boot
    restart,        \* slot whose update is done and waits for the reset, or 0
    pc,             \* step of the update task ("none": TaskOTA is NULL)
    ota_target_index, file, NewImg2Addr,
    blk,            \* sectors erased
    alloc,          \* its buffer: "null", "held" or "freed"
    heap_fault,     \* a buffer was freed twice
    console         \* ValidIMG2 as sys_clear_ota_signature read it, or -1

persistent == <<flash, ota2_addr, ValidIMG2>>
taskVars == <<ota_target_index, file, NewImg2Addr, blk>>
memVars == <<alloc, heap_fault>>
otaVars == <<persistent, dlVars, taskVars, memVars, running, restart, pc, console>>

Slots == {1, 2}
Other(i) == 3 - i
Addr(i) == IF i = 1 THEN Ota1Addr ELSE ota2_addr
HasAddr(i) == i = 1 \/ ota2_addr # Unset

(* The slot's signature is in place.                                       *)
Signed(i) ==
    HasAddr(i) /\ \A k \in 0 .. (SigLen - 1) :
        /\ Addr(i) + k \in Cells
        /\ \E f \in Known : flash[Addr(i) + k] = <<f, Layout[f].img[i].off + k>>

(* Words from .. n - 1 of the image for slot i in file f are at address a. *)
Stored(f, i, a, from, n) ==
    \A k \in from .. (n - 1) : a + k \in Cells /\ flash[a + k] = <<f, Layout[f].img[i].off + k>>

(* The slot holds one complete, correct image.                             *)
Whole(i) ==
    HasAddr(i) /\ \E f \in Known :
        Layout[f].good /\ Stored(f, i, Addr(i), 0, Layout[f].img[i].len)

RdpStored(f) ==
    \A j \in DOMAIN Layout[f].rdp : \A k \in 0 .. (Layout[f].rdp[j].len - 1) :
        flash[RdpAddr + k] = <<f, Layout[f].rdp[j].off + k>>

(* OTA_Change and the boot loader agree that every bit cleared switches    *)
(* between the slots.                                                      *)
Choice == IF ValidIMG2 % 2 = 0 THEN 1 ELSE 2

BootImage ==
    IF Signed(Choice) THEN Choice
    ELSE IF Signed(Other(Choice)) THEN Other(Choice) ELSE 0

OTA_Change(i) ==
    ValidIMG2' = IF Choice = i THEN ValidIMG2
                 ELSE IF ValidIMG2 = Bits THEN 1 ELSE ValidIMG2 + 1

-----------------------------------------------------------------------------
(* Mutant: the slot that the boot choice does not name is overwritten.     *)
update_ota_local_choice ==
    /\ pc = "none" /\ running # 0 /\ console = -1
    /\ restart = 0 \/ Impatient
    /\ pc' = "connect"
    /\ ota_target_index' = Other(Choice)
    /\ UNCHANGED <<persistent, dlVars, file, NewImg2Addr, blk, memVars, running,
                   restart, console>>

(* cmd_update, update_ota_local.                                           *)
update_ota_local ==
    /\ pc = "none" /\ running # 0 /\ console = -1
    /\ restart = 0 \/ Impatient
    /\ pc' = "connect"
    /\ ota_target_index' = Other(running)
    /\ UNCHANGED <<persistent, dlVars, file, NewImg2Addr, blk, memVars, running,
                   restart, console>>

(* Step 1: a buffer and a connection.                                      *)
Connect ==
    /\ pc = "connect"
    /\ \/ alloc' = "null" /\ pc' = "failed"
       \/ alloc' = "held" /\ pc' \in {"failed", "header"}
    /\ UNCHANGED <<persistent, dlVars, taskVars, heap_fault, running, restart, console>>

(* Steps 2 and 3: recv_ota_file_hdr and get_ota_tartget_header fail or     *)
(* find the target's image in the header; the buffer is freed.             *)
Header ==
    /\ pc = "header"
    /\ \/ /\ pc' = "failed"
          /\ UNCHANGED <<file, alloc>>
       \/ /\ file' \in Files
          /\ alloc' = "freed"
          /\ pc' = "address"
    /\ UNCHANGED <<persistent, dlVars, ota_target_index, NewImg2Addr, blk,
                   heap_fault, running, restart, console>>

(* The checks of get_ota_address with slot 2 at a2: aligned, outside the   *)
(* image in slot 1, large enough a slot 1, and where the file says.        *)
AddressFits(a2) ==
    LET i == Layout[file].img[ota_target_index]
        run == Layout[flash[Ota1Addr][1]].img[1]
    IN  /\ a2 % SectorSize = 0
        /\ ota_target_index = 2 => a2 >= Ota1Addr + run.len
        /\ ota_target_index = 1 => i.len <= a2 - Ota1Addr
        /\ i.at = IF ota_target_index = 2 THEN a2 ELSE Ota1Addr

(* get_ota_address; ota_write_ota2_addr if there is none yet.              *)
get_ota_address ==
    /\ pc = "address"
    /\ ota2_addr' = IF ota2_addr = Unset THEN Ota2Default ELSE ota2_addr
    /\ \/ /\ AddressFits(ota2_addr')
          /\ NewImg2Addr' = Layout[file].img[ota_target_index].at
          /\ blk' = 0
          /\ pc' = "erase"
       \/ /\ ~AddressFits(ota2_addr')
          /\ pc' = "failed"
          /\ UNCHANGED <<NewImg2Addr, blk>>
    /\ UNCHANGED <<flash, ValidIMG2, dlVars, ota_target_index, file, memVars, running,
                   restart, console>>

NewImg2BlkSize == ((Layout[file].img[ota_target_index].len - 1) \div SectorSize) + 1

(* Mutant: the last sector goes first.                                     *)
erase_ota_target_flash_down ==
    /\ pc = "erase" /\ blk < NewImg2BlkSize
    /\ flash' = flash_erase_sector(NewImg2Addr + (NewImg2BlkSize - 1 - blk) * SectorSize)
    /\ blk' = blk + 1
    /\ UNCHANGED <<ota2_addr, ValidIMG2, dlVars, ota_target_index, file, NewImg2Addr,
                   memVars, running, restart, pc, console>>

(* Step 4, one sector of erase_ota_target_flash: from the signature up.    *)
erase_ota_target_flash ==
    /\ pc = "erase" /\ blk < NewImg2BlkSize
    /\ flash' = flash_erase_sector(NewImg2Addr + blk * SectorSize)
    /\ blk' = blk + 1
    /\ UNCHANGED <<ota2_addr, ValidIMG2, dlVars, ota_target_index, file, NewImg2Addr,
                   memVars, running, restart, pc, console>>

(* The RDP sector is erased if the file has an RDP image, and the download *)
(* starts.                                                                 *)
EraseRdp ==
    /\ pc = "erase" /\ blk = NewImg2BlkSize
    /\ flash' = IF Layout[file].rdp = <<>> THEN flash ELSE flash_erase_sector(RdpAddr)
    /\ DownloadInit(file, ota_target_index, NewImg2Addr)
    /\ pc' = "download"
    /\ UNCHANGED <<ota2_addr, ValidIMG2, taskVars, memVars, running, restart, console>>

Info == DownloadInfo(file, ota_target_index, NewImg2Addr)

(* Step 5: a packet arrives.                                               *)
Download ==
    /\ pc = "download"
    /\ DownloadPacket(file, Info[img])
    /\ UNCHANGED <<ota2_addr, ValidIMG2, taskVars, memVars, running, restart, pc, console>>

(* An image ends, or the stream does; after the last one the size decides. *)
DownloadImageEnd ==
    /\ pc = "download"
    /\ \/ RemainBytes <= 0 /\ UNCHANGED eof
       \/ DownloadEof /\ eof' = TRUE
    /\ NextImage(Info)
    /\ pc' = IF img < Len(Info) THEN pc
             ELSE IF OtaImgSize' = Layout[file].img[ota_target_index].len - SigLen
                  THEN "verify" ELSE "failed"
    /\ UNCHANGED <<ota2_addr, ValidIMG2, taskVars, memVars, running, restart, console>>

(* read() fails.                                                           *)
DownloadError ==
    /\ pc = "download" /\ DownloadEof
    /\ pc' = "failed"
    /\ UNCHANGED <<persistent, dlVars, taskVars, memVars, running, restart, console>>

(* The sums over the words in flash and the signature are those of the     *)
(* file's header.                                                          *)
ChecksumsMatch ==
    LET i == Layout[file].img[ota_target_index]
    IN  /\ Layout[file].good
        /\ Stored(file, ota_target_index, NewImg2Addr, SigLen, i.len)
        /\ \A k \in DOMAIN signature : signature[k] = <<file, i.off + k>>
        /\ RdpStored(file)

(* Mutant: the task restarts the device whatever the checksum says.        *)
verify_ota_checksum_ignored ==
    /\ pc = "verify"
    /\ pc' = IF ChecksumsMatch THEN "sign" ELSE "done"
    /\ UNCHANGED <<persistent, dlVars, taskVars, memVars, running, restart, console>>

(* Step 6: verify_ota_checksum.                                            *)
verify_ota_checksum ==
    /\ pc = "verify"
    /\ pc' = IF ChecksumsMatch THEN "sign" ELSE "clear"
    /\ UNCHANGED <<persistent, dlVars, taskVars, memVars, running, restart, console>>

(* A wrong checksum: the sector of the signature is erased again.          *)
ClearSignature ==
    /\ pc = "clear"
    /\ flash' = flash_erase_sector(NewImg2Addr)
    /\ pc' = "failed"
    /\ UNCHANGED <<ota2_addr, ValidIMG2, dlVars, taskVars, memVars, running, restart, console>>

(* change_ota_signature: the signature is written word by word, then the   *)
(* boot choice changes.                                                    *)
WriteSignature ==
    /\ pc = "sign"
    /\ \E k \in DOMAIN signature :
        /\ flash[NewImg2Addr + k] # signature[k]
        /\ \A j \in 0 .. (k - 1) : flash[NewImg2Addr + j] = signature[j]
        /\ flash' = [flash EXCEPT ![NewImg2Addr + k] = Program(@, signature[k])]
    /\ UNCHANGED <<ota2_addr, ValidIMG2, dlVars, taskVars, memVars, running, restart, pc,
                   console>>

change_ota_signature ==
    /\ pc = "sign"
    /\ \A k \in DOMAIN signature : flash[NewImg2Addr + k] = signature[k]
    /\ OTA_Change(ota_target_index)
    /\ pc' = "done"
    /\ UNCHANGED <<flash, ota2_addr, dlVars, taskVars, memVars, running, restart, console>>

(* The task's local variables are gone.                                    *)
ForgetTask ==
    /\ file' = NoFile /\ ota_target_index' = 0 /\ NewImg2Addr' = 0 /\ blk' = 0
    /\ img' = 1 /\ TempLen' = 0 /\ RemainBytes' = 0 /\ size' = 0 /\ OtaFg' = FALSE
    /\ SigCnt' = 0 /\ IncFg' = FALSE /\ read_bytes_buf' = 0 /\ OtaImgSize' = -1
    /\ signature' = [k \in 0 .. (SigLen - 1) |-> Erased] /\ eof' = FALSE
    /\ alloc' = "null"

(* update_ota_exit: the buffer is freed, TaskOTA becomes NULL and, after a *)
(* success, the reset is only 100 ms away.                                 *)
UpdateExit ==
    /\ pc \in {"done", "failed"}
    /\ heap_fault' = (heap_fault \/ alloc = "freed")
    /\ restart' = IF pc = "done" THEN ota_target_index ELSE restart
    /\ pc' = "none"
    /\ ForgetTask
    /\ UNCHANGED <<persistent, running, console>>

-----------------------------------------------------------------------------
(* A reset, asked for or not: memory is lost, flash is not.                *)
Reboot ==
    /\ running # 0
    /\ running' = BootImage
    /\ restart' = 0 /\ pc' = "none" /\ console' = -1 /\ heap_fault' = FALSE
    /\ ForgetTask
    /\ UNCHANGED persistent

ota_platform_reset == restart # 0 /\ Reboot

PowerLoss == Reboot

(* Mutant: the word is erased while it still has a bit to clear.           *)
SwitchBegin_early ==
    /\ running # 0 /\ console = -1
    /\ Signed(1) /\ Signed(2)
    /\ ValidIMG2' = IF ValidIMG2 >= Bits - 1 THEN 0 ELSE ValidIMG2
    /\ console' = ValidIMG2'
    /\ UNCHANGED <<flash, ota2_addr, dlVars, taskVars, memVars, running, restart, pc>>

(* sys_clear_ota_signature on the console's task, without the flash lock:  *)
(* if both slots are signed ValidIMG2 is read and, if all its bits are     *)
(* cleared, erased first.                                                  *)
SwitchBegin ==
    /\ running # 0 /\ console = -1
    /\ Signed(1) /\ Signed(2)
    /\ ValidIMG2' = IF ValidIMG2 = Bits THEN 0 ELSE ValidIMG2
    /\ console' = ValidIMG2'
    /\ UNCHANGED <<flash, ota2_addr, dlVars, taskVars, memVars, running, restart, pc>>

(* The next bit is cleared.                                                *)
SwitchWrite ==
    /\ console # -1
    /\ ValidIMG2' = Max({ValidIMG2, console + 1})
    /\ console' = -1
    /\ UNCHANGED <<flash, ota2_addr, dlVars, taskVars, memVars, running, restart, pc>>

(* ATSC, ATSY: the choice is set whether the slot holds an image or not.   *)
cmd_ota_image ==
    /\ running # 0 /\ console = -1
    /\ \E i \in Slots : OTA_Change(i)
    /\ UNCHANGED <<flash, ota2_addr, dlVars, taskVars, memVars, running, restart, pc, console>>

-----------------------------------------------------------------------------
(* Slot 1 holds the factory image, slot 2 nothing.                         *)
OtaInit ==
    /\ flash = [c \in Cells |->
                    IF c - Ota1Addr \in 0 .. (Layout[Factory].img[1].len - 1)
                    THEN <<Factory, Layout[Factory].img[1].off + c - Ota1Addr>> ELSE Erased]
    /\ ota2_addr \in Ota2Addrs
    /\ ValidIMG2 = 0 /\ running = 1 /\ restart = 0 /\ pc = "none" /\ console = -1
    /\ file = NoFile /\ ota_target_index = 0 /\ NewImg2Addr = 0 /\ blk = 0
    /\ img = 1 /\ TempLen = 0 /\ RemainBytes = 0 /\ size = 0 /\ OtaFg = FALSE
    /\ SigCnt = 0 /\ IncFg = FALSE /\ read_bytes_buf = 0 /\ OtaImgSize = -1
    /\ signature = [k \in 0 .. (SigLen - 1) |-> Erased] /\ eof = FALSE
    /\ alloc = "null" /\ heap_fault = FALSE

UpdateStep ==
    \/ Connect \/ Header \/ get_ota_address
    \/ erase_ota_target_flash \/ EraseRdp
    \/ DownloadError \/ DownloadImageEnd \/ Download
    \/ verify_ota_checksum \/ ClearSignature \/ WriteSignature \/ change_ota_signature
    \/ UpdateExit

OtaNext ==
    \/ update_ota_local
    \/ UpdateStep
    \/ ota_platform_reset
    \/ PowerLoss
    \/ SwitchBegin \/ SwitchWrite \/ cmd_ota_image

(* The task runs on, and every read() returns: the server sends or closes. *)
OtaSpec == OtaInit /\ [][OtaNext]_otaVars /\ WF_otaVars(UpdateStep)

-----------------------------------------------------------------------------
(* Types; no word is programmed twice, and no more than the image has.     *)
OtaTypeOK ==
    /\ DOMAIN flash = Cells
    /\ \A c \in Cells : flash[c] = Erased \/ flash[c][1] \in Known
    /\ ota2_addr \in Cells \cup {Unset} /\ ValidIMG2 \in 0 .. Bits
    /\ running \in Slots \cup {0} /\ restart \in Slots \cup {0}
    /\ pc \in {"none", "connect", "header", "address", "erase", "download", "verify",
               "clear", "sign", "done", "failed"}
    /\ ota_target_index \in Slots \cup {0} /\ file \in Files \cup {NoFile}
    /\ NewImg2Addr \in Cells /\ console \in -1 .. Bits
    /\ alloc \in {"null", "held", "freed"} /\ heap_fault \in BOOLEAN
    /\ SigCnt \in 0 .. SigLen /\ OtaFg \in BOOLEAN /\ IncFg \in BOOLEAN /\ eof \in BOOLEAN
    /\ pc = "download" => /\ TempLen \in HdrLen .. Layout[file].end
                          /\ size \in 0 .. Info[img].ImageLen

(* A slot that carries a signature holds one complete and correct image,   *)
(* wherever power was lost while it was erased, programmed or signed: the  *)
(* boot loader cannot be misled.                                           *)
SignedIsWhole == \A i \in Slots : Signed(i) => Whole(i)

(* However the server's stream is cut into packets and wherever the images *)
(* lie in the file, a download of the right size has programmed exactly    *)
(* the target's image and kept exactly its signature.                      *)
DownloadExact ==
    pc = "verify" =>
        LET i == Layout[file].img[ota_target_index]
        IN  /\ Stored(file, ota_target_index, NewImg2Addr, SigLen, i.len)
            /\ \A k \in DOMAIN signature : signature[k] = <<file, i.off + k>>
            /\ eof \/ RdpStored(file)

(* When the device is about to restart after an update, the updated slot   *)
(* can be booted.                                                          *)
RestartReady == restart # 0 => Signed(restart) /\ Whole(restart)

(* While sys_clear_ota_signature is between the erasure of ValidIMG2 and   *)
(* its last write, the boot choice is the old one: power loss there does   *)
(* not switch the image.                                                   *)
SwitchIsAtomic == [][(console' # -1 /\ pc # "sign") => Choice' = Choice]_otaVars

(* Every update ends: the loop that cuts the stream into images makes      *)
(* progress with every packet.                                             *)
UpdateEnds == pc # "none" ~> pc = "none"

(* The slots as the boot loader sees them: without a signature a slot is   *)
(* empty, with one it holds the image it is the signature of; a signature  *)
(* over anything else is no image at all.                                  *)
SlotImage(i) ==
    IF ~Signed(i) THEN "empty"
    ELSE IF Whole(i)
         THEN CHOOSE f \in Known :
                Layout[f].good /\ Stored(f, i, Addr(i), 0, Layout[f].img[i].len)
         ELSE "broken"

Store == INSTANCE SlotStore WITH
    Images <- Known, Empty <- "empty",
    slot <- [i \in Slots |-> SlotImage(i)], active <- running, chosen <- Choice

(* The update task and the boot choice, with power lost between any two    *)
(* flash operations, implement a store of whole images: the slot that runs *)
(* never changes, the other one is emptied and filled in single steps, and *)
(* every restart runs a whole image, the chosen one if there is one.       *)
ImplementsSlotStore == Store!SlotSpec

(* No block is freed twice: vPortFree asserts that it is allocated.        *)
NoDoubleFree == ~heap_fault
=============================================================================
