----------------------------- MODULE OtaDownload -----------------------------
(***************************************************************************)
(* download_new_fw_from_server: the firmware file arrives as a TCP stream  *)
(* cut into packets of any size; the image for one slot, and the RDP image *)
(* if the file has one, are cut out of it and programmed into flash.  The  *)
(* image's first SigLen words, its signature, are held back.               *)
(* (component/soc/realtek/8711b/misc/rtl8710b_ota.c)                       *)
(*                                                                         *)
(* A word of a file is the pair of the file and its position in it.        *)
(***************************************************************************)
EXTENDS Integers, Sequences, FiniteSetsExt

CONSTANTS
    Files,          \* firmware files a server may send
    Factory,        \* the file the device was flashed with
    NoFile,
    Layout,         \* of each file, see LayoutOK
    HdrLen,         \* length of a file's header
    SigLen,         \* length of the signature (8 bytes)
    BufSize,        \* BUF_SIZE (512)
    SectorSize,     \* 4096
    FlashSize,
    RdpAddr         \* RDP_FLASH_ADDR

Cells == 0 .. (FlashSize - 1)

(* Two images do not overlap in the file.                                  *)
Apart(x, y) == x.off + x.len <= y.off \/ y.off + y.len <= x.off

(* An image has a place in the file and, but for the RDP image, one in     *)
(* flash below the RDP sector; rdp is a sequence of at most one image that *)
(* fits its sector; a bad file does not match its checksum.                *)
LayoutOK(l) ==
    /\ l.good \in BOOLEAN /\ l.end \in Nat
    /\ l.rdp = <<>> \/ l.rdp = <<l.rdp[1]>>
    /\ \A x \in {l.img[1], l.img[2]} \cup {l.rdp[k] : k \in DOMAIN l.rdp} :
            x.off \in Nat /\ x.len \in Nat /\ x.off >= HdrLen /\ x.off + x.len <= l.end
    /\ Apart(l.img[1], l.img[2])
    /\ \A k \in DOMAIN l.rdp :
            /\ l.rdp[k].len <= SectorSize
            /\ Apart(l.rdp[k], l.img[1]) /\ Apart(l.rdp[k], l.img[2])
    /\ \A i \in {1, 2} :
            /\ l.img[i].len > SigLen
            /\ l.img[i].at \in Nat /\ l.img[i].at + l.img[i].len <= RdpAddr

ASSUME OtaDownloadAssumption ==
    /\ {HdrLen, SigLen, BufSize, SectorSize, FlashSize} \subseteq Nat \ {0}
    /\ SigLen <= SectorSize
    /\ Factory \notin Files /\ NoFile \notin Files \cup {Factory}
    /\ {"ff", "junk"} \cap (Files \cup {Factory}) = {}
    /\ DOMAIN Layout = Files \cup {Factory}
    /\ RdpAddr \in Nat /\ RdpAddr % SectorSize = 0 /\ RdpAddr + SectorSize <= FlashSize
    /\ \A f \in Files \cup {Factory} : LayoutOK(Layout[f])

VARIABLES
    flash,          \* word at each address
    img,            \* index of the image in DownloadInfo
    TempLen,        \* position in the stream
    RemainBytes, size, OtaFg, SigCnt, IncFg, read_bytes_buf, OtaImgSize,
    signature,      \* words held back
    eof             \* the server has closed the connection

dlVars == <<img, TempLen, RemainBytes, size, OtaFg, SigCnt, IncFg,
            read_bytes_buf, OtaImgSize, signature, eof>>

Erased == <<"ff", 0>>
Junk == <<"junk", 0>>

(* Programming flash clears bits only.                                     *)
Program(old, new) == IF old = Erased \/ old = new THEN new ELSE Junk

flash_stream_write(a, n, f, pos) ==
    [c \in Cells |-> IF c \in a .. (a + n - 1) THEN Program(flash[c], <<f, pos + c - a>>)
                     ELSE flash[c]]

flash_erase_sector(a) ==
    [c \in Cells |-> IF c \div SectorSize = a \div SectorSize THEN Erased ELSE flash[c]]

(* The images to cut out of file f for slot t at address a, in file order. *)
DownloadInfo(f, t, a) ==
    LET i == Layout[f].img[t]
        o == [ImgId |-> "OTA", FlashAddr |-> a + SigLen, ImageLen |-> i.len - SigLen,
              ImgOffset |-> i.off]
        R == [k \in DOMAIN Layout[f].rdp |->
                [ImgId |-> "RDP", FlashAddr |-> RdpAddr, ImageLen |-> Layout[f].rdp[k].len,
                 ImgOffset |-> Layout[f].rdp[k].off]]
    IN  IF R # <<>> /\ R[1].ImgOffset <= i.off THEN Append(R, o) ELSE <<o>> \o R

-----------------------------------------------------------------------------
DownloadInit(f, t, a) ==
    /\ img' = 1 /\ RemainBytes' = DownloadInfo(f, t, a)[1].ImageLen
    /\ TempLen' = HdrLen
    /\ size' = 0 /\ OtaFg' = FALSE /\ SigCnt' = 0 /\ IncFg' = FALSE
    /\ read_bytes_buf' = 0 /\ OtaImgSize' = -1
    /\ signature' = [k \in 0 .. (SigLen - 1) |-> Erased]
    /\ eof' = FALSE

(* Mutant: only the first packet of an image is searched for its signature. *)
Payload_first(d, n, pos) ==
    LET TempCnt == pos - d.ImgOffset
        start == IF OtaFg THEN pos - n ELSE d.ImgOffset
        cnt == IF OtaFg THEN n ELSE TempCnt
        sig == IF d.ImgId = "OTA" /\ ~OtaFg THEN Min({SigLen, cnt}) ELSE 0
    IN  [start |-> start, sig |-> sig, cnt |-> cnt - sig]

(* Of a packet of n words that ends at position pos of the stream: where   *)
(* the words of image d start in it, how many belong to the signature and  *)
(* how many are left.  In its first packet the image starts at its offset, *)
(* in a later one at the packet's start.                                   *)
Payload(d, n, pos) ==
    LET TempCnt == pos - d.ImgOffset
        start == IF OtaFg THEN pos - n ELSE d.ImgOffset
        cnt == IF OtaFg THEN n ELSE TempCnt
        sig == IF d.ImgId = "OTA" THEN Min({SigLen - SigCnt, cnt}) ELSE 0
    IN  [start |-> start, sig |-> sig, cnt |-> cnt - sig]

(* Mutant: the end of the image is not looked for in the packet.           *)
Consume_untrimmed(f, d, n, pos) ==
    /\ TempLen' = pos /\ read_bytes_buf' = n /\ IncFg' = FALSE
    /\ IF pos <= d.ImgOffset
       THEN UNCHANGED <<flash, RemainBytes, size, OtaFg, SigCnt, signature>>
       ELSE LET p == Payload(d, n, pos) IN
            /\ OtaFg' = TRUE
            /\ SigCnt' = SigCnt + p.sig
            /\ signature' = [k \in DOMAIN signature |->
                                IF k \in SigCnt .. (SigCnt + p.sig - 1)
                                THEN <<f, p.start + k - SigCnt>> ELSE signature[k]]
            /\ RemainBytes' = RemainBytes - p.cnt
            /\ flash' = flash_stream_write(d.FlashAddr + size, p.cnt, f, p.start + p.sig)
            /\ size' = size + p.cnt

(* Mutant: a packet read for one image is handed to the next again and     *)
(* again.                                                                  *)
Consume_again(f, d, n, pos) ==
    /\ TempLen' = pos /\ read_bytes_buf' = n /\ UNCHANGED IncFg
    /\ IF pos <= d.ImgOffset
       THEN UNCHANGED <<flash, RemainBytes, size, OtaFg, SigCnt, signature>>
       ELSE LET p == Payload(d, n, pos)
                w == Min({p.cnt, RemainBytes}) IN
            /\ OtaFg' = TRUE
            /\ SigCnt' = SigCnt + p.sig
            /\ signature' = [k \in DOMAIN signature |->
                                IF k \in SigCnt .. (SigCnt + p.sig - 1)
                                THEN <<f, p.start + k - SigCnt>> ELSE signature[k]]
            /\ RemainBytes' = RemainBytes - p.cnt
            /\ flash' = flash_stream_write(d.FlashAddr + size, w, f, p.start + p.sig)
            /\ size' = size + w

(* A packet of n words that ends at position pos: skipped up to the image, *)
(* then its signature words are kept and the others programmed, as many as *)
(* the image has.                                                          *)
Consume(f, d, n, pos) ==
    /\ TempLen' = pos /\ read_bytes_buf' = n /\ IncFg' = FALSE
    /\ IF pos <= d.ImgOffset
       THEN UNCHANGED <<flash, RemainBytes, size, OtaFg, SigCnt, signature>>
       ELSE LET p == Payload(d, n, pos)
                w == Min({p.cnt, RemainBytes}) IN
            /\ OtaFg' = TRUE
            /\ SigCnt' = SigCnt + p.sig
            /\ signature' = [k \in DOMAIN signature |->
                                IF k \in SigCnt .. (SigCnt + p.sig - 1)
                                THEN <<f, p.start + k - SigCnt>> ELSE signature[k]]
            /\ RemainBytes' = RemainBytes - p.cnt
            /\ flash' = flash_stream_write(d.FlashAddr + size, w, f, p.start + p.sig)
            /\ size' = size + w

(* One round of the loop: the packet the last image ended in is looked at  *)
(* again, or a packet is read.                                             *)
DownloadPacket(f, d) ==
    /\ RemainBytes > 0
    /\ \/ IncFg /\ Consume(f, d, read_bytes_buf, TempLen)
       \/ /\ ~IncFg /\ ~eof
          /\ \E n \in 1 .. Min({BufSize, Layout[f].end - TempLen}) :
                Consume(f, d, n, TempLen + n)
    /\ UNCHANGED <<img, OtaImgSize, eof>>

(* read() returns 0: the server closed the connection, at the end of the   *)
(* file or before.                                                         *)
DownloadEof == RemainBytes > 0 /\ ~IncFg

(* After an image, complete or cut short by the end of the stream: on to   *)
(* the next one.                                                           *)
NextImage(Info) ==
    /\ OtaImgSize' = IF Info[img].ImgId = "OTA" THEN size ELSE OtaImgSize
    /\ size' = 0 /\ OtaFg' = FALSE /\ IncFg' = TRUE
    /\ img' = IF img < Len(Info) THEN img + 1 ELSE img
    /\ RemainBytes' = Info[img'].ImageLen
    /\ UNCHANGED <<flash, TempLen, SigCnt, read_bytes_buf, signature>>
=============================================================================
