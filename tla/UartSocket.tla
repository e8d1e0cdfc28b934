----------------------------- MODULE UartSocket -----------------------------
(***************************************************************************)
(* The UART as a socket (component/common/utilities/uart_socket.c): the    *)
(* receive interrupt fills a ring, the uart_action task announces what     *)
(* came once the line is quiet and starts the DMA of what is to be sent,   *)
(* and an application selects, reads, writes and closes, as                *)
(* uart_socket_example does.                                               *)
(*                                                                         *)
(* Only the interrupts are atomic.  Nothing else excludes anything: a step *)
(* of a task is one access to the state that is shared.  Received bytes    *)
(* and written buffers are numbered in the order they come.                *)
(***************************************************************************)
EXTENDS Integers, Sequences, SequencesExt

CONSTANTS
    RingLen,        \* UART_RECV_BUFFER_LEN
    ReadSize,       \* size the application gives to uart_read
    MaxBytes,       \* bytes that arrive (bound): then the line is quiet
    MaxWrites,      \* calls of uart_write (bound)
    MaxRefusals     \* times no DMA channel is free (bound)

ASSUME UartAssumption ==
    /\ RingLen \in Nat \ {0, 1} /\ ReadSize \in 1 .. RingLen
    /\ MaxBytes \in Nat /\ MaxWrites \in Nat /\ MaxRefusals \in Nat

VARIABLES
    app,                            \* where the application is
    act,                            \* where uart_action_handler is
    fd,                             \* u->fd is valid
    rx_start, prxread, prxwrite, rxoverlap, recv_buf,
    quiet,                          \* last_update is UART_MAX_DELAY_TIME old
    tx_start, send_buf,             \* send_buf: a written buffer, 0: zeros
    action_sema, tx_sema, dma_tx_sema,
    dma,                            \* a transfer is under way
    rcvevent,                       \* of the socket: select finds it readable
    pread_local, pwrite_local, read_bytes,
    received, written,              \* history: bytes that came, buffers taken
    got,                            \* history: bytes uart_read returned, until torn
    wire,                           \* history: buffers that were sent
    overrun,                        \* history: the interrupt moved prxread
    torn,                           \* history: it disturbed a uart_read
    refused                         \* history: DMA requests that failed

rxVars == <<rx_start, prxread, prxwrite, rxoverlap, recv_buf, quiet>>
txVars == <<tx_start, send_buf, dma>>
semaVars == <<action_sema, tx_sema, dma_tx_sema>>
readVars == <<pread_local, pwrite_local, read_bytes>>
history == <<received, written, got, wire, overrun, torn, refused>>
uartVars == <<app, act, fd, rxVars, txVars, semaVars, rcvevent, readVars, history>>

Open == app # "closed"

(* A byte of memory: what lies behind the ring is no byte that came.       *)
Byte(i) == IF i < RingLen THEN recv_buf[i] ELSE 0

(* uart_read has loaded prxread and not stored it yet.                     *)
Reading == {"pwrite", "count", "copy", "update", "overlap"}

Full == rxoverlap /\ prxread = prxwrite

-----------------------------------------------------------------------------
(* Mutant: the bound is off by one.                                        *)
Wraps_late(w) == w > RingLen

Wraps(w) == w > RingLen - 1

(* Mutant: the oldest byte is overwritten before prxread moves.            *)
PastReader_late(w) == w > prxread + 1

PastReader(w) == w + 1 > prxread

(* The action task is woken for the first byte only.                       *)
Announce ==
    IF rx_start = 0
    THEN rx_start' = 1 /\ action_sema' = action_sema + 1
    ELSE UNCHANGED <<rx_start, action_sema>>

(* uart_irq for RxIrq.                                                     *)
uart_irq ==
    /\ Open /\ received < MaxBytes
    /\ received' = received + 1
    /\ Announce
    /\ recv_buf' = [recv_buf EXCEPT ![prxwrite] = received']
    /\ LET wraps == Wraps(prxwrite + 1)
           w == IF wraps THEN 0 ELSE prxwrite + 1
           moves == (wraps \/ rxoverlap) /\ PastReader(w)
           drops == Full \/ (moves /\ prxread # w)
       IN /\ prxwrite' = w
          /\ rxoverlap' = (rxoverlap \/ wraps)
          /\ prxread' = IF moves THEN w ELSE prxread
          /\ overrun' = (overrun \/ drops)
          /\ torn' = (torn \/ (wraps /\ app \in {"count", "overlap"})
                         \/ (drops /\ app \in Reading))
    /\ got' = IF torn' THEN <<>> ELSE got
    /\ quiet' = FALSE
    /\ UNCHANGED <<app, act, fd, txVars, tx_sema, dma_tx_sema, rcvevent, readVars, written,
                   wire, refused>>

(* UART_MAX_DELAY_TIME passes without a byte.                              *)
LineQuiet ==
    /\ Open /\ ~quiet
    /\ quiet' = TRUE
    /\ UNCHANGED <<app, act, fd, rx_start, prxread, prxwrite, rxoverlap, recv_buf, txVars,
                   semaVars, rcvevent, readVars, history>>

(* Mutant: only the semaphore of the DMA is given.                         *)
BufferFreed_not == tx_sema

BufferFreed == tx_sema + 1

(* The DMA has read send_buf to its end: uart_send_stream_done.            *)
uart_send_stream_done ==
    /\ Open /\ dma
    /\ wire' = Append(wire, send_buf)
    /\ send_buf' = 0
    /\ dma' = FALSE
    /\ tx_sema' = BufferFreed
    /\ dma_tx_sema' = dma_tx_sema + 1
    /\ UNCHANGED <<app, act, fd, rxVars, tx_start, action_sema, rcvevent, readVars, received,
                   written, got, overrun, torn, refused>>

-----------------------------------------------------------------------------
(* uart_action_handler: the semaphore, the end of the task and the test of *)
(* rx_start (an interrupt between them might as well come before).         *)
ActTake ==
    /\ Open /\ act = "take" /\ action_sema > 0
    /\ action_sema' = action_sema - 1
    /\ act' = IF ~fd THEN "exit" ELSE IF rx_start = 1 THEN "wait" ELSE "tx"
    /\ UNCHANGED <<app, fd, rxVars, txVars, tx_sema, dma_tx_sema, rcvevent, readVars, history>>

(* Mutant: the difference of the two ticks is the wrong way round.         *)
RxComplete_swapped == ~quiet

RxComplete == quiet

uart_wait_rx_complete ==
    /\ Open /\ act = "wait" /\ RxComplete
    /\ act' = "event"
    /\ UNCHANGED <<app, fd, rxVars, txVars, semaVars, rcvevent, readVars, history>>

(* Mutant: select is woken, and finds no event.                            *)
lwip_setsockrcvevent_none == rcvevent

(* A socket that is closed has no event.                                   *)
lwip_setsockrcvevent == fd

(* lwip_selectevindicate, too, which wakes select to look at the event.    *)
ActEvent ==
    /\ Open /\ act = "event"
    /\ act' = "clear"
    /\ rcvevent' = lwip_setsockrcvevent
    /\ UNCHANGED <<app, fd, rxVars, txVars, semaVars, readVars, history>>

ActClear ==
    /\ Open /\ act = "clear"
    /\ act' = "tx"
    /\ rx_start' = 0
    /\ UNCHANGED <<app, fd, prxread, prxwrite, rxoverlap, recv_buf, quiet, txVars, semaVars,
                   rcvevent, readVars, history>>

ActTx ==
    /\ Open /\ act = "tx"
    /\ act' = IF tx_start = 1 THEN "send" ELSE "take"
    /\ tx_start' = 0
    /\ UNCHANGED <<app, fd, rxVars, send_buf, dma, semaVars, rcvevent, readVars, history>>

(* Mutant: the buffer is given back as soon as the transfer runs.          *)
BufferKept_not == tx_sema + 1

BufferKept == tx_sema

(* uart_send_stream: the transfer starts.                                  *)
uart_send_stream ==
    /\ Open /\ act = "send" /\ dma_tx_sema > 0
    /\ act' = "take"
    /\ dma_tx_sema' = dma_tx_sema - 1
    /\ tx_sema' = BufferKept
    /\ dma' = TRUE
    /\ UNCHANGED <<app, fd, rxVars, tx_start, send_buf, action_sema, rcvevent, readVars,
                   history>>

(* No DMA channel is free.  The first time ever serial_send_stream_dma     *)
(* says so and dma_tx_sema is given back; once a transfer has run it does  *)
(* not.  tx_sema is not given back by anyone.                              *)
SendRefused ==
    /\ Open /\ act = "send" /\ dma_tx_sema > 0 /\ refused < MaxRefusals
    /\ act' = "take"
    /\ dma_tx_sema' = IF wire = <<>> THEN dma_tx_sema ELSE dma_tx_sema - 1
    /\ refused' = refused + 1
    /\ UNCHANGED <<app, fd, rxVars, txVars, action_sema, tx_sema, rcvevent, readVars, received,
                   written, got, wire, overrun, torn>>

-----------------------------------------------------------------------------
(* uart_socket_example: select found the socket readable, so uart_read;    *)
(* prxread and prxwrite are loaded one after the other.                    *)
ReadBegin ==
    /\ app = "idle" /\ rcvevent
    /\ pread_local' = prxread
    /\ app' = "pwrite"
    /\ UNCHANGED <<act, fd, rxVars, txVars, semaVars, rcvevent, pwrite_local, read_bytes,
                   history>>

ReadWrite ==
    /\ app = "pwrite"
    /\ pwrite_local' = prxwrite
    /\ app' = "count"
    /\ UNCHANGED <<act, fd, rxVars, txVars, semaVars, rcvevent, pread_local, read_bytes,
                   history>>

Available == IF rxoverlap THEN RingLen - pread_local + pwrite_local
             ELSE pwrite_local - pread_local

(* "size < read_bytes" compares as unsigned: a negative count is large.    *)
ReadCount ==
    /\ app = "count"
    /\ read_bytes' = IF Available < 0 \/ ReadSize < Available THEN ReadSize ELSE Available
    /\ app' = "copy"
    /\ UNCHANGED <<act, fd, rxVars, txVars, semaVars, rcvevent, pread_local, pwrite_local,
                   history>>

(* The memcpy: in two parts only if rxoverlap is set (still, or by now).   *)
Copied ==
    [k \in 1 .. read_bytes |->
        LET i == pread_local + k - 1
        IN IF rxoverlap /\ i >= RingLen THEN Byte(i - RingLen) ELSE Byte(i)]

ReadCopy ==
    /\ app = "copy"
    /\ got' = IF torn THEN <<>> ELSE got \o Copied
    /\ app' = "update"
    /\ UNCHANGED <<act, fd, rxVars, txVars, semaVars, rcvevent, readVars, received, written,
                   wire, overrun, torn, refused>>

End == pread_local + read_bytes

(* uart_read returns: its locals are gone.                                 *)
Returned == pread_local' = 0 /\ pwrite_local' = 0 /\ read_bytes' = 0

(* The event is cleared, which no interrupt looks at, and prxread stored;  *)
(* then rxoverlap.                                                         *)
ReadUpdate ==
    /\ app = "update"
    /\ rcvevent' = FALSE
    /\ prxread' = IF End >= RingLen THEN End - RingLen ELSE End
    /\ app' = IF End >= RingLen THEN "overlap" ELSE "idle"
    /\ IF app' = "idle" THEN Returned ELSE UNCHANGED readVars
    /\ UNCHANGED <<act, fd, rx_start, prxwrite, rxoverlap, recv_buf, quiet, txVars, semaVars,
                   history>>

ReadOverlap ==
    /\ app = "overlap"
    /\ rxoverlap' = FALSE
    /\ app' = "idle" /\ Returned
    /\ UNCHANGED <<act, fd, rx_start, prxread, prxwrite, recv_buf, quiet, txVars, semaVars,
                   rcvevent, history>>

-----------------------------------------------------------------------------
(* uart_write is called; it takes tx_sema and copies the buffer.           *)
WriteBegin ==
    /\ app = "idle" /\ Len(written) < MaxWrites
    /\ app' = "write"
    /\ UNCHANGED <<act, fd, rxVars, txVars, semaVars, rcvevent, readVars, history>>

WriteCopy ==
    /\ app = "write" /\ tx_sema > 0
    /\ tx_sema' = tx_sema - 1
    /\ send_buf' = Len(written) + 1
    /\ written' = Append(written, send_buf')
    /\ app' = "txstart"
    /\ UNCHANGED <<act, fd, rxVars, tx_start, dma, action_sema, dma_tx_sema, rcvevent,
                   readVars, received, got, wire, overrun, torn, refused>>

WriteStart ==
    /\ app = "txstart"
    /\ tx_start' = 1
    /\ app' = "txup"
    /\ UNCHANGED <<act, fd, rxVars, send_buf, dma, semaVars, rcvevent, readVars, history>>

WriteUp ==
    /\ app = "txup"
    /\ action_sema' = action_sema + 1
    /\ app' = "idle"
    /\ UNCHANGED <<act, fd, rxVars, txVars, tx_sema, dma_tx_sema, rcvevent, readVars, history>>

(* Mutant: the action task is not woken to end.                            *)
TaskToEnd_asleep == action_sema

TaskToEnd == action_sema + 1

(* uart_close: the socket is closed and the action task told to end.       *)
uart_close ==
    /\ app = "idle"
    /\ fd' = FALSE /\ rcvevent' = FALSE
    /\ action_sema' = TaskToEnd
    /\ app' = "closing"
    /\ UNCHANGED <<act, rxVars, txVars, tx_sema, dma_tx_sema, readVars, history>>

(* What is to be sent is printed first, up to 127 bytes of it in           *)
(* hexadecimal, at the speed of the log UART.                              *)
Printing == act = "tx" /\ tx_start = 1

(* The action task can go on, and neither waits for the line nor prints.   *)
ActRuns ==
    \/ act = "take" /\ action_sema > 0
    \/ act = "send" /\ dma_tx_sema > 0
    \/ act \in {"event", "clear", "tx"} /\ ~Printing

(* The memory is freed after rtw_msleep_os(20): time for the statements of *)
(* a task that can run (an assumption), but neither for the line to become *)
(* quiet nor for the print.  What happens to it later is not modelled.     *)

CloseFree ==
    /\ app = "closing" /\ ~ActRuns
    /\ app' = "closed"
    /\ UNCHANGED <<act, fd, rxVars, txVars, semaVars, rcvevent, readVars, history>>

-----------------------------------------------------------------------------
(* What uart_open returns.                                                 *)
UartInit ==
    /\ app = "idle" /\ act = "take" /\ fd = TRUE
    /\ rx_start = 0 /\ prxread = 0 /\ prxwrite = 0 /\ rxoverlap = FALSE
    /\ recv_buf = [i \in 0 .. (RingLen - 1) |-> 0]
    /\ quiet = TRUE
    /\ tx_start = 0 /\ send_buf = 0 /\ dma = FALSE
    /\ action_sema = 0 /\ tx_sema = 1 /\ dma_tx_sema = 1
    /\ rcvevent = FALSE
    /\ pread_local = 0 /\ pwrite_local = 0 /\ read_bytes = 0
    /\ received = 0 /\ written = <<>> /\ got = <<>> /\ wire = <<>>
    /\ overrun = FALSE /\ torn = FALSE /\ refused = 0

uart_action_handler ==
    \/ ActTake \/ uart_wait_rx_complete \/ ActEvent \/ ActClear \/ ActTx
    \/ uart_send_stream \/ SendRefused

uart_read ==
    \/ ReadWrite \/ ReadCount \/ ReadCopy \/ ReadUpdate \/ ReadOverlap

uart_write == WriteCopy \/ WriteStart \/ WriteUp

UartNext ==
    \/ uart_irq \/ LineQuiet \/ uart_send_stream_done
    \/ uart_action_handler
    \/ ReadBegin \/ uart_read
    \/ WriteBegin \/ uart_write
    \/ uart_close \/ CloseFree

(* Both tasks run when they can; a read is begun when select says so; the  *)
(* line is quiet once no byte comes, and a transfer ends.                  *)
UartSpec ==
    /\ UartInit /\ [][UartNext]_uartVars
    /\ WF_uartVars(uart_action_handler)
    /\ WF_uartVars(ReadBegin) /\ WF_uartVars(uart_read) /\ WF_uartVars(uart_write)
    /\ WF_uartVars(LineQuiet) /\ WF_uartVars(uart_send_stream_done)

-----------------------------------------------------------------------------
Counters == 0 .. (MaxBytes + MaxWrites + 1)

(* Types; the ring is indexed inside its bounds.                           *)
UartTypeOK ==
    /\ app \in {"idle", "write", "txstart", "txup", "closing", "closed"} \cup Reading
    /\ act \in {"take", "wait", "event", "clear", "tx", "send", "exit"}
    /\ fd \in BOOLEAN /\ rcvevent \in BOOLEAN /\ quiet \in BOOLEAN /\ dma \in BOOLEAN
    /\ rx_start \in {0, 1} /\ tx_start \in {0, 1} /\ rxoverlap \in BOOLEAN
    /\ prxread \in 0 .. (RingLen - 1) /\ prxwrite \in 0 .. (RingLen - 1)
    /\ recv_buf \in [0 .. (RingLen - 1) -> 0 .. MaxBytes]
    /\ send_buf \in 0 .. MaxWrites
    /\ action_sema \in Counters /\ tx_sema \in Nat /\ dma_tx_sema \in Nat
    /\ pread_local \in 0 .. (RingLen - 1) /\ pwrite_local \in 0 .. (RingLen - 1)
    /\ read_bytes \in 0 .. ReadSize
    /\ received \in 0 .. MaxBytes /\ refused \in 0 .. MaxRefusals
    /\ overrun \in BOOLEAN /\ torn \in BOOLEAN
    /\ Len(written) \in 0 .. MaxWrites /\ Len(wire) \in 0 .. MaxWrites

(* uart_read returns the bytes in the order they came, each once, and all  *)
(* of them if the ring never ran over; unless, while a read was under way, *)
(* the interrupt dropped bytes, or wrapped prxwrite between the read's     *)
(* loads of prxwrite and rxoverlap or between its stores of prxread and    *)
(* rxoverlap.  Bytes that arrive during a read are otherwise harmless,     *)
(* although uart_read excludes no interrupt.                               *)
RxInOrder ==
    ~torn =>
        /\ \A j, k \in DOMAIN got : j < k => got[j] < got[k]
        /\ ~overrun => got = [k \in 1 .. Len(got) |-> k]

(* What is sent is what was written, whole and in order: uart_write takes  *)
(* a buffer while the transfer of the one before may still be running.     *)
TxInOrder == IsPrefix(wire, written)

(* When uart_close frees the memory the action task is gone, or it is in   *)
(* uart_wait_rx_complete because bytes came just before, or it prints what *)
(* uart_write has just handed over: it is never blocked on a semaphore.    *)
ClosedIsIdle == app = "closed" => act \in {"exit", "wait"} \/ Printing

Unread == IF rxoverlap THEN RingLen - prxread + prxwrite ELSE prxwrite - prxread

(* Bytes that no announcement will follow, until another byte comes.       *)
Stranded ==
    /\ Unread # 0 /\ ~rcvevent /\ fd
    /\ app # "overlap"
    /\ rx_start = 0 \/ act = "clear"

(* Bytes are left without an announcement in two ways only: one arrives    *)
(* after the event was set and before rx_start is cleared, or a read that  *)
(* was shorter, or began earlier, clears the event.                        *)
Announced ==
    [][~Stranded /\ Stranded' => \/ received' # received /\ act = "clear"
                                 \/ app \in {"update", "overlap"}]_uartVars

(* Once the line is quiet, bytes that are not stranded are read; unless a  *)
(* DMA request failed, which leaves the application in uart_write.         *)
RxRead == Unread # 0 ~> (Unread = 0 \/ Stranded \/ torn \/ refused > 0 \/ ~fd)

(* A written buffer is sent and the next uart_write returns, unless a DMA  *)
(* request failed once.                                                    *)
TxCompletes ==
    /\ app = "write" ~> (app # "write" \/ refused > 0)
    /\ wire # written ~> (wire = written \/ refused > 0 \/ ~fd)
=============================================================================
