-------------------------- MODULE UartSocketProofs --------------------------
(***************************************************************************)
(* Proofs about the UART socket, for every length of the ring and of a     *)
(* read and any number of bytes, writes and refused DMA requests.          *)
(***************************************************************************)
EXTENDS UartSocket, SequenceTheorems, TLAPS

-----------------------------------------------------------------------------
(* The tasks and their flags; the ring and the locals of uart_read.        *)
Tasks ==
    /\ app \in {"idle", "write", "txstart", "txup", "closing", "closed"} \cup Reading
    /\ act \in {"take", "wait", "event", "clear", "tx", "send", "exit"}
    /\ rx_start \in {0, 1} /\ tx_start \in {0, 1}
    /\ refused \in 0 .. MaxRefusals

Flags ==
    /\ fd \in BOOLEAN /\ rcvevent \in BOOLEAN /\ quiet \in BOOLEAN /\ dma \in BOOLEAN
    /\ rxoverlap \in BOOLEAN /\ overrun \in BOOLEAN /\ torn \in BOOLEAN

Ring ==
    /\ prxread \in 0 .. (RingLen - 1) /\ prxwrite \in 0 .. (RingLen - 1)
    /\ recv_buf \in [0 .. (RingLen - 1) -> 0 .. MaxBytes]
    /\ pread_local \in 0 .. (RingLen - 1) /\ pwrite_local \in 0 .. (RingLen - 1)
    /\ read_bytes \in 0 .. ReadSize
    /\ received \in 0 .. MaxBytes

(* Buffers are numbered, and sent in the order they were written.          *)
Numbered(s) == s \in Seq(Nat) /\ \A k \in 1 .. Len(s) : s[k] = k

Buffers ==
    /\ Numbered(written) /\ Numbered(wire)
    /\ Len(wire) <= Len(written) /\ Len(written) <= MaxWrites
    /\ app = "write" => Len(written) < MaxWrites
    /\ send_buf \in 0 .. MaxWrites

-----------------------------------------------------------------------------
(* A written buffer is on its way to the DMA.                              *)
Pending == app = "txstart" \/ tx_start = 1 \/ act = "send"

(* send_buf is in one hand: free, with uart_write or the action task, with *)
(* the DMA, or in none after a refused request.  With the action task the  *)
(* DMA is free, so that it does not block in uart_send_stream.             *)
OneHolder ==
    /\ tx_sema \in {0, 1} /\ dma_tx_sema \in {0, 1}
    /\ tx_sema = 1 => ~Pending /\ ~dma /\ dma_tx_sema = 1 /\ Len(wire) = Len(written)
    /\ Pending => ~dma /\ dma_tx_sema = 1
    /\ Pending \/ dma => Len(wire) + 1 = Len(written) /\ send_buf = Len(written)
    /\ app = "txstart" => tx_start = 0 /\ act # "send"
    /\ tx_start = 1 => act # "send"
    /\ dma => dma_tx_sema = 0

(* Every count of action_sema is a byte, a write or the close; the last    *)
(* one is left for the action task to end.                                 *)
Wakeups ==
    /\ action_sema \in Nat
    /\ action_sema + (IF app \in {"txstart", "txup"} THEN 1 ELSE 0)
         <= received + Len(written) + (IF app \in {"closing", "closed"} THEN 1 ELSE 0)
    /\ app \in {"closing", "closed"} => ~fd
    /\ ~fd => act = "exit" \/ action_sema > 0
    /\ app = "closed" => act \in {"exit", "wait"} \/ Printing

-----------------------------------------------------------------------------
(* Bytes that wait in the ring: once uart_read has stored prxread behind   *)
(* the wrap, rxoverlap is about to be cleared and does not count.          *)
Left == prxwrite - prxread + (IF rxoverlap /\ app # "overlap" THEN RingLen ELSE 0)

(* The last byte but d - 1 was stored d places before prxwrite.            *)
Back(d) == IF d <= prxwrite THEN prxwrite - d ELSE prxwrite - d + RingLen
Content == \A d \in 1 .. RingLen : d <= received => recv_buf[Back(d)] = received - d + 1

(* What uart_read knows of the ring while it runs.                         *)
Pointers ==
    /\ Left \in 0 .. RingLen /\ Left <= received
    /\ app = "overlap" => rxoverlap
    /\ app \in {"pwrite", "count", "copy", "update"} => prxread = pread_local
    /\ app = "count" => /\ pwrite_local <= prxwrite
                        /\ ~rxoverlap => pread_local <= pwrite_local
    /\ app \in {"copy", "update"} => read_bytes <= Left

(* The number of the last byte that was read or dropped.                   *)
Taken == received - Left + (IF app = "update" THEN read_bytes ELSE 0)

InOrder ==
    /\ got \in Seq(Nat)
    /\ \A k \in 1 .. Len(got) : got[k] <= Taken
    /\ \A j, k \in 1 .. Len(got) : j < k => got[j] < got[k]
    /\ ~overrun => Len(got) = Taken /\ \A k \in 1 .. Len(got) : got[k] = k

Received == Content /\ (~torn => Pointers /\ InOrder)

UartInv == Tasks /\ Flags /\ Ring /\ Buffers /\ OneHolder /\ Wakeups /\ Received

-----------------------------------------------------------------------------
(* Every step keeps the types of the tasks' state.                         *)
LEMMA TasksStep == Tasks /\ [UartNext]_uartVars => Tasks'
<1> SUFFICES ASSUME Tasks, [UartNext]_uartVars PROVE Tasks'
  OBVIOUS
<1> USE DEF Tasks, Reading, txVars, rxVars, history
<1>1. CASE uart_irq
  BY <1>1 DEF uart_irq, Announce
<1>2. CASE LineQuiet \/ uart_send_stream_done
  BY <1>2 DEF LineQuiet, uart_send_stream_done
<1>3. CASE ActTake \/ uart_wait_rx_complete \/ ActEvent \/ ActClear \/ ActTx
  BY <1>3 DEF ActTake, uart_wait_rx_complete, ActEvent, ActClear, ActTx
<1>4. CASE uart_send_stream
  BY <1>4 DEF uart_send_stream
<1>5. CASE SendRefused
  <2>1. refused' \in 0 .. MaxRefusals
    BY <1>5, UartAssumption DEF SendRefused
  <2> QED BY <1>5, <2>1 DEF SendRefused
<1>6. CASE ReadBegin \/ ReadWrite \/ ReadCount \/ ReadCopy \/ ReadOverlap
  BY <1>6 DEF ReadBegin, ReadWrite, ReadCount, ReadCopy, ReadOverlap
<1>7. CASE ReadUpdate
  BY <1>7 DEF ReadUpdate
<1>8. CASE WriteBegin \/ WriteCopy \/ WriteStart \/ WriteUp
  BY <1>8 DEF WriteBegin, WriteCopy, WriteStart, WriteUp
<1>9. CASE uart_close \/ CloseFree
  BY <1>9 DEF uart_close, CloseFree
<1>10. CASE UNCHANGED uartVars
  BY <1>10 DEF uartVars
<1> QED BY <1>1, <1>2, <1>3, <1>4, <1>5, <1>6, <1>7, <1>8, <1>9, <1>10
        DEF UartNext, uart_action_handler, uart_read, uart_write

(* Every step keeps the flags Boolean.                                     *)
LEMMA FlagsStep == Flags /\ [UartNext]_uartVars => Flags'
<1> SUFFICES ASSUME Flags, [UartNext]_uartVars PROVE Flags'
  OBVIOUS
<1> USE DEF Flags, txVars, rxVars, history
<1>1. CASE uart_irq
  <2>1. /\ rxoverlap' \in BOOLEAN /\ overrun' \in BOOLEAN /\ torn' \in BOOLEAN
    BY <1>1 DEF uart_irq
  <2>2. quiet' = FALSE /\ UNCHANGED <<fd, rcvevent, dma>>
    BY <1>1 DEF uart_irq
  <2> QED BY <2>1, <2>2
<1>2. CASE LineQuiet \/ uart_send_stream_done
  BY <1>2 DEF LineQuiet, uart_send_stream_done
<1>3. CASE ActTake \/ uart_wait_rx_complete \/ ActEvent \/ ActClear \/ ActTx
  BY <1>3 DEF ActTake, uart_wait_rx_complete, ActEvent, ActClear, ActTx, lwip_setsockrcvevent
<1>4. CASE uart_send_stream \/ SendRefused
  BY <1>4 DEF uart_send_stream, SendRefused
<1>5. CASE ReadBegin \/ ReadWrite \/ ReadCount \/ ReadCopy
  BY <1>5 DEF ReadBegin, ReadWrite, ReadCount, ReadCopy
<1>6. CASE ReadUpdate \/ ReadOverlap
  BY <1>6 DEF ReadUpdate, ReadOverlap
<1>7. CASE WriteBegin \/ WriteCopy \/ WriteStart \/ WriteUp
  BY <1>7 DEF WriteBegin, WriteCopy, WriteStart, WriteUp
<1>8. CASE uart_close \/ CloseFree
  BY <1>8 DEF uart_close, CloseFree
<1>9. CASE UNCHANGED uartVars
  BY <1>9 DEF uartVars
<1> QED BY <1>1, <1>2, <1>3, <1>4, <1>5, <1>6, <1>7, <1>8, <1>9
        DEF UartNext, uart_action_handler, uart_read, uart_write

(* The ring is indexed inside its bounds.                                  *)
LEMMA RingStep == Ring /\ Flags /\ [UartNext]_uartVars => Ring'
<1> SUFFICES ASSUME Ring, Flags, [UartNext]_uartVars PROVE Ring'
  OBVIOUS
<1> USE DEF rxVars, readVars, history
<1>0. RingLen \in Nat /\ RingLen > 1 /\ ReadSize \in 1 .. RingLen /\ MaxBytes \in Nat
  BY UartAssumption
<1>1. CASE UNCHANGED <<prxread, prxwrite, recv_buf, pread_local, pwrite_local, read_bytes, received>>
  BY <1>1 DEF Ring
<1>2. CASE uart_irq
  <2>1. received < MaxBytes /\ received' = received + 1
        /\ recv_buf' = [recv_buf EXCEPT ![prxwrite] = received']
    BY <1>2 DEF uart_irq
  <2>2. received' \in 0 .. MaxBytes
    BY <1>0, <2>1 DEF Ring
  <2>3. recv_buf' \in [0 .. (RingLen - 1) -> 0 .. MaxBytes]
    BY <2>1, <2>2 DEF Ring
  <2>4. prxwrite' \in 0 .. (RingLen - 1)
    BY <1>0, <1>2 DEF uart_irq, Wraps, Ring
  <2>5. prxread' \in {prxread, prxwrite'}
    BY <1>2 DEF uart_irq
  <2>6. UNCHANGED <<pread_local, pwrite_local, read_bytes>>
    BY <1>2 DEF uart_irq
  <2> QED BY <2>2, <2>3, <2>4, <2>5, <2>6 DEF Ring
<1>3. CASE ReadBegin
  BY <1>3 DEF ReadBegin, Ring
<1>4. CASE ReadWrite
  BY <1>4 DEF ReadWrite, Ring
<1>5. CASE ReadCount
  <2>1. Available \in Int
    BY <1>0 DEF Available, Ring
  <2>2. read_bytes' = IF Available < 0 \/ ReadSize < Available THEN ReadSize ELSE Available
    BY <1>5 DEF ReadCount
  <2>3. read_bytes' \in 0 .. ReadSize
    BY <1>0, <2>1, <2>2
  <2> QED BY <1>5, <2>3 DEF ReadCount, Ring
<1>6. CASE ReadUpdate
  <2>1. prxread' = IF pread_local + read_bytes >= RingLen THEN (pread_local + read_bytes) - RingLen
                   ELSE pread_local + read_bytes
    BY <1>6 DEF ReadUpdate, End
  <2>2. prxread' \in 0 .. (RingLen - 1)
    BY <1>0, <2>1 DEF Ring
  <2>3. /\ UNCHANGED <<prxwrite, recv_buf, received>>
        /\ \/ pread_local' = 0 /\ pwrite_local' = 0 /\ read_bytes' = 0
           \/ UNCHANGED <<pread_local, pwrite_local, read_bytes>>
    BY <1>6 DEF ReadUpdate, Returned
  <2> QED BY <1>0, <2>2, <2>3 DEF Ring
<1>7. CASE ReadOverlap
  BY <1>0, <1>7 DEF ReadOverlap, Returned, Ring
<1>8. CASE LineQuiet \/ uart_send_stream_done
  BY <1>1, <1>8 DEF LineQuiet, uart_send_stream_done
<1>9. CASE ActTake \/ uart_wait_rx_complete \/ ActEvent \/ ActClear \/ ActTx \/ uart_send_stream
           \/ SendRefused
  BY <1>1, <1>9 DEF ActTake, uart_wait_rx_complete, ActEvent, ActClear, ActTx,
                    uart_send_stream, SendRefused
<1>10. CASE ReadCopy \/ WriteBegin \/ WriteCopy \/ WriteStart \/ WriteUp
  BY <1>1, <1>10 DEF ReadCopy, WriteBegin, WriteCopy, WriteStart, WriteUp
<1>11. CASE uart_close \/ CloseFree \/ UNCHANGED uartVars
  BY <1>1, <1>11 DEF uart_close, CloseFree, uartVars
<1> QED BY <1>2, <1>3, <1>4, <1>5, <1>6, <1>7, <1>8, <1>9, <1>10, <1>11
        DEF UartNext, uart_action_handler, uart_read, uart_write

-----------------------------------------------------------------------------
(* The next buffer continues the numbers.                                  *)
LEMMA NumberedAppend ==
    ASSUME NEW s, Numbered(s)
    PROVE  /\ Numbered(Append(s, Len(s) + 1)) /\ Len(Append(s, Len(s) + 1)) = Len(s) + 1
           /\ Len(s) \in Nat
<1> DEFINE n == Len(s) + 1
<1>1. s \in Seq(Nat) /\ Len(s) \in Nat
  BY LenProperties DEF Numbered
<1>2. /\ Append(s, n) \in Seq(Nat) /\ Len(Append(s, n)) = n
      /\ \A i \in 1 .. Len(s) : Append(s, n)[i] = s[i]
      /\ Append(s, n)[n] = n
  BY <1>1, AppendProperties
<1>3. \A k \in 1 .. n : Append(s, n)[k] = k
  BY <1>1, <1>2 DEF Numbered
<1> QED BY <1>1, <1>2, <1>3 DEF Numbered

(* The buffer passes from hand to hand.                                    *)
LEMMA TxStep ==
    Tasks /\ Flags /\ Buffers /\ OneHolder /\ [UartNext]_uartVars => (Buffers /\ OneHolder)'
<1> SUFFICES ASSUME Tasks, Flags, Buffers, OneHolder, [UartNext]_uartVars
             PROVE  (Buffers /\ OneHolder)'
  OBVIOUS
<1> USE DEF txVars, semaVars, rxVars, history, Reading
<1>0. Len(wire) \in Nat /\ Len(written) \in Nat /\ MaxWrites \in Nat
  BY NumberedAppend, UartAssumption DEF Buffers
<1>1. ASSUME UNCHANGED <<tx_start, send_buf, dma, tx_sema, dma_tx_sema, written, wire>>,
             app' = app \/ app' \notin {"write", "txstart"},
             act' = act \/ act' # "send",
             (app' = "txstart" <=> app = "txstart"), (act' = "send" <=> act = "send")
      PROVE  (Buffers /\ OneHolder)'
  <2>1. Buffers'
    BY <1>1 DEF Buffers, Numbered
  <2>2. Pending' <=> Pending
    BY <1>1 DEF Pending
  <2>3. OneHolder'
    BY <1>1, <2>2 DEF OneHolder
  <2> QED BY <2>1, <2>3
<1>2. CASE uart_irq \/ LineQuiet
  BY <1>1, <1>2 DEF uart_irq, LineQuiet
<1>3. CASE uart_send_stream_done
  <2>1. /\ dma /\ wire' = Append(wire, send_buf) /\ send_buf' = 0 /\ dma' = FALSE
        /\ tx_sema' = tx_sema + 1 /\ dma_tx_sema' = dma_tx_sema + 1
        /\ UNCHANGED <<app, act, tx_start, written>>
    BY <1>3 DEF uart_send_stream_done, BufferFreed
  <2>2. /\ ~Pending /\ tx_sema = 0 /\ dma_tx_sema = 0 /\ send_buf = Len(wire) + 1
        /\ Len(wire) + 1 = Len(written)
    BY <2>1 DEF OneHolder
  <2>3. Numbered(wire') /\ Len(wire') = Len(written)
    BY <2>1, <2>2, NumberedAppend DEF Buffers
  <2>4. Buffers'
    BY <1>0, <2>1, <2>3 DEF Buffers, Numbered
  <2>5. ~Pending'
    BY <2>1, <2>2 DEF Pending
  <2>6. OneHolder'
    BY <2>1, <2>2, <2>3, <2>5 DEF OneHolder, Pending
  <2> QED BY <2>4, <2>6
<1>4. CASE ActTake \/ uart_wait_rx_complete \/ ActEvent \/ ActClear
  BY <1>1, <1>4 DEF ActTake, uart_wait_rx_complete, ActEvent, ActClear
<1>5. CASE ActTx
  <2>1. /\ act = "tx" /\ act' = (IF tx_start = 1 THEN "send" ELSE "take") /\ tx_start' = 0
        /\ UNCHANGED <<app, send_buf, dma, tx_sema, dma_tx_sema, written, wire>>
    BY <1>5 DEF ActTx
  <2>2. Buffers'
    BY <2>1 DEF Buffers, Numbered
  <2>3. Pending' <=> Pending
    BY <2>1 DEF Pending, Tasks
  <2>4. app = "txstart" => act' # "send"
    BY <2>1 DEF OneHolder
  <2>5. OneHolder'
    BY <2>1, <2>3, <2>4 DEF OneHolder
  <2> QED BY <2>2, <2>5
<1>6. CASE uart_send_stream
  <2>1. /\ act = "send" /\ act' = "take" /\ dma' = TRUE
        /\ dma_tx_sema' = dma_tx_sema - 1 /\ tx_sema' = tx_sema
        /\ UNCHANGED <<app, tx_start, send_buf, written, wire>>
    BY <1>6 DEF uart_send_stream, BufferKept
  <2>2. Pending /\ dma_tx_sema = 1 /\ tx_sema = 0 /\ app # "txstart" /\ tx_start # 1
        /\ Len(wire) + 1 = Len(written) /\ send_buf = Len(written)
    BY <2>1 DEF OneHolder, Pending
  <2>3. ~Pending'
    BY <2>1, <2>2 DEF Pending
  <2>4. Buffers'
    BY <2>1 DEF Buffers, Numbered
  <2>5. OneHolder'
    BY <2>1, <2>2, <2>3 DEF OneHolder
  <2> QED BY <2>4, <2>5
<1>7. CASE SendRefused
  <2>1. /\ act = "send" /\ act' = "take" /\ dma_tx_sema' \in {dma_tx_sema, dma_tx_sema - 1}
        /\ UNCHANGED <<app, tx_start, send_buf, dma, tx_sema, written, wire>>
    BY <1>7 DEF SendRefused
  <2>2. Pending /\ ~dma /\ dma_tx_sema = 1 /\ tx_sema = 0 /\ app # "txstart" /\ tx_start # 1
    BY <2>1 DEF OneHolder, Pending
  <2>3. ~Pending' /\ ~dma'
    BY <2>1, <2>2 DEF Pending
  <2>4. Buffers'
    BY <2>1 DEF Buffers, Numbered
  <2>5. OneHolder'
    BY <2>1, <2>2, <2>3 DEF OneHolder
  <2> QED BY <2>4, <2>5
<1>8. CASE ReadBegin \/ ReadWrite \/ ReadCount \/ ReadCopy
  BY <1>1, <1>8 DEF ReadBegin, ReadWrite, ReadCount, ReadCopy
<1>9. CASE ReadUpdate \/ ReadOverlap
  BY <1>1, <1>9 DEF ReadUpdate, ReadOverlap
<1>10. CASE WriteBegin
  <2>1. /\ app = "idle" /\ app' = "write" /\ Len(written) < MaxWrites
        /\ UNCHANGED <<act, tx_start, send_buf, dma, tx_sema, dma_tx_sema, written, wire>>
    BY <1>10 DEF WriteBegin
  <2>2. Buffers'
    BY <2>1 DEF Buffers, Numbered
  <2>3. Pending' <=> Pending
    BY <2>1 DEF Pending
  <2>4. OneHolder'
    BY <2>1, <2>3 DEF OneHolder
  <2> QED BY <2>2, <2>4
<1>11. CASE WriteCopy
  <2>1. /\ app = "write" /\ app' = "txstart" /\ tx_sema > 0 /\ tx_sema' = tx_sema - 1
        /\ send_buf' = Len(written) + 1 /\ written' = Append(written, Len(written) + 1)
        /\ UNCHANGED <<act, tx_start, dma, dma_tx_sema, wire>>
    BY <1>11 DEF WriteCopy
  <2>2. tx_sema = 1 /\ ~Pending /\ ~dma /\ dma_tx_sema = 1 /\ Len(wire) = Len(written)
    BY <2>1 DEF OneHolder
  <2>3. Numbered(written') /\ Len(written') = Len(written) + 1
    BY <2>1, NumberedAppend DEF Buffers
  <2>4. Len(written) < MaxWrites
    BY <2>1 DEF Buffers
  <2>5. send_buf' \in 0 .. MaxWrites /\ Len(written') <= MaxWrites
    BY <1>0, <2>1, <2>3, <2>4
  <2>6. Buffers'
    BY <1>0, <2>1, <2>2, <2>3, <2>5 DEF Buffers, Numbered
  <2>7. Pending' /\ tx_start # 1 /\ act # "send"
    BY <2>1, <2>2 DEF Pending
  <2>8. OneHolder'
    BY <1>0, <2>1, <2>2, <2>3, <2>7 DEF OneHolder, Tasks
  <2> QED BY <2>6, <2>8
<1>12. CASE WriteStart
  <2>1. /\ app = "txstart" /\ app' = "txup" /\ tx_start' = 1
        /\ UNCHANGED <<act, send_buf, dma, tx_sema, dma_tx_sema, written, wire>>
    BY <1>12 DEF WriteStart
  <2>2. Pending /\ Pending' /\ act # "send"
    BY <2>1 DEF OneHolder, Pending
  <2>3. Buffers'
    BY <2>1 DEF Buffers, Numbered
  <2>4. OneHolder'
    BY <2>1, <2>2 DEF OneHolder
  <2> QED BY <2>3, <2>4
<1>13. CASE WriteUp
  BY <1>1, <1>13 DEF WriteUp
<1>14. CASE uart_close \/ CloseFree
  BY <1>1, <1>14 DEF uart_close, CloseFree
<1>15. CASE UNCHANGED uartVars
  BY <1>1, <1>15 DEF uartVars
<1> QED BY <1>2, <1>3, <1>4, <1>5, <1>6, <1>7, <1>8, <1>9, <1>10, <1>11, <1>12, <1>13,
           <1>14, <1>15
        DEF UartNext, uart_action_handler, uart_read, uart_write

(* The last count of action_sema is kept for the end of the action task.   *)
LEMMA WakeupsStep ==
    Tasks /\ Ring /\ Buffers /\ OneHolder /\ Wakeups /\ [UartNext]_uartVars => Wakeups'
<1> SUFFICES ASSUME Tasks, Ring, Buffers, OneHolder, Wakeups, [UartNext]_uartVars
             PROVE  Wakeups'
  OBVIOUS
<1> USE DEF semaVars, txVars, rxVars, history, Open, Reading
<1>0. Len(written) \in Nat /\ received \in Nat /\ action_sema \in Nat
  BY NumberedAppend, UartAssumption DEF Buffers, Ring, Wakeups
<1>1. ASSUME UNCHANGED <<action_sema, fd, received, written>>, app # "closed",
             app' = app \/ app' \notin {"txstart", "txup", "closing", "closed"},
             act = "exit" => act' = "exit",
             app \in {"closing", "closed"} <=> app' \in {"closing", "closed"}
      PROVE  Wakeups'
  BY <1>0, <1>1 DEF Wakeups
<1>2. CASE uart_irq
  <2>1. /\ received' = received + 1 /\ action_sema' \in {action_sema, action_sema + 1}
        /\ UNCHANGED <<app, act, fd, written>> /\ app # "closed"
    BY <1>2 DEF uart_irq, Announce
  <2> QED BY <1>0, <2>1 DEF Wakeups
<1>3. CASE LineQuiet \/ uart_send_stream_done
  BY <1>1, <1>3 DEF LineQuiet, uart_send_stream_done
<1>4. CASE ActTake
  <2>1. /\ app # "closed" /\ action_sema > 0 /\ action_sema' = action_sema - 1
        /\ (~fd => act' = "exit") /\ UNCHANGED <<app, fd, received, written>>
    BY <1>4 DEF ActTake
  <2> QED BY <1>0, <2>1 DEF Wakeups
<1>5. CASE uart_wait_rx_complete \/ ActEvent \/ ActClear \/ ActTx
  BY <1>1, <1>5 DEF uart_wait_rx_complete, ActEvent, ActClear, ActTx
<1>6. CASE uart_send_stream \/ SendRefused
  BY <1>1, <1>6 DEF uart_send_stream, SendRefused
<1>7. CASE ReadBegin \/ ReadWrite \/ ReadCount \/ ReadCopy
  BY <1>1, <1>7 DEF ReadBegin, ReadWrite, ReadCount, ReadCopy
<1>8. CASE ReadUpdate \/ ReadOverlap \/ WriteBegin
  BY <1>1, <1>8 DEF ReadUpdate, ReadOverlap, WriteBegin
<1>9. CASE WriteCopy
  <2>1. /\ app = "write" /\ app' = "txstart" /\ written' = Append(written, Len(written) + 1)
        /\ UNCHANGED <<act, fd, action_sema, received>>
    BY <1>9 DEF WriteCopy
  <2>2. Len(written') = Len(written) + 1
    BY <2>1, NumberedAppend DEF Buffers
  <2> QED BY <1>0, <2>1, <2>2 DEF Wakeups
<1>10. CASE WriteStart
  BY <1>0, <1>10 DEF WriteStart, Wakeups
<1>11. CASE WriteUp
  <2>1. /\ app = "txup" /\ app' = "idle" /\ action_sema' = action_sema + 1
        /\ UNCHANGED <<act, fd, received, written>>
    BY <1>11 DEF WriteUp
  <2> QED BY <1>0, <2>1 DEF Wakeups
<1>12. CASE uart_close
  <2>1. /\ app = "idle" /\ app' = "closing" /\ action_sema' = action_sema + 1
        /\ fd' = FALSE /\ UNCHANGED <<act, received, written>>
    BY <1>12 DEF uart_close, TaskToEnd
  <2> QED BY <1>0, <2>1 DEF Wakeups
<1>13. CASE CloseFree
  <2>1. /\ app = "closing" /\ app' = "closed" /\ ~ActRuns
        /\ UNCHANGED <<act, fd, action_sema, tx_start, received, written>>
    BY <1>13 DEF CloseFree, txVars
  <2>2. ~fd /\ (act = "exit" \/ action_sema > 0)
    BY <2>1 DEF Wakeups
  <2>3. act = "send" => dma_tx_sema > 0
    BY DEF OneHolder, Pending
  <2>4. act \in {"exit", "wait"} \/ Printing
    BY <2>1, <2>2, <2>3 DEF ActRuns, Tasks, Printing
  <2> QED BY <1>0, <2>1, <2>2, <2>4 DEF Wakeups, Printing
<1>14. CASE UNCHANGED uartVars
  BY <1>0, <1>14 DEF uartVars, txVars, Wakeups, Printing
<1> QED BY <1>2, <1>3, <1>4, <1>5, <1>6, <1>7, <1>8, <1>9, <1>10, <1>11, <1>12, <1>13, <1>14
        DEF UartNext, uart_action_handler, uart_read, uart_write

-----------------------------------------------------------------------------
(* The last bytes received stay where the interrupt stored them.           *)
LEMMA ContentStep == Ring /\ Content /\ [UartNext]_uartVars => Content'
<1> SUFFICES ASSUME Ring, Content, [UartNext]_uartVars PROVE Content'
  OBVIOUS
<1> USE DEF rxVars, history
<1>0. /\ RingLen \in Nat /\ RingLen > 1 /\ received \in Nat
      /\ prxwrite \in Nat /\ prxwrite <= RingLen - 1
  BY UartAssumption DEF Ring
<1>1. ASSUME UNCHANGED <<prxwrite, recv_buf, received>> PROVE Content'
  BY <1>1 DEF Content, Back
<1>2. CASE uart_irq
  <2> SUFFICES ASSUME NEW d \in 1 .. RingLen, d <= received'
               PROVE  recv_buf'[IF d <= prxwrite' THEN prxwrite' - d ELSE prxwrite' - d + RingLen]
                         = received' - d + 1
    BY DEF Content, Back
  <2>1. /\ received' = received + 1
        /\ recv_buf' = [recv_buf EXCEPT ![prxwrite] = received']
        /\ prxwrite' = IF prxwrite + 1 > RingLen - 1 THEN 0 ELSE prxwrite + 1
    BY <1>2 DEF uart_irq, Wraps
  <2>2. recv_buf \in [0 .. (RingLen - 1) -> 0 .. MaxBytes]
    BY DEF Ring
  <2>3. CASE d = 1
    <3>1. (IF d <= prxwrite' THEN prxwrite' - d ELSE prxwrite' - d + RingLen) = prxwrite
      BY <1>0, <2>1, <2>3
    <3> QED BY <1>0, <2>1, <2>2, <2>3, <3>1
  <2>4. CASE d # 1
    <3> DEFINE e == d - 1
    <3> DEFINE b == IF e <= prxwrite THEN prxwrite - e ELSE prxwrite - e + RingLen
    <3>1. e \in 1 .. RingLen /\ e <= received
      BY <1>0, <2>1, <2>4
    <3>2. recv_buf[b] = received - e + 1
      BY <3>1 DEF Content, Back
    <3>3. (IF d <= prxwrite' THEN prxwrite' - d ELSE prxwrite' - d + RingLen) = b
      BY <1>0, <2>1, <2>4
    <3>4. b \in 0 .. (RingLen - 1) /\ b # prxwrite
      BY <1>0, <2>4
    <3>5. received - e + 1 = received' - d + 1
      BY <1>0, <2>1
    <3> HIDE DEF b, e
    <3>6. recv_buf'[b] = recv_buf[b]
      BY <2>1, <2>2, <3>4
    <3> QED BY <3>2, <3>3, <3>5, <3>6
  <2> QED BY <2>3, <2>4
<1>3. CASE LineQuiet \/ uart_send_stream_done
  BY <1>1, <1>3 DEF LineQuiet, uart_send_stream_done
<1>4. CASE ActTake \/ uart_wait_rx_complete \/ ActEvent \/ ActClear \/ ActTx
           \/ uart_send_stream \/ SendRefused
  BY <1>1, <1>4 DEF ActTake, uart_wait_rx_complete, ActEvent, ActClear, ActTx,
                    uart_send_stream, SendRefused
<1>5. CASE ReadBegin \/ ReadWrite \/ ReadCount \/ ReadCopy \/ ReadUpdate \/ ReadOverlap
  BY <1>1, <1>5 DEF ReadBegin, ReadWrite, ReadCount, ReadCopy, ReadUpdate, ReadOverlap
<1>6. CASE WriteBegin \/ WriteCopy \/ WriteStart \/ WriteUp
  BY <1>1, <1>6 DEF WriteBegin, WriteCopy, WriteStart, WriteUp
<1>7. CASE uart_close \/ CloseFree \/ UNCHANGED uartVars
  BY <1>1, <1>7 DEF uart_close, CloseFree, uartVars
<1> QED BY <1>2, <1>3, <1>4, <1>5, <1>6, <1>7
        DEF UartNext, uart_action_handler, uart_read, uart_write

(* What a byte does to the ring, if it disturbs no uart_read: it is one    *)
(* more to be read, or it drops some when nothing is being read.           *)
LEMMA ByteArrives ==
    ASSUME Ring, Flags, Pointers, ~torn, uart_irq, ~torn'
    PROVE  /\ app # "overlap"
           /\ Left' \in 0 .. RingLen /\ Left' <= Left + 1
           /\ ~overrun' => ~overrun /\ Left' = Left + 1
           /\ app \in Reading => prxread' = prxread /\ Left' = Left + 1
           /\ app = "count" => prxwrite' = prxwrite + 1 /\ rxoverlap' = rxoverlap
<1> DEFINE wraps == prxwrite + 1 > RingLen - 1
<1> DEFINE w == IF wraps THEN 0 ELSE prxwrite + 1
<1> DEFINE moves == (wraps \/ rxoverlap) /\ w + 1 > prxread
<1> DEFINE drops == (rxoverlap /\ prxread = prxwrite) \/ (moves /\ prxread # w)
<1>0. /\ RingLen \in Nat /\ RingLen > 1
      /\ prxwrite \in Nat /\ prxwrite <= RingLen - 1 /\ prxread \in Nat /\ prxread <= RingLen - 1
  BY UartAssumption DEF Ring
<1>1. /\ prxwrite' = w /\ rxoverlap' = (rxoverlap \/ wraps)
      /\ prxread' = IF moves THEN w ELSE prxread
      /\ overrun' = (overrun \/ drops)
      /\ torn' = (torn \/ (wraps /\ app \in {"count", "overlap"}) \/ (drops /\ app \in Reading))
      /\ app' = app
  BY DEF uart_irq, Wraps, PastReader, Full
<1>2. /\ ~(wraps /\ app \in {"count", "overlap"})
      /\ ~(drops /\ app \in Reading)
  BY <1>1
<1>3. app # "overlap"
  <2> SUFFICES ASSUME app = "overlap" PROVE FALSE
    OBVIOUS
  <2>1. rxoverlap /\ prxread <= prxwrite
    BY <1>0 DEF Pointers, Left
  <2>2. ~wraps /\ ~drops
    BY <1>2 DEF Reading
  <2> QED BY <1>0, <2>1, <2>2
<1>4. /\ Left \in 0 .. RingLen
      /\ rxoverlap => Left = (prxwrite - prxread) + RingLen
      /\ ~rxoverlap => Left = prxwrite - prxread
  BY <1>0, <1>3 DEF Left, Pointers
<1>5. /\ rxoverlap \/ wraps => Left' = (prxwrite' - prxread') + RingLen
      /\ ~rxoverlap /\ ~wraps => Left' = prxwrite' - prxread'
  <2>1. Left' = prxwrite' - prxread' + (IF rxoverlap' THEN RingLen ELSE 0)
    BY <1>1, <1>3 DEF Left
  <2>2. prxwrite' \in Int /\ prxread' \in Int
    BY <1>0, <1>1
  <2>3. rxoverlap' <=> rxoverlap \/ wraps
    BY <1>1
  <2> QED BY <1>0, <2>1, <2>2, <2>3
<1>6. prxwrite' = w /\ prxread' = IF moves THEN w ELSE prxread
  BY <1>1
<1>7. CASE drops
  <2>1. Left' \in 0 .. RingLen /\ Left' <= Left + 1
    <3>1. CASE rxoverlap
      BY <1>0, <1>4, <1>5, <1>6, <1>7, <3>1
    <3>2. CASE ~rxoverlap
      BY <1>0, <1>4, <1>5, <1>6, <1>7, <3>2
    <3> QED BY <3>1, <3>2
  <2>2. app \notin Reading /\ overrun'
    BY <1>1, <1>2, <1>7
  <2> QED BY <1>3, <2>1, <2>2 DEF Reading
<1>8. CASE ~drops
  <2>1. prxread' = prxread
    BY <1>1, <1>8
  <2>2. Left' = Left + 1 /\ Left' <= RingLen
    <3>1. CASE rxoverlap
      BY <1>0, <1>4, <1>5, <1>6, <1>8, <2>1, <3>1
    <3>2. CASE ~rxoverlap
      BY <1>0, <1>4, <1>5, <1>6, <1>8, <2>1, <3>2
    <3> QED BY <3>1, <3>2
  <2>3. Left' \in 0 .. RingLen /\ Left' <= Left + 1
    BY <1>0, <1>4, <2>2
  <2>4. overrun' = overrun
    BY <1>1, <1>8 DEF Flags
  <2>5. app = "count" => prxwrite' = prxwrite + 1 /\ rxoverlap' = rxoverlap
    BY <1>1, <1>2 DEF Flags
  <2> QED BY <1>3, <2>1, <2>2, <2>3, <2>4, <2>5
<1> QED BY <1>7, <1>8

(* uart_read copies the oldest bytes that wait in the ring.                *)
LEMMA CopiedBytes ==
    ASSUME Ring, Flags, Content, Pointers, app = "copy"
    PROVE  /\ Copied \in Seq(Nat) /\ Len(Copied) = read_bytes
           /\ \A k \in 1 .. read_bytes : Copied[k] = received - Left + k
<1>0. /\ RingLen \in Nat /\ RingLen > 1 /\ received \in Nat /\ read_bytes \in Nat
      /\ prxwrite \in Nat /\ prxwrite <= RingLen - 1 /\ prxread \in Nat /\ prxread <= RingLen - 1
  BY UartAssumption DEF Ring
<1>1. /\ pread_local = prxread /\ read_bytes <= Left /\ Left \in 0 .. RingLen /\ Left <= received
  BY DEF Pointers
<1>2. /\ rxoverlap => Left = (prxwrite - prxread) + RingLen
      /\ ~rxoverlap => Left = prxwrite - prxread
  BY <1>0 DEF Left
<1>3. ASSUME NEW k \in 1 .. read_bytes PROVE Copied[k] = received - Left + k
  <2> DEFINE i == pread_local + k - 1
  <2> DEFINE j == IF rxoverlap /\ i >= RingLen THEN i - RingLen ELSE i
  <2> DEFINE d == Left - k + 1
  <2>1. d \in 1 .. RingLen /\ d <= received
    BY <1>0, <1>1
  <2>2. recv_buf[IF d <= prxwrite THEN prxwrite - d ELSE prxwrite - d + RingLen] = received - d + 1
    BY <2>1 DEF Content, Back
  <2>3. j = (IF d <= prxwrite THEN prxwrite - d ELSE prxwrite - d + RingLen) /\ j < RingLen
    <3>1. CASE rxoverlap
      BY <1>0, <1>1, <1>2, <3>1
    <3>2. CASE ~rxoverlap
      BY <1>0, <1>1, <1>2, <3>2
    <3> QED BY <3>1, <3>2
  <2>4. Copied[k] = IF rxoverlap /\ i >= RingLen THEN Byte(i - RingLen) ELSE Byte(i)
    BY DEF Copied
  <2>5. Copied[k] = Byte(j)
    BY <2>4
  <2>6. Byte(j) = recv_buf[j]
    BY <2>3 DEF Byte
  <2>7. received - d + 1 = received - Left + k
    BY <1>0, <1>1
  <2> QED BY <2>2, <2>3, <2>5, <2>6, <2>7
<1>4. \A k \in 1 .. read_bytes : Copied[k] \in Nat
  BY <1>0, <1>1, <1>3
<1>5. Copied \in [1 .. read_bytes -> Nat]
  BY <1>4 DEF Copied
<1>6. Copied \in Seq(Nat)
  BY <1>0, <1>5, SeqDef
<1>7. Len(Copied) = read_bytes
  BY <1>0, <1>5, <1>6, LenProperties
<1> QED BY <1>3, <1>6, <1>7

(* Bytes n + 1 to n + m follow bytes that are not later than n.            *)
LEMMA Extended ==
    ASSUME NEW s \in Seq(Nat), NEW t \in Seq(Nat), NEW n \in Nat,
           \A k \in 1 .. Len(s) : s[k] <= n,
           \A j, k \in 1 .. Len(s) : j < k => s[j] < s[k],
           \A k \in 1 .. Len(t) : t[k] = n + k
    PROVE  /\ s \o t \in Seq(Nat) /\ Len(s \o t) = Len(s) + Len(t)
           /\ \A k \in 1 .. Len(s \o t) : (s \o t)[k] <= n + Len(t)
           /\ \A j, k \in 1 .. Len(s \o t) : j < k => (s \o t)[j] < (s \o t)[k]
           /\ Len(s) = n /\ (\A k \in 1 .. Len(s) : s[k] = k)
                => \A k \in 1 .. Len(s \o t) : (s \o t)[k] = k
<1> DEFINE c == s \o t
<1>1. Len(s) \in Nat /\ Len(t) \in Nat
  BY LenProperties
<1>2. c \in Seq(Nat) /\ Len(c) = Len(s) + Len(t)
      /\ \A k \in 1 .. (Len(s) + Len(t)) : c[k] = IF k <= Len(s) THEN s[k] ELSE t[k - Len(s)]
  BY ConcatProperties
<1>3. \A k \in 1 .. Len(s) : s[k] \in Nat
  BY ElementOfSeq
<1> HIDE DEF c
<1>4. ASSUME NEW k \in 1 .. Len(c)
      PROVE  \/ k \in 1 .. Len(s) /\ c[k] = s[k]
             \/ k > Len(s) /\ k - Len(s) \in 1 .. Len(t) /\ c[k] = n + (k - Len(s))
  <2>1. CASE k <= Len(s)
    BY <1>1, <1>2, <2>1
  <2>2. CASE k > Len(s)
    <3>1. k - Len(s) \in 1 .. Len(t) /\ ~(k <= Len(s))
      BY <1>1, <1>2, <2>2
    <3>2. c[k] = t[k - Len(s)]
      BY <1>2, <3>1
    <3>3. t[k - Len(s)] = n + (k - Len(s))
      BY <3>1
    <3> QED BY <2>2, <3>1, <3>2, <3>3
  <2> QED BY <1>1, <1>2, <2>1, <2>2
<1>5. ASSUME NEW k \in 1 .. Len(c) PROVE c[k] <= n + Len(t)
  <2>1. CASE k \in 1 .. Len(s) /\ c[k] = s[k]
    <3>1. s[k] <= n /\ s[k] \in Nat
      BY <1>3, <2>1
    <3> QED BY <1>1, <2>1, <3>1
  <2>2. CASE k - Len(s) \in 1 .. Len(t) /\ c[k] = n + (k - Len(s))
    BY <1>1, <1>2, <2>2
  <2> QED BY <1>4, <2>1, <2>2
<1>6. ASSUME NEW j \in 1 .. Len(c), NEW k \in 1 .. Len(c), j < k PROVE c[j] < c[k]
  <2>1. CASE k \in 1 .. Len(s) /\ c[k] = s[k]
    <3>1. j \in 1 .. Len(s) /\ c[j] = s[j]
      BY <1>1, <1>4, <1>6, <2>1
    <3> QED BY <1>6, <2>1, <3>1
  <2>2. CASE k > Len(s) /\ c[k] = n + (k - Len(s))
    <3>1. CASE j \in 1 .. Len(s) /\ c[j] = s[j]
      BY <1>1, <1>3, <2>2, <3>1
    <3>2. CASE j > Len(s) /\ c[j] = n + (j - Len(s))
      BY <1>1, <1>6, <2>2, <3>2
    <3> QED BY <1>4, <3>1, <3>2
  <2> QED BY <1>4, <2>1, <2>2
<1>7. ASSUME Len(s) = n, \A k \in 1 .. Len(s) : s[k] = k, NEW k \in 1 .. Len(c)
      PROVE  c[k] = k
  BY <1>1, <1>4, <1>7
<1> QED BY <1>2, <1>5, <1>6, <1>7 DEF c

(* Every step that does not tear the stream keeps what uart_read knows of  *)
(* the ring and the order of what it returned.                             *)
LEMMA ReceivedStep ==
    Tasks /\ Flags /\ Ring /\ Received /\ [UartNext]_uartVars => Received'
<1> SUFFICES ASSUME Tasks, Flags, Ring, Received, [UartNext]_uartVars, ~torn'
             PROVE  Pointers' /\ InOrder'
  BY ContentStep DEF Received
<1> USE DEF rxVars, txVars, readVars, history
<1>0. /\ RingLen \in Nat /\ RingLen > 1 /\ received \in Nat
      /\ ReadSize \in Nat /\ ReadSize >= 1 /\ ReadSize <= RingLen
      /\ read_bytes \in Nat /\ pread_local \in Nat /\ pwrite_local \in Nat
      /\ prxwrite \in Nat /\ prxwrite <= RingLen - 1 /\ prxread \in Nat /\ prxread <= RingLen - 1
      /\ pread_local <= RingLen - 1 /\ pwrite_local <= RingLen - 1
  BY UartAssumption DEF Ring
<1>1. torn' = torn \/ uart_irq
  <2>1. CASE LineQuiet \/ uart_send_stream_done
    BY <2>1 DEF LineQuiet, uart_send_stream_done
  <2>2. CASE uart_action_handler
    BY <2>2 DEF uart_action_handler, ActTake, uart_wait_rx_complete, ActEvent, ActClear, ActTx,
                uart_send_stream, SendRefused
  <2>3. CASE ReadBegin \/ uart_read
    BY <2>3 DEF ReadBegin, uart_read, ReadWrite, ReadCount, ReadCopy, ReadUpdate, ReadOverlap
  <2>4. CASE WriteBegin \/ uart_write \/ uart_close \/ CloseFree \/ UNCHANGED uartVars
    BY <2>4 DEF WriteBegin, uart_write, WriteCopy, WriteStart, WriteUp, uart_close, CloseFree,
                uartVars
  <2> QED BY <2>1, <2>2, <2>3, <2>4 DEF UartNext
<1>2. ~torn
  BY <1>1 DEF uart_irq, Flags
<1>3. Pointers /\ InOrder /\ Content
  BY <1>2 DEF Received
<1>4. Left \in Nat /\ Left <= RingLen /\ Left <= received
  BY <1>0, <1>3 DEF Pointers
<1>5. ASSUME UNCHANGED <<prxread, prxwrite, rxoverlap, received, overrun, got, pread_local,
                         pwrite_local, read_bytes>>,
             app' = app \/ (app \notin Reading /\ app' \notin Reading)
      PROVE  Pointers' /\ InOrder'
  <2>1. Left' = Left /\ Taken' = Taken
    BY <1>5 DEF Left, Taken, Reading
  <2>2. Pointers'
    BY <1>3, <1>5, <2>1 DEF Pointers, Reading
  <2> QED BY <1>3, <1>5, <2>1, <2>2 DEF InOrder
<1>6. CASE uart_irq
  <2>1. /\ app # "overlap"
        /\ Left' \in 0 .. RingLen /\ Left' <= Left + 1
        /\ ~overrun' => ~overrun /\ Left' = Left + 1
        /\ app \in Reading => prxread' = prxread /\ Left' = Left + 1
        /\ app = "count" => prxwrite' = prxwrite + 1 /\ rxoverlap' = rxoverlap
    BY <1>2, <1>3, <1>6, ByteArrives
  <2>2. /\ received' = received + 1 /\ got' = got
        /\ UNCHANGED <<app, pread_local, pwrite_local, read_bytes>>
    BY <1>6 DEF uart_irq
  <2>3. Pointers'
    <3>1. Left' <= received'
      BY <1>0, <1>4, <2>1, <2>2
    <3>2. app' = "count" => /\ pwrite_local' <= prxwrite'
                            /\ ~rxoverlap' => pread_local' <= pwrite_local'
      BY <1>0, <1>3, <2>1, <2>2 DEF Pointers
    <3>3. app' \in {"copy", "update"} => read_bytes' <= Left'
      BY <1>0, <1>3, <1>4, <2>1, <2>2 DEF Pointers, Reading
    <3> QED BY <1>3, <2>1, <2>2, <3>1, <3>2, <3>3 DEF Pointers, Reading
  <2>4. Taken <= Taken' /\ (~overrun' => Taken' = Taken) /\ Taken \in Int /\ Taken' \in Int
    <3> DEFINE u == IF app = "update" THEN read_bytes ELSE 0
    <3>1. Taken = received - Left + u /\ Taken' = (received + 1) - Left' + u
      BY <2>2 DEF Taken
    <3>2. Left' \in Nat /\ u \in Nat
      BY <1>0, <2>1
    <3> HIDE DEF u
    <3>3. Taken \in Int /\ Taken' \in Int
      BY <1>0, <1>4, <3>1, <3>2
    <3>4. Left' <= Left + 1
      BY <2>1
    <3>5. Taken <= Taken'
      <4>1. received \in Nat /\ Left \in Nat
        BY <1>0, <1>4
      <4>2. Taken' - Taken = (Left + 1) - Left'
        BY <3>1, <3>2, <4>1
      <4> QED BY <3>2, <3>3, <3>4, <4>1, <4>2
    <3>6. Left' = Left + 1 => Taken' = Taken
      BY <1>0, <1>4, <3>1, <3>2
    <3> QED BY <2>1, <3>3, <3>5, <3>6
  <2>5. \A k \in 1 .. Len(got) : got[k] \in Nat
    BY <1>3, ElementOfSeq DEF InOrder
  <2>6. \A k \in 1 .. Len(got) : got[k] <= Taken'
    BY <1>3, <2>4, <2>5 DEF InOrder
  <2>7. InOrder'
    BY <1>3, <2>1, <2>2, <2>4, <2>6 DEF InOrder
  <2> QED BY <2>3, <2>7
<1>7. CASE ReadBegin
  <2>1. /\ app = "idle" /\ app' = "pwrite" /\ pread_local' = prxread
        /\ UNCHANGED <<prxread, prxwrite, rxoverlap, received, overrun, got>>
    BY <1>7 DEF ReadBegin
  <2>2. Left' = Left /\ Taken' = Taken
    BY <2>1 DEF Left, Taken
  <2>3. Pointers'
    BY <1>3, <2>1, <2>2 DEF Pointers
  <2> QED BY <1>3, <2>1, <2>2, <2>3 DEF InOrder
<1>8. CASE ReadWrite
  <2>1. /\ app = "pwrite" /\ app' = "count" /\ pwrite_local' = prxwrite
        /\ UNCHANGED <<prxread, prxwrite, rxoverlap, received, overrun, got, pread_local>>
    BY <1>8 DEF ReadWrite
  <2>2. Left' = Left /\ Taken' = Taken
    BY <2>1 DEF Left, Taken
  <2>3. ~rxoverlap => Left = prxwrite - prxread
    BY <1>0 DEF Left
  <2>4. prxread = pread_local
    BY <1>3, <2>1 DEF Pointers
  <2>5. ~rxoverlap' => pread_local' <= pwrite_local'
    BY <1>0, <1>4, <2>1, <2>3, <2>4
  <2>6. Pointers'
    BY <1>0, <1>3, <2>1, <2>2, <2>5 DEF Pointers
  <2> QED BY <1>3, <2>1, <2>2, <2>6 DEF InOrder
<1>9. CASE ReadCount
  <2>1. /\ app = "count" /\ app' = "copy"
        /\ read_bytes' = IF Available < 0 \/ ReadSize < Available THEN ReadSize ELSE Available
        /\ UNCHANGED <<prxread, prxwrite, rxoverlap, received, overrun, got, pread_local>>
    BY <1>9 DEF ReadCount
  <2>2. Left' = Left /\ Taken' = Taken
    BY <2>1 DEF Left, Taken
  <2>3. /\ rxoverlap => Left = (prxwrite - prxread) + RingLen
        /\ ~rxoverlap => Left = prxwrite - prxread
    BY <1>0, <2>1 DEF Left
  <2>4. /\ prxread = pread_local /\ pwrite_local <= prxwrite
        /\ ~rxoverlap => pread_local <= pwrite_local
    BY <1>3, <2>1 DEF Pointers
  <2>5. Available \in Nat /\ Available <= Left
    <3>1. CASE rxoverlap
      BY <1>0, <2>3, <2>4, <3>1 DEF Available
    <3>2. CASE ~rxoverlap
      BY <1>0, <2>3, <2>4, <3>2 DEF Available
    <3> QED BY <3>1, <3>2
  <2>6. read_bytes' <= Left'
    BY <1>0, <1>4, <2>1, <2>2, <2>5
  <2>7. Pointers'
    BY <1>3, <2>1, <2>2, <2>6 DEF Pointers
  <2> QED BY <1>3, <2>1, <2>2, <2>7 DEF InOrder
<1>10. CASE ReadCopy
  <2>1. /\ app = "copy" /\ app' = "update" /\ got' = got \o Copied
        /\ UNCHANGED <<prxread, prxwrite, rxoverlap, received, overrun, pread_local,
                       pwrite_local, read_bytes>>
    BY <1>2, <1>10 DEF ReadCopy
  <2>2. Left' = Left /\ Taken = received - Left /\ Taken' = (received - Left) + read_bytes
    BY <1>0, <1>4, <2>1 DEF Left, Taken
  <2>3. Pointers'
    BY <1>3, <2>1, <2>2 DEF Pointers
  <2>4. /\ Copied \in Seq(Nat) /\ Len(Copied) = read_bytes
        /\ \A k \in 1 .. read_bytes : Copied[k] = received - Left + k
    BY <1>3, <2>1, CopiedBytes
  <2>5. Taken \in Nat /\ \A k \in 1 .. Len(Copied) : Copied[k] = Taken + k
    BY <1>0, <1>4, <2>2, <2>4
  <2> DEFINE c == got \o Copied
  <2>6. /\ c \in Seq(Nat) /\ Len(c) = Len(got) + Len(Copied)
        /\ \A k \in 1 .. Len(c) : c[k] <= Taken + Len(Copied)
        /\ \A j, k \in 1 .. Len(c) : j < k => c[j] < c[k]
        /\ Len(got) = Taken /\ (\A k \in 1 .. Len(got) : got[k] = k)
             => \A k \in 1 .. Len(c) : c[k] = k
    BY <1>3, <2>4, <2>5, Extended DEF InOrder
  <2>7. got' = c /\ Taken' = Taken + Len(Copied)
    BY <2>1, <2>2, <2>4
  <2> HIDE DEF c
  <2>8. InOrder'
    BY <1>3, <2>1, <2>6, <2>7 DEF InOrder
  <2> QED BY <2>3, <2>8
<1>11. CASE ReadUpdate
  <2>1. /\ app = "update"
        /\ prxread' = IF pread_local + read_bytes >= RingLen
                      THEN (pread_local + read_bytes) - RingLen ELSE pread_local + read_bytes
        /\ app' = IF pread_local + read_bytes >= RingLen THEN "overlap" ELSE "idle"
        /\ UNCHANGED <<prxwrite, rxoverlap, received, overrun, got>>
    BY <1>11 DEF ReadUpdate, End
  <2>2. prxread = pread_local /\ read_bytes <= Left
    BY <1>3, <2>1 DEF Pointers
  <2>3. /\ rxoverlap => Left = (prxwrite - prxread) + RingLen
        /\ ~rxoverlap => Left = prxwrite - prxread
    BY <1>0, <2>1 DEF Left
  <2>4. pread_local + read_bytes >= RingLen => rxoverlap
    BY <1>0, <2>2, <2>3
  <2>5. Left' = Left - read_bytes
    <3>1. CASE pread_local + read_bytes >= RingLen
      <4>1. Left' = prxwrite - prxread'
        BY <1>0, <2>1, <3>1 DEF Left
      <4> QED BY <1>0, <2>1, <2>2, <2>3, <2>4, <3>1, <4>1
    <3>2. CASE ~(pread_local + read_bytes >= RingLen) /\ rxoverlap
      <4>1. Left' = (prxwrite - prxread') + RingLen
        BY <1>0, <2>1, <3>2 DEF Left
      <4> QED BY <1>0, <2>1, <2>2, <2>3, <3>2, <4>1
    <3>3. CASE ~(pread_local + read_bytes >= RingLen) /\ ~rxoverlap
      <4>1. Left' = prxwrite - prxread'
        BY <1>0, <2>1, <3>3 DEF Left
      <4> QED BY <1>0, <2>1, <2>2, <2>3, <3>3, <4>1
    <3> QED BY <3>1, <3>2, <3>3
  <2>6. Taken' = Taken
    <3>1. Taken = received - Left + read_bytes /\ Taken' = received - Left' + 0
      BY <2>1 DEF Taken
    <3> QED BY <1>0, <1>4, <2>5, <3>1
  <2>7. Left' \in 0 .. RingLen /\ Left' <= received'
    BY <1>0, <1>4, <2>1, <2>2, <2>5
  <2>8. Pointers'
    BY <2>1, <2>4, <2>7 DEF Pointers
  <2> QED BY <1>3, <2>1, <2>6, <2>8 DEF InOrder
<1>12. CASE ReadOverlap
  <2>1. /\ app = "overlap" /\ app' = "idle" /\ rxoverlap' = FALSE
        /\ UNCHANGED <<prxread, prxwrite, received, overrun, got>>
    BY <1>12 DEF ReadOverlap
  <2>2. Left' = Left /\ Taken' = Taken
    BY <1>0, <2>1 DEF Left, Taken
  <2>3. Pointers'
    BY <1>3, <2>1, <2>2 DEF Pointers
  <2> QED BY <1>3, <2>1, <2>2, <2>3 DEF InOrder
<1>13. CASE LineQuiet \/ uart_send_stream_done
  BY <1>5, <1>13 DEF LineQuiet, uart_send_stream_done
<1>14. CASE ActTake \/ uart_wait_rx_complete \/ ActEvent \/ ActClear
  BY <1>5, <1>14 DEF ActTake, uart_wait_rx_complete, ActEvent, ActClear
<1>15. CASE ActTx \/ uart_send_stream \/ SendRefused
  BY <1>5, <1>15 DEF ActTx, uart_send_stream, SendRefused
<1>16. CASE WriteBegin \/ WriteCopy \/ WriteStart \/ WriteUp
  BY <1>5, <1>16 DEF WriteBegin, WriteCopy, WriteStart, WriteUp, Reading
<1>17. CASE uart_close \/ CloseFree
  BY <1>5, <1>17 DEF uart_close, CloseFree, Reading
<1>18. CASE UNCHANGED uartVars
  BY <1>5, <1>18 DEF uartVars
<1> QED BY <1>6, <1>7, <1>8, <1>9, <1>10, <1>11, <1>12, <1>13, <1>14, <1>15, <1>16, <1>17,
           <1>18
        DEF UartNext, uart_action_handler, uart_read, uart_write

-----------------------------------------------------------------------------
(* The inductive invariant.                                                *)
THEOREM UartInvariant == UartSpec => []UartInv
<1>1. UartInit => UartInv
  <2> SUFFICES ASSUME UartInit PROVE UartInv
    OBVIOUS
  <2> USE UartAssumption DEF UartInit
  <2>0. <<>> \in Seq(Nat) /\ Len(<<>>) = 0
    BY EmptySeq
  <2>1. Tasks /\ Flags
    <3>1. Tasks
      BY DEF Tasks
    <3>2. Flags
      BY DEF Flags
    <3> QED BY <3>1, <3>2
  <2>2. Ring
    BY DEF Ring
  <2>3. Buffers
    BY <2>0 DEF Buffers, Numbered
  <2>4. OneHolder
    BY <2>0 DEF OneHolder, Pending
  <2>5. Wakeups
    BY <2>0 DEF Wakeups
  <2>6. Content
    BY DEF Content
  <2>7. Left = 0 /\ Taken = 0
    BY DEF Left, Taken
  <2>8. Pointers
    BY <2>7 DEF Pointers
  <2>9. InOrder
    BY <2>0, <2>7 DEF InOrder
  <2> QED BY <2>1, <2>2, <2>3, <2>4, <2>5, <2>6, <2>8, <2>9 DEF UartInv, Received
<1>2. UartInv /\ [UartNext]_uartVars => UartInv'
  BY TasksStep, FlagsStep, RingStep, TxStep, WakeupsStep, ReceivedStep DEF UartInv
<1> QED BY <1>1, <1>2, PTL DEF UartSpec

(* Types: uart_irq and uart_read index the ring inside its bounds.         *)
THEOREM UartTypeCorrect == UartSpec => []UartTypeOK
<1>1. UartInv => UartTypeOK
  <2> SUFFICES ASSUME UartInv PROVE UartTypeOK
    OBVIOUS
  <2>1. Tasks /\ Flags /\ Ring /\ Buffers /\ OneHolder /\ Wakeups
    BY DEF UartInv
  <2>2. Len(written) \in 0 .. MaxWrites /\ Len(wire) \in 0 .. MaxWrites
    BY <2>1, NumberedAppend, UartAssumption DEF Buffers
  <2>3. action_sema \in Counters
    <3>1. /\ action_sema \in Nat
          /\ action_sema <= received + Len(written) + 1
      BY <2>1, <2>2, UartAssumption DEF Wakeups, Ring
    <3> QED BY <2>1, <2>2, <3>1, UartAssumption DEF Counters, Ring
  <2>4. tx_sema \in Nat /\ dma_tx_sema \in Nat
    BY <2>1 DEF OneHolder
  <2> QED BY <2>1, <2>2, <2>3, <2>4 DEF Tasks, Flags, Ring, Buffers, UartTypeOK
<1> QED BY <1>1, UartInvariant, PTL

(* What the DMA sends is what uart_write took, whole and in order: tx_sema *)
(* keeps uart_write from send_buf until uart_send_stream_done, and nothing *)
(* else writes to it; a refused DMA request ends the sending, no more.     *)
THEOREM SentInOrder == UartSpec => []TxInOrder
<1>1. UartInv => TxInOrder
  <2> SUFFICES ASSUME UartInv PROVE TxInOrder
    OBVIOUS
  <2>1. Buffers
    BY DEF UartInv
  <2>2. /\ Len(wire) \in Nat /\ Len(written) \in Nat /\ Len(wire) <= Len(written)
        /\ wire \in Seq(Nat) /\ written \in Seq(Nat)
        /\ \A k \in 1 .. Len(wire) : wire[k] = written[k]
    BY <2>1, NumberedAppend DEF Buffers, Numbered
  <2>3. SubSeq(wire, 1, Len(wire)) = SubSeq(written, 1, Len(wire))
    BY <2>2
  <2> QED BY <2>2, <2>3 DEF TxInOrder, IsPrefix
<1> QED BY <1>1, UartInvariant, PTL

(* When uart_close frees the memory the action task has ended, waits in    *)
(* uart_wait_rx_complete or prints what it is to send.                     *)
THEOREM ClosedIdle == UartSpec => []ClosedIsIdle
<1>1. UartInv => ClosedIsIdle
  BY DEF UartInv, Wakeups, ClosedIsIdle
<1> QED BY <1>1, UartInvariant, PTL

(* Unless the interrupt disturbed a uart_read, the bytes come in order,    *)
(* and all of them if none was dropped, however long the ring is and       *)
(* wherever in uart_read the interrupts come.                              *)
THEOREM ReadInOrder == UartSpec => []RxInOrder
<1>1. UartInv => RxInOrder
  <2> SUFFICES ASSUME UartInv, ~torn
               PROVE  /\ \A j, k \in DOMAIN got : j < k => got[j] < got[k]
                      /\ ~overrun => got = [k \in 1 .. Len(got) |-> k]
    BY DEF RxInOrder
  <2>1. InOrder
    BY DEF UartInv, Received
  <2>2. got \in Seq(Nat)
    BY <2>1 DEF InOrder
  <2>3. DOMAIN got = 1 .. Len(got) /\ got \in [1 .. Len(got) -> Nat]
    BY <2>2, LenProperties
  <2>4. \A j, k \in DOMAIN got : j < k => got[j] < got[k]
    BY <2>1, <2>3 DEF InOrder
  <2>5. ASSUME ~overrun PROVE got = [k \in 1 .. Len(got) |-> k]
    BY <2>1, <2>3, <2>5 DEF InOrder
  <2> QED BY <2>4, <2>5
<1> QED BY <1>1, UartInvariant, PTL

-----------------------------------------------------------------------------
(* Bytes are left without an announcement in two ways only: one arrives    *)
(* between lwip_setsockrcvevent and the store to rx_start, or uart_read    *)
(* clears the event.                                                       *)
THEOREM AnnouncedOrRead == UartSpec => Announced
<1> DEFINE Step == ~Stranded /\ Stranded' => \/ received' # received /\ act = "clear"
                                             \/ app \in {"update", "overlap"}
<1>1. ASSUME [UartNext]_uartVars, UartInv PROVE [Step]_uartVars
  <2> USE DEF txVars, rxVars, history
  <2> SUFFICES ASSUME ~Stranded, Stranded', app \notin {"update", "overlap"},
                      ~(received' # received /\ act = "clear")
               PROVE  UNCHANGED uartVars
    OBVIOUS
  <2>1. /\ Unread' # 0 /\ ~rcvevent' /\ fd' /\ app' # "overlap"
        /\ rx_start' = 0 \/ act' = "clear"
    BY DEF Stranded
  <2>2. ASSUME UNCHANGED <<prxread, prxwrite, rxoverlap, rcvevent, fd, rx_start>>,
               act' = "clear" => act = "clear"
        PROVE  FALSE
    <3>1. Unread' = Unread
      BY <2>2 DEF Unread
    <3> QED BY <2>1, <2>2, <3>1 DEF Stranded
  <2>3. CASE uart_irq
    <3>1. rx_start' # 0 /\ act' = act /\ received' = received + 1
      BY <2>3 DEF uart_irq, Announce
    <3>2. received' # received
      BY <3>1, UartAssumption DEF UartInv, Ring
    <3> QED BY <2>1, <3>1, <3>2
  <2>4. CASE LineQuiet \/ uart_send_stream_done
    BY <2>2, <2>4 DEF LineQuiet, uart_send_stream_done
  <2>5. CASE ActTake \/ uart_wait_rx_complete \/ ActTx \/ uart_send_stream \/ SendRefused
    BY <2>2, <2>5 DEF ActTake, uart_wait_rx_complete, ActTx, uart_send_stream, SendRefused
  <2>6. CASE ActEvent
    BY <2>1, <2>6 DEF ActEvent, lwip_setsockrcvevent
  <2>7. CASE ActClear
    <3>1. act = "clear" /\ UNCHANGED <<app, fd, prxread, prxwrite, rxoverlap, rcvevent>>
      BY <2>7 DEF ActClear
    <3>2. Unread' = Unread
      BY <3>1 DEF Unread
    <3> QED BY <2>1, <3>1, <3>2 DEF Stranded
  <2>8. CASE ReadBegin \/ ReadWrite \/ ReadCount \/ ReadCopy
    BY <2>2, <2>8 DEF ReadBegin, ReadWrite, ReadCount, ReadCopy
  <2>9. CASE ReadUpdate \/ ReadOverlap
    BY <2>9 DEF ReadUpdate, ReadOverlap
  <2>10. CASE WriteBegin \/ WriteCopy \/ WriteStart \/ WriteUp
    BY <2>2, <2>10 DEF WriteBegin, WriteCopy, WriteStart, WriteUp
  <2>11. CASE uart_close
    BY <2>1, <2>11 DEF uart_close
  <2>12. CASE CloseFree
    BY <2>2, <2>12 DEF CloseFree
  <2> QED BY <1>1, <2>3, <2>4, <2>5, <2>6, <2>7, <2>8, <2>9, <2>10, <2>11, <2>12
          DEF UartNext, uart_action_handler, uart_read, uart_write
<1> QED BY <1>1, UartInvariant, PTL DEF UartSpec, Announced
=============================================================================
