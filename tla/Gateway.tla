------------------------------ MODULE Gateway ------------------------------
(***************************************************************************)
(* The UART side of the gateway (bsp/stm32f10x/applications): the ZigBee   *)
(* coordinator sends frames of UART_RECV_SIZE bytes, the receive interrupt *)
(* puts them into a ring buffer and restarts a one-shot timer, the timer   *)
(* releases rx_sem, and the reader thread takes frames out of the buffer   *)
(* and answers some; other threads write to the same UART under a mutex.   *)
(* Semaphore, mutex and timer are what the modules of those names show     *)
(* them to be; a byte is named by its number in the order of arrival, and  *)
(* time is counted in ticks.                                               *)
(***************************************************************************)
EXTENDS Integers, Sequences, FiniteSets

CONSTANTS
  UART_RECV_SIZE, RT_SERIAL_RB_BUFSZ,
  RxTime,      \* the ticks usart_rx_timer runs
  ReadDelay,   \* the ticks the reader sleeps before it reads
  SendDelay,   \* the ticks a writer sleeps between two commands
  MaxFrame,    \* bound: the frames that come
  MaxLate,     \* the ticks that may pass while the reader is ready to run
  MinGap       \* the silent ticks between the frames of a paced coordinator

ASSUME GatewayAssumption ==
  /\ {UART_RECV_SIZE, RxTime, ReadDelay, SendDelay, MaxFrame, MinGap} \subseteq Nat \ {0}
  /\ RT_SERIAL_RB_BUFSZ \in Nat /\ RT_SERIAL_RB_BUFSZ > UART_RECV_SIZE
  /\ MaxLate \in Nat /\ MaxLate < RxTime

Frame  == 1 .. MaxFrame
Last   == MaxFrame * UART_RECV_SIZE    \* the number of the last byte
Kind   == {"query", "online", "unknown"}
Writer == {"uart_write", "uart1_read_write"}
Place  == 0 .. RT_SERIAL_RB_BUFSZ - 1
Nobody == "nobody"

VARIABLES
  paced,       \* the coordinator leaves MinGap ticks between two frames
  kind,        \* the type of each frame, from its CMD and ClusterID
  arrived,     \* the bytes that have come
  quiet,       \* the ticks since the last byte, up to MinGap
  buffer, put_index, get_index,   \* serial->int_rx
  rxTimer,     \* the ticks until usart_rx_timer is due; 0 when it is stopped
  rxValue,     \* rx_sem.value
  pc,          \* where each thread is
  sleep,       \* the ticks each thread still sleeps
  late,        \* the ticks since the reader could run
  owner,       \* who has uart_2.mutex
  recv_buff,   \* the bytes the reader has read
  taken,       \* the last byte it has taken from the buffer
  replies,     \* the commands it still has to send for this frame
  quer_success,
  handled,     \* the whole frames it has looked at
  misfit       \* it gave up on the last thing it read because of its type

lineVars   == <<paced, kind, arrived, quiet>>
ringVars   == <<buffer, put_index, get_index>>
readerVars == <<recv_buff, taken, replies, quer_success, handled, misfit>>
timeVars   == <<rxTimer, sleep, late>>
vars == <<lineVars, ringVars, rxValue, pc, owner, readerVars, timeVars>>

Thread == Writer \cup {"uart_read"}
At(t, l) == pc[t] = l
Goto(t, l) == pc' = [pc EXCEPT ![t] = l]

Advance(i) == (i + 1) % RT_SERIAL_RB_BUFSZ
Size == (put_index - get_index) % RT_SERIAL_RB_BUFSZ
Unread == [k \in 1 .. Size |-> buffer[(get_index + k - 1) % RT_SERIAL_RB_BUFSZ]]

-----------------------------------------------------------------------------
(* serial_ringbuffer_putc: when the buffer is full the oldest byte goes. *)
PutcKeepsGet ==   \* mutant: the read index stays, and the buffer is empty
  /\ buffer' = [buffer EXCEPT ![put_index] = arrived + 1]
  /\ put_index' = Advance(put_index)
  /\ UNCHANGED get_index

Putc ==
  /\ buffer' = [buffer EXCEPT ![put_index] = arrived + 1]
  /\ put_index' = Advance(put_index)
  /\ get_index' = IF Advance(put_index) = get_index THEN Advance(get_index) ELSE get_index

(* Within a frame the bytes follow each other faster than the timer runs.  *)
MidFrame == arrived % UART_RECV_SIZE # 0

(* The receive interrupt: rt_hw_serial_isr and uart_rx_indicate, which     *)
(* stops the timer and starts it again.                                    *)
Receive ==
  /\ arrived < Last
  /\ (paced /\ arrived > 0 /\ ~MidFrame) => quiet = MinGap
  /\ Putc
  /\ arrived' = arrived + 1 /\ quiet' = 0
  /\ rxTimer' = RxTime
  /\ UNCHANGED <<paced, kind, rxValue, pc, sleep, late, owner, readerVars>>

(* The tick interrupt.  When the timer is due, uart_rx_timeout releases    *)
(* rx_sem.                                                                 *)
Asleep(t) == sleep[t] > 0
ReaderReady == ~Asleep("uart_read") /\ ~(At("uart_read", "take") /\ rxValue = 0)

Tick ==
  /\ MidFrame => quiet < RxTime - 1
  /\ ReaderReady => late < MaxLate
  /\ quiet' = IF quiet < MinGap THEN quiet + 1 ELSE quiet
  /\ rxTimer' = IF rxTimer > 0 THEN rxTimer - 1 ELSE 0
  /\ rxValue' = IF rxTimer = 1 THEN rxValue + 1 ELSE rxValue
  /\ sleep' = [t \in Thread |-> IF Asleep(t) THEN sleep[t] - 1 ELSE 0]
  /\ late' = IF ReaderReady THEN late + 1 ELSE 0
  /\ UNCHANGED <<paced, kind, arrived, ringVars, pc, owner, readerVars>>

-----------------------------------------------------------------------------
(***************************************************************************)
(* uart_read_from_zigbee: the thread sleeps, reads, looks at what it has   *)
(* and reads again until there is no whole frame.                          *)
(***************************************************************************)
reader == "uart_read"

SleepThen(t, n, l) == Goto(t, l) /\ sleep' = [sleep EXCEPT ![t] = n]

TakeSem ==
  /\ At(reader, "take") /\ rxValue > 0
  /\ rxValue' = rxValue - 1
  /\ SleepThen(reader, ReadDelay, "recv") /\ late' = 0
  /\ UNCHANGED <<lineVars, ringVars, owner, readerVars, rxTimer>>

(* uart_recv: one byte after the other, with interrupts in between. *)
RecvBegins ==
  /\ At(reader, "recv") /\ ~Asleep(reader) /\ owner = Nobody
  /\ owner' = reader /\ recv_buff' = <<>>
  /\ Goto(reader, "getc")
  /\ UNCHANGED <<lineVars, ringVars, rxValue, taken, replies, quer_success, handled, misfit,
                 timeVars>>

RecvByte ==
  /\ At(reader, "getc") /\ Len(recv_buff) < UART_RECV_SIZE /\ Size > 0
  /\ recv_buff' = Append(recv_buff, buffer[get_index])
  /\ taken' = buffer[get_index]
  /\ get_index' = Advance(get_index)
  /\ UNCHANGED <<lineVars, buffer, put_index, rxValue, pc, owner,
                 replies, quer_success, handled, misfit, timeVars>>

RecvEnds ==
  /\ At(reader, "getc") /\ (Len(recv_buff) = UART_RECV_SIZE \/ Size = 0)
  /\ owner' = Nobody
  /\ Goto(reader, "check")
  /\ UNCHANGED <<lineVars, ringVars, rxValue, readerVars, timeVars>>

(* rx_sem.value = 0, and back to rt_sem_take. *)
GiveUp ==
  /\ rxValue' = 0
  /\ Goto(reader, "take") /\ late' = 0

ReadShort ==
  /\ At(reader, "check") /\ Len(recv_buff) < UART_RECV_SIZE
  /\ GiveUp /\ misfit' = FALSE
  /\ UNCHANGED <<lineVars, ringVars, owner, recv_buff, taken, replies, quer_success, handled,
                 rxTimer, sleep>>

FrameOf(b) == (b - 1) \div UART_RECV_SIZE + 1
Whole      == \A i \in 1 .. UART_RECV_SIZE :
                recv_buff[i] = (FrameOf(recv_buff[1]) - 1) * UART_RECV_SIZE + i

(* check_uart_msg_type goes by the first bytes; if they are not the first  *)
(* of a frame they may look like anything.                                 *)
MsgType ==
  IF (recv_buff[1] - 1) % UART_RECV_SIZE = 0 THEN {kind[FrameOf(recv_buff[1])]} ELSE Kind

ReadFrame(type) ==
  /\ At(reader, "check") /\ Len(recv_buff) = UART_RECV_SIZE
  /\ type \in MsgType
  /\ handled' = IF Whole THEN Append(handled, FrameOf(recv_buff[1])) ELSE handled
  /\ misfit' = (type = "unknown")
  /\ quer_success' = (quer_success \/ type = "query")
  /\ replies' = IF type = "online" THEN 2 ELSE 0
  /\ IF type = "unknown" THEN GiveUp
                         ELSE Goto(reader, "answer") /\ UNCHANGED <<rxValue, late>>
  /\ UNCHANGED <<lineVars, ringVars, owner, recv_buff, taken, rxTimer, sleep>>

ReadOnce ==   \* mutant: "continue" where the code has "goto READ_AGAIN"
  /\ At(reader, "answer") /\ replies = 0
  /\ Goto(reader, "take") /\ late' = 0
  /\ UNCHANGED <<lineVars, ringVars, rxValue, owner, readerVars, rxTimer, sleep>>

ReadAgain ==
  /\ At(reader, "answer") /\ replies = 0
  /\ SleepThen(reader, ReadDelay, "recv") /\ late' = 0
  /\ UNCHANGED <<lineVars, ringVars, rxValue, owner, readerVars, rxTimer>>

-----------------------------------------------------------------------------
(* uart_send: the command goes out byte by byte under the mutex. *)
SendBegins(t, from) ==
  /\ At(t, from) /\ owner = Nobody
  /\ owner' = t
  /\ Goto(t, "send")
  /\ UNCHANGED <<lineVars, ringVars, rxValue, readerVars, timeVars>>

SendKeeps(t) == UNCHANGED owner   \* mutant: the mutex is not released

SendEnds(t) == owner' = Nobody

Answer ==
  \/ replies > 0 /\ SendBegins(reader, "answer")
  \/ /\ At(reader, "send") /\ SendEnds(reader)
     /\ replies' = replies - 1
     /\ Goto(reader, "answer")
     /\ UNCHANGED <<lineVars, ringVars, rxValue, recv_buff, taken, quer_success, handled,
                    misfit, timeVars>>

(* uart_send_cmd_to_zigbee_thread asks for the devices until somebody has  *)
(* answered; uart1_read_write_thread passes on what uart1 has, if that is  *)
(* a whole command.                                                        *)
WriterWakes(w) ==
  /\ At(w, "sleep") /\ ~Asleep(w)
  /\ \/ Goto(w, IF w = "uart_write" /\ quer_success THEN "end" ELSE "begin")
        /\ UNCHANGED sleep
     \/ w = "uart1_read_write" /\ SleepThen(w, SendDelay, "sleep")
  /\ UNCHANGED <<lineVars, ringVars, rxValue, owner, readerVars, rxTimer, late>>

WriterSends(w) ==
  \/ SendBegins(w, "begin")
  \/ /\ At(w, "send") /\ SendEnds(w)
     /\ SleepThen(w, SendDelay, "sleep")
     /\ UNCHANGED <<lineVars, ringVars, rxValue, readerVars, rxTimer, late>>

-----------------------------------------------------------------------------
(* rt_application_init; uart2_init has run. *)
Init ==
  /\ paced \in BOOLEAN /\ kind \in [Frame -> Kind]
  /\ arrived = 0 /\ quiet = 0
  /\ buffer = [i \in Place |-> 0] /\ put_index = 0 /\ get_index = 0
  /\ rxTimer = 0 /\ rxValue = 0
  /\ pc = [t \in Thread |-> IF t = reader THEN "take" ELSE "sleep"]
  /\ sleep = [t \in Thread |-> 0] /\ late = 0
  /\ owner = Nobody
  /\ recv_buff = <<>> /\ taken = 0 /\ replies = 0 /\ quer_success = FALSE
  /\ handled = <<>> /\ misfit = FALSE

Reader ==
  \/ TakeSem \/ RecvBegins \/ RecvByte \/ RecvEnds
  \/ ReadShort \/ (\E type \in Kind : ReadFrame(type)) \/ Answer \/ ReadAgain

Next == Receive \/ Tick \/ Reader \/ \E w \in Writer : WriterWakes(w) \/ WriterSends(w)

Spec == Init /\ [][Next]_vars

(* Time passes, the frames come, threads that can run do, and the mutex,   *)
(* which is FIFO, is got in the end (WaitersAreServed of Mutex).           *)
FairSpec ==
  /\ Spec
  /\ WF_vars(Tick) /\ WF_vars(Receive) /\ WF_vars(Reader)
  /\ \A w \in Writer : WF_vars(WriterWakes(w)) /\ SF_vars(WriterSends(w))

-----------------------------------------------------------------------------
GatewayTypeOK ==
  /\ arrived \in 0 .. Last /\ quiet \in 0 .. MinGap
  /\ buffer \in [Place -> 0 .. Last] /\ {put_index, get_index} \subseteq Place
  /\ rxTimer \in 0 .. RxTime /\ rxValue \in Nat /\ late \in 0 .. MaxLate
  /\ pc \in [Thread -> {"take", "recv", "getc", "check", "answer", "sleep", "begin", "send", "end"}]
  /\ owner \in Thread \cup {Nobody}
  /\ replies \in 0 .. 2 /\ taken \in 0 .. Last /\ recv_buff \in Seq(1 .. Last) /\ handled \in Seq(Frame)

(* The ring buffer holds what has come since the reader took its last     *)
(* byte, in the order of arrival: whoever overtakes whom, a byte is lost   *)
(* only when the buffer is full, the oldest first, and none is read twice. *)
BytesInOrder ==
  LET pending == arrived - taken IN
  /\ GatewayTypeOK
  /\ Size = IF pending < RT_SERIAL_RB_BUFSZ THEN pending ELSE RT_SERIAL_RB_BUFSZ - 1
  /\ \A k \in 1 .. Size : Unread[k] = arrived - Size + k
  /\ \A i, j \in 1 .. Len(recv_buff) : i < j => recv_buff[i] < recv_buff[j]

(* No wake-up is lost, although the reader sets rx_sem.value by plain      *)
(* assignment while the timer releases it: a reader that waits without a   *)
(* token has left nothing in the buffer that the timer will not announce,  *)
(* unless it gave up on a message of unknown type.                         *)
NothingStranded ==
  At(reader, "take") /\ rxValue = 0 /\ Size > 0 => rxTimer > 0 \/ misfit

(* A coordinator that leaves enough silence between its frames has each of *)
(* them looked at once, whole and in order, and is not asked for its       *)
(* devices any more when it has told them.                                 *)
EveryFrameHandled ==
  paced => <>[](/\ handled = [f \in Frame |-> f]
                /\ (\E f \in Frame : kind[f] = "query") => At("uart_write", "end"))
=============================================================================
