---------------------------- MODULE GatewayProof ----------------------------
(***************************************************************************)
(* Theorems about the UART side of the gateway for any sizes of frames and *)
(* of the ring buffer, any number of frames and any delays below the time  *)
(* of the receive timer: the reader takes the bytes in the order of their  *)
(* arrival, losing only the oldest when the buffer is full, and no bytes   *)
(* stay behind unannounced.                                                *)
(***************************************************************************)
EXTENDS Gateway, SequenceTheorems, TLAPS

(***************************************************************************)
(* The inductive invariant.                                                *)
(***************************************************************************)

(* What the ring buffer holds: the last bytes that have come. *)
RingOK ==
  /\ Size = IF arrived - taken < RT_SERIAL_RB_BUFSZ THEN arrived - taken
                                                    ELSE RT_SERIAL_RB_BUFSZ - 1
  /\ \A k \in 1 .. Size :
       buffer[(get_index + k - 1) % RT_SERIAL_RB_BUFSZ] = arrived - Size + k

(* What has been read is older than what will be. *)
ReadOK ==
  /\ \A i, j \in 1 .. Len(recv_buff) : i < j => recv_buff[i] < recv_buff[j]
  /\ \A i \in 1 .. Len(recv_buff) : recv_buff[i] <= taken

(* A reader that has found the buffer empty gives up before the timer of a *)
(* byte that has come since is due: it has been ready for less than that.  *)
ReaderOK ==
  /\ sleep \in [Thread -> Nat]
  /\ At(reader, "send") => replies > 0
  /\ Asleep(reader) => At(reader, "recv")
  /\ At(reader, "check") /\ Len(recv_buff) < UART_RECV_SIZE /\ Size > 0 =>
       rxTimer >= RxTime - late
  /\ NothingStranded

GatewayInv == GatewayTypeOK /\ RingOK /\ ReadOK /\ ReaderOK

(***************************************************************************)
(* Numbers.                                                                *)
(***************************************************************************)

LEMMA SizesFit ==
  /\ UART_RECV_SIZE \in Nat \ {0} /\ RT_SERIAL_RB_BUFSZ \in Nat
  /\ RT_SERIAL_RB_BUFSZ > UART_RECV_SIZE /\ RxTime \in Nat \ {0} /\ MinGap \in Nat \ {0}
  /\ ReadDelay \in Nat \ {0} /\ SendDelay \in Nat \ {0}
  /\ MaxFrame \in Nat \ {0} /\ MaxLate \in Nat /\ MaxLate < RxTime /\ Last \in Nat
BY GatewayAssumption DEF Last

LEMMA RingMod ==
  ASSUME NEW a \in (-RT_SERIAL_RB_BUFSZ) .. 2 * RT_SERIAL_RB_BUFSZ - 1
  PROVE  a % RT_SERIAL_RB_BUFSZ = IF a < 0 THEN a + RT_SERIAL_RB_BUFSZ
                                  ELSE IF a < RT_SERIAL_RB_BUFSZ THEN a
                                  ELSE a - RT_SERIAL_RB_BUFSZ
<1>0. RT_SERIAL_RB_BUFSZ \in Nat \ {0}
  BY SizesFit
<1>1. CASE a < 0
  <2>1. a \in (-RT_SERIAL_RB_BUFSZ) .. -1
    BY <1>0, <1>1
  <2> QED BY <1>0, <1>1, <2>1
<1>2. CASE a \in 0 .. RT_SERIAL_RB_BUFSZ - 1
  BY <1>0, <1>2
<1>3. CASE a \in RT_SERIAL_RB_BUFSZ .. 2 * RT_SERIAL_RB_BUFSZ - 1
  BY <1>0, <1>3
<1> QED BY <1>0, <1>1, <1>2, <1>3

LEMMA AdvanceValue ==
  ASSUME NEW i \in Place
  PROVE  /\ Advance(i) \in Place
         /\ Advance(i) = IF i = RT_SERIAL_RB_BUFSZ - 1 THEN 0 ELSE i + 1
<1>1. /\ RT_SERIAL_RB_BUFSZ \in Nat \ {0} /\ i \in Nat /\ i < RT_SERIAL_RB_BUFSZ
      /\ i + 1 \in (-RT_SERIAL_RB_BUFSZ) .. 2 * RT_SERIAL_RB_BUFSZ - 1 /\ ~(i + 1 < 0)
  BY SizesFit DEF Place
<1>2. (i + 1) % RT_SERIAL_RB_BUFSZ =
        IF i + 1 < RT_SERIAL_RB_BUFSZ THEN i + 1 ELSE i + 1 - RT_SERIAL_RB_BUFSZ
  BY <1>1, RingMod
<1> QED BY <1>1, <1>2 DEF Advance, Place

(* The number of bytes between two places of the ring. *)
Between(g, p) == IF p >= g THEN p - g ELSE p - g + RT_SERIAL_RB_BUFSZ

LEMMA SizeValue ==
  ASSUME NEW g \in Place, NEW p \in Place
  PROVE  /\ (p - g) % RT_SERIAL_RB_BUFSZ = Between(g, p)
         /\ Between(g, p) \in 0 .. RT_SERIAL_RB_BUFSZ - 1
<1>1. /\ RT_SERIAL_RB_BUFSZ \in Nat \ {0} /\ p \in Nat /\ g \in Nat
      /\ p < RT_SERIAL_RB_BUFSZ /\ g < RT_SERIAL_RB_BUFSZ
      /\ p - g \in (-RT_SERIAL_RB_BUFSZ) .. 2 * RT_SERIAL_RB_BUFSZ - 1
  BY SizesFit DEF Place
<1>2. (p - g) % RT_SERIAL_RB_BUFSZ =
        IF p - g < 0 THEN p - g + RT_SERIAL_RB_BUFSZ ELSE p - g
  BY <1>1, RingMod
<1> QED BY <1>1, <1>2 DEF Between

(* The place of the k-th byte from g on. *)
LEMMA NthPlace ==
  ASSUME NEW g \in Place, NEW k \in 1 .. RT_SERIAL_RB_BUFSZ
  PROVE  /\ (g + k - 1) % RT_SERIAL_RB_BUFSZ \in Place
         /\ (g + k - 1) % RT_SERIAL_RB_BUFSZ =
              IF g + k - 1 < RT_SERIAL_RB_BUFSZ THEN g + k - 1
                                                ELSE g + k - 1 - RT_SERIAL_RB_BUFSZ
<1>1. /\ RT_SERIAL_RB_BUFSZ \in Nat \ {0} /\ g \in Nat /\ k \in Nat /\ g < RT_SERIAL_RB_BUFSZ
      /\ g + k - 1 \in (-RT_SERIAL_RB_BUFSZ) .. 2 * RT_SERIAL_RB_BUFSZ - 1 /\ ~(g + k - 1 < 0)
  BY SizesFit DEF Place
<1>2. (g + k - 1) % RT_SERIAL_RB_BUFSZ =
        IF g + k - 1 < RT_SERIAL_RB_BUFSZ THEN g + k - 1 ELSE g + k - 1 - RT_SERIAL_RB_BUFSZ
  BY <1>1, RingMod
<1> QED BY <1>1, <1>2 DEF Place

(* Every byte belongs to a frame. *)
LEMMA FrameOfByte ==
  ASSUME NEW b \in 1 .. Last
  PROVE  FrameOf(b) \in Frame
<1> DEFINE q == (b - 1) \div UART_RECV_SIZE
<1>0. /\ UART_RECV_SIZE \in Nat \ {0} /\ MaxFrame \in Nat \ {0}
      /\ b - 1 \in Nat /\ b - 1 < MaxFrame * UART_RECV_SIZE
  BY SizesFit DEF Last
<1>1. q \in Int /\ UART_RECV_SIZE * q <= b - 1
  BY <1>0
<1>2. q \in Nat
  BY <1>0
<1> HIDE DEF q
<1>3. q < MaxFrame
  <2> SUFFICES ASSUME q >= MaxFrame PROVE FALSE
    BY <1>0, <1>2
  <2>1. UART_RECV_SIZE * q >= UART_RECV_SIZE * MaxFrame
    BY <1>0, <1>2
  <2> QED BY <1>0, <1>1, <1>2, <2>1
<1> QED BY <1>0, <1>2, <1>3 DEF FrameOf, Frame, q

(***************************************************************************)
(* The ring buffer.                                                        *)
(***************************************************************************)

(* What the invariant says of the ring as places and numbers. *)
LEMMA RingFacts ==
  ASSUME GatewayInv
  PROVE  /\ put_index \in Place /\ get_index \in Place
         /\ Size = Between(get_index, put_index) /\ Size \in 0 .. RT_SERIAL_RB_BUFSZ - 1
         /\ taken <= arrived /\ arrived \in 0 .. Last /\ taken \in 0 .. Last
         /\ Size <= arrived - taken
<1>1. put_index \in Place /\ get_index \in Place /\ arrived \in 0 .. Last /\ taken \in 0 .. Last
  BY DEF GatewayInv, GatewayTypeOK
<1>2. Size = Between(get_index, put_index) /\ Size \in 0 .. RT_SERIAL_RB_BUFSZ - 1
  BY <1>1, SizeValue DEF Size
<1> QED BY <1>1, <1>2, SizesFit DEF GatewayInv, RingOK

(* A byte is put in behind the others; in a full buffer the oldest goes.   *)
LEMMA PutcKeepsOrder ==
  ASSUME GatewayInv, Receive
  PROVE  /\ buffer' \in [Place -> 0 .. Last]
         /\ put_index' \in Place /\ get_index' \in Place /\ RingOK'
<1> USE DEF Receive, Putc
<1>0. /\ put_index \in Place /\ get_index \in Place /\ buffer \in [Place -> 0 .. Last]
      /\ RT_SERIAL_RB_BUFSZ \in Nat /\ RT_SERIAL_RB_BUFSZ > 1
      /\ Size = Between(get_index, put_index) /\ Size \in 0 .. RT_SERIAL_RB_BUFSZ - 1
      /\ arrived' = arrived + 1 /\ arrived < Last /\ taken' = taken
      /\ arrived \in Nat /\ taken \in Nat /\ Last \in Nat
  BY RingFacts, SizesFit DEF GatewayInv, GatewayTypeOK, readerVars
<1>1. /\ put_index' \in Place
      /\ put_index' = IF put_index = RT_SERIAL_RB_BUFSZ - 1 THEN 0 ELSE put_index + 1
  BY <1>0, AdvanceValue
<1>2. /\ get_index' \in Place
      /\ get_index' = IF put_index' # get_index THEN get_index
                      ELSE IF get_index = RT_SERIAL_RB_BUFSZ - 1 THEN 0 ELSE get_index + 1
  BY <1>0, AdvanceValue
<1>3. buffer' \in [Place -> 0 .. Last] /\ buffer'[put_index] = arrived + 1
      /\ \A i \in Place : i # put_index => buffer'[i] = buffer[i]
  BY <1>0
<1>4. Size' = Between(get_index', put_index')
  BY <1>1, <1>2, SizeValue DEF Size
<1>5. put_index' = get_index <=> Size = RT_SERIAL_RB_BUFSZ - 1
  BY <1>0, <1>1 DEF Between, Place
<1>6. Size' = IF Size = RT_SERIAL_RB_BUFSZ - 1 THEN Size ELSE Size + 1
  BY SMTT(60), <1>0, <1>1, <1>2, <1>4, <1>5 DEF Between, Place
<1>i. /\ put_index \in Nat /\ put_index < RT_SERIAL_RB_BUFSZ
      /\ get_index \in Nat /\ get_index < RT_SERIAL_RB_BUFSZ
      /\ get_index' \in Nat /\ get_index' < RT_SERIAL_RB_BUFSZ /\ Size \in Nat
      /\ Size = IF put_index >= get_index THEN put_index - get_index
                ELSE put_index - get_index + RT_SERIAL_RB_BUFSZ
      /\ get_index' = IF Size # RT_SERIAL_RB_BUFSZ - 1 THEN get_index
                      ELSE IF get_index = RT_SERIAL_RB_BUFSZ - 1 THEN 0 ELSE get_index + 1
  BY <1>0, <1>2, <1>5 DEF Between, Place
<1>7. ASSUME NEW k \in 1 .. Size'
      PROVE  buffer'[(get_index' + k - 1) % RT_SERIAL_RB_BUFSZ] = arrived' - Size' + k
  <2> PICK x : x = (get_index' + k - 1) % RT_SERIAL_RB_BUFSZ
    OBVIOUS
  <2> PICK n : n = IF Size = RT_SERIAL_RB_BUFSZ - 1 THEN k + 1 ELSE k
    OBVIOUS
  <2>1. k \in 1 .. RT_SERIAL_RB_BUFSZ /\ k \in 1 .. Size + 1
    BY <1>0, <1>6
  <2>2. /\ x \in Place
        /\ x = IF get_index' + k - 1 < RT_SERIAL_RB_BUFSZ THEN get_index' + k - 1
               ELSE get_index' + k - 1 - RT_SERIAL_RB_BUFSZ
    BY <1>2, <2>1, NthPlace
  <2>3. CASE k = Size'
    <3>1. x = put_index
      <4>1. k \in Nat /\ RT_SERIAL_RB_BUFSZ \in Nat /\ RT_SERIAL_RB_BUFSZ > 1
            /\ k = IF Size = RT_SERIAL_RB_BUFSZ - 1 THEN Size ELSE Size + 1
        BY <1>0, <1>6, <2>1, <2>3
      <4> QED BY <1>i, <2>2, <4>1
    <3> QED BY <1>0, <1>3, <1>6, <2>3, <3>1
  <2>4. CASE k # Size'
    <3>1. /\ n \in 1 .. Size /\ n \in 1 .. RT_SERIAL_RB_BUFSZ /\ n \in Nat
          /\ n = IF Size = RT_SERIAL_RB_BUFSZ - 1 THEN k + 1 ELSE k
      BY <1>0, <1>6, <2>1, <2>4
    <3>2. /\ (get_index + n - 1) % RT_SERIAL_RB_BUFSZ \in Place
          /\ (get_index + n - 1) % RT_SERIAL_RB_BUFSZ =
               IF get_index + n - 1 < RT_SERIAL_RB_BUFSZ THEN get_index + n - 1
               ELSE get_index + n - 1 - RT_SERIAL_RB_BUFSZ
      BY <1>0, <3>1, NthPlace
    <3>3. x = (get_index + n - 1) % RT_SERIAL_RB_BUFSZ
      BY <1>0, <1>6, <1>i, <2>1, <2>2, <2>4, <3>1, <3>2
    <3>4. x # put_index
      BY <1>0, <1>i, <3>1, <3>2, <3>3
    <3>5. buffer[x] = arrived - Size + n
      BY <3>1, <3>3 DEF GatewayInv, RingOK
    <3> QED BY <1>0, <1>3, <1>6, <2>1, <2>2, <2>4, <3>4, <3>5
  <2> QED BY <2>3, <2>4
<1>8. Size' = IF arrived' - taken' < RT_SERIAL_RB_BUFSZ THEN arrived' - taken'
              ELSE RT_SERIAL_RB_BUFSZ - 1
  BY <1>0, <1>6 DEF GatewayInv, RingOK
<1> QED BY <1>1, <1>2, <1>3, <1>7, <1>8 DEF RingOK

(* The reader takes the oldest byte, which is younger than the last one    *)
(* it has taken.                                                           *)
LEMMA GetcKeepsOrder ==
  ASSUME GatewayInv, RecvByte
  PROVE  get_index' \in Place /\ RingOK' /\ taken' \in 1 .. Last /\ taken' > taken
<1> USE DEF RecvByte, lineVars
<1>0. /\ put_index \in Place /\ get_index \in Place
      /\ RT_SERIAL_RB_BUFSZ \in Nat /\ RT_SERIAL_RB_BUFSZ > 1
      /\ Size = Between(get_index, put_index) /\ Size \in 1 .. RT_SERIAL_RB_BUFSZ - 1
      /\ arrived \in Nat /\ taken \in Nat /\ Last \in Nat /\ arrived <= Last
      /\ Size <= arrived - taken
      /\ buffer' = buffer /\ put_index' = put_index /\ arrived' = arrived
      /\ taken' = buffer[get_index] /\ get_index' = Advance(get_index)
  BY RingFacts, SizesFit
<1>1. /\ get_index' \in Place
      /\ get_index' = IF get_index = RT_SERIAL_RB_BUFSZ - 1 THEN 0 ELSE get_index + 1
  BY <1>0, AdvanceValue
<1>2. Size' = Between(get_index', put_index)
  BY <1>0, <1>1, SizeValue DEF Size
<1>3. Size' = Size - 1
  BY <1>0, <1>1, <1>2 DEF Between, Place
<1>4. ASSUME NEW k \in 1 .. Size
      PROVE  /\ buffer[(get_index + k - 1) % RT_SERIAL_RB_BUFSZ] = arrived - Size + k
             /\ (get_index + k - 1) % RT_SERIAL_RB_BUFSZ =
                  IF get_index + k - 1 < RT_SERIAL_RB_BUFSZ THEN get_index + k - 1
                  ELSE get_index + k - 1 - RT_SERIAL_RB_BUFSZ
  <2>1. k \in 1 .. RT_SERIAL_RB_BUFSZ
    BY <1>0
  <2> QED BY <1>0, <2>1, NthPlace DEF GatewayInv, RingOK
<1>5. taken' = arrived - Size + 1
  <2>1. 1 \in 1 .. Size /\ get_index + 1 - 1 = get_index /\ get_index < RT_SERIAL_RB_BUFSZ
    BY <1>0 DEF Place
  <2>2. (get_index + 1 - 1) % RT_SERIAL_RB_BUFSZ = get_index
    BY <1>4, <2>1
  <2> QED BY <1>0, <1>4, <2>1, <2>2
<1>6. ASSUME NEW k \in 1 .. Size'
      PROVE  buffer'[(get_index' + k - 1) % RT_SERIAL_RB_BUFSZ] = arrived' - Size' + k
  <2> PICK n : n = k + 1
    OBVIOUS
  <2>1. k \in 1 .. RT_SERIAL_RB_BUFSZ /\ n \in 1 .. Size
    BY <1>0, <1>3
  <2>2. (get_index' + k - 1) % RT_SERIAL_RB_BUFSZ =
          IF get_index' + k - 1 < RT_SERIAL_RB_BUFSZ THEN get_index' + k - 1
          ELSE get_index' + k - 1 - RT_SERIAL_RB_BUFSZ
    BY <1>1, <2>1, NthPlace
  <2>3. (get_index + n - 1) % RT_SERIAL_RB_BUFSZ =
          IF get_index + n - 1 < RT_SERIAL_RB_BUFSZ THEN get_index + n - 1
          ELSE get_index + n - 1 - RT_SERIAL_RB_BUFSZ
    BY <1>4, <2>1
  <2>4. (get_index' + k - 1) % RT_SERIAL_RB_BUFSZ = (get_index + n - 1) % RT_SERIAL_RB_BUFSZ
    BY SMTT(60), <1>0, <1>1, <1>3, <2>1, <2>2, <2>3 DEF Place
  <2>5. buffer[(get_index + n - 1) % RT_SERIAL_RB_BUFSZ] = arrived - Size + n
    BY <1>4, <2>1
  <2>6. arrived - Size + n = arrived - (Size - 1) + k
    BY <1>0, <2>1
  <2> QED BY <1>0, <1>3, <2>4, <2>5, <2>6
<1>7. Size' = IF arrived' - taken' < RT_SERIAL_RB_BUFSZ THEN arrived' - taken'
              ELSE RT_SERIAL_RB_BUFSZ - 1
  BY <1>0, <1>3, <1>5
<1>8. taken' \in 1 .. Last /\ taken' > taken
  BY <1>0, <1>5
<1> QED BY <1>1, <1>6, <1>7, <1>8 DEF RingOK

(***************************************************************************)
(* The interrupts.                                                         *)
(***************************************************************************)

LEMMA RingKept ==
  ASSUME RingOK, UNCHANGED ringVars, arrived' = arrived, taken' = taken
  PROVE  RingOK' /\ Size' = Size
<1>1. Size' = Size
  BY DEF Size, ringVars
<1> QED BY <1>1 DEF RingOK, ringVars

LEMMA ReadKept ==
  ASSUME ReadOK, recv_buff' = recv_buff, taken' = taken
  PROVE  ReadOK'
BY DEF ReadOK

(* The threads are three. *)
LEMMA Threads ==
  reader \in Thread /\ Writer \subseteq Thread /\ \A w \in Writer : w # reader
BY DEF reader, Thread, Writer

LEMMA ReceiveStep ==
  ASSUME GatewayInv, Receive
  PROVE  GatewayInv'
<1>0. GatewayTypeOK /\ ReadOK /\ ReaderOK
  BY DEF GatewayInv
<1>1. /\ buffer' \in [Place -> 0 .. Last]
      /\ put_index' \in Place /\ get_index' \in Place /\ RingOK'
  BY PutcKeepsOrder
<1> USE DEF Receive, readerVars
<1>2. GatewayTypeOK'
  BY <1>0, <1>1, SizesFit DEF GatewayTypeOK
<1>3. ReadOK'
  BY <1>0, ReadKept
<1>4. ReaderOK'
  BY <1>0, SizesFit DEF ReaderOK, NothingStranded, At, Asleep, GatewayTypeOK
<1> QED BY <1>1, <1>2, <1>3, <1>4 DEF GatewayInv

LEMMA TickStep ==
  ASSUME GatewayInv, Tick
  PROVE  GatewayInv'
<1> USE DEF Tick, readerVars
<1>0. GatewayTypeOK /\ RingOK /\ ReadOK /\ ReaderOK
  BY DEF GatewayInv
<1>1. GatewayTypeOK'
  <2>1. /\ quiet' \in 0 .. MinGap /\ rxTimer' \in 0 .. RxTime /\ rxValue' \in Nat
        /\ late' \in 0 .. MaxLate
    BY <1>0, SizesFit DEF GatewayTypeOK
  <2> QED BY <1>0, <2>1 DEF GatewayTypeOK, ringVars
<1>2. RingOK' /\ Size' = Size
  BY <1>0, RingKept
<1>3. ReadOK'
  BY <1>0, ReadKept
<1>4. ReaderOK'
  <2>1. sleep' \in [Thread -> Nat]
    BY <1>0 DEF ReaderOK, Asleep
  <2>2. Asleep(reader)' => Asleep(reader)
    BY <1>0, Threads DEF ReaderOK, Asleep
  <2>3. rxTimer \in Nat /\ late \in Nat /\ RxTime \in Nat /\ MaxLate < RxTime /\ MaxLate \in Nat
        /\ late <= MaxLate /\ rxValue \in Nat
    BY <1>0, SizesFit DEF GatewayTypeOK
  <2>4. ASSUME At(reader, "check"), Len(recv_buff) < UART_RECV_SIZE, Size > 0
        PROVE  rxTimer' >= RxTime - late'
    <3>1. ReaderReady /\ rxTimer >= RxTime - late
      BY <1>0, <2>4 DEF ReaderReady, ReaderOK, At, reader
    <3> QED BY <2>3, <3>1
  <2>5. NothingStranded'
    BY <1>0, <1>2, <2>3 DEF ReaderOK, NothingStranded, At
  <2>6. At(reader, "send")' = At(reader, "send") /\ At(reader, "check")' = At(reader, "check")
        /\ At(reader, "recv")' = At(reader, "recv")
    BY DEF At
  <2> QED BY <1>0, <1>2, <2>1, <2>2, <2>4, <2>5, <2>6 DEF ReaderOK
<1> QED BY <1>1, <1>2, <1>3, <1>4 DEF GatewayInv

(***************************************************************************)
(* The reader.                                                             *)
(***************************************************************************)

LEMMA TakeSemStep ==
  ASSUME GatewayInv, TakeSem
  PROVE  GatewayInv'
<1> USE DEF TakeSem, readerVars, lineVars, SleepThen, Goto
<1>0. GatewayTypeOK /\ RingOK /\ ReadOK /\ ReaderOK
  BY DEF GatewayInv
<1>1. GatewayTypeOK'
  <2>1. rxValue' \in Nat /\ late' \in 0 .. MaxLate
    BY <1>0, SizesFit DEF GatewayTypeOK
  <2>2. pc' \in [Thread -> {"take", "recv", "getc", "check", "answer", "sleep", "begin",
                           "send", "end"}]
    BY <1>0 DEF GatewayTypeOK
  <2> QED BY <1>0, <2>1, <2>2 DEF GatewayTypeOK, ringVars
<1>2. RingOK' /\ Size' = Size
  BY <1>0, RingKept
<1>3. ReadOK'
  BY <1>0, ReadKept
<1>4. ReaderOK'
  BY <1>0, <1>2, SizesFit, Threads DEF ReaderOK, NothingStranded, At, Asleep, GatewayTypeOK
<1> QED BY <1>1, <1>2, <1>3, <1>4 DEF GatewayInv

LEMMA RecvBeginsStep ==
  ASSUME GatewayInv, RecvBegins
  PROVE  GatewayInv'
<1> USE DEF RecvBegins, lineVars, timeVars, Goto
<1>0. GatewayTypeOK /\ RingOK /\ ReadOK /\ ReaderOK
  BY DEF GatewayInv
<1>1. GatewayTypeOK'
  BY <1>0, Threads DEF GatewayTypeOK, ringVars
<1>2. RingOK' /\ Size' = Size
  BY <1>0, RingKept
<1>3. ReadOK'
  <2>1. Len(recv_buff') = 0
    OBVIOUS
  <2> QED BY <2>1 DEF ReadOK
<1>4. ReaderOK'
  BY <1>0, <1>2, Threads DEF ReaderOK, NothingStranded, At, Asleep, GatewayTypeOK
<1> QED BY <1>1, <1>2, <1>3, <1>4 DEF GatewayInv

LEMMA RecvByteStep ==
  ASSUME GatewayInv, RecvByte
  PROVE  GatewayInv'
<1> USE DEF RecvByte, lineVars, timeVars
<1>0. GatewayTypeOK /\ ReadOK /\ ReaderOK
  BY DEF GatewayInv
<1>1. get_index' \in Place /\ RingOK' /\ taken' \in 1 .. Last /\ taken' > taken
  BY GetcKeepsOrder
<1>2. /\ recv_buff \in Seq(1 .. Last) /\ recv_buff' \in Seq(1 .. Last)
      /\ Len(recv_buff') = Len(recv_buff) + 1
      /\ \A i \in 1 .. Len(recv_buff) : recv_buff'[i] = recv_buff[i]
      /\ recv_buff'[Len(recv_buff) + 1] = taken'
  BY <1>0, <1>1, AppendProperties DEF GatewayTypeOK
<1>3. GatewayTypeOK'
  BY <1>0, <1>1, <1>2, SizesFit DEF GatewayTypeOK
<1>4. ReadOK'
  <2>1. Len(recv_buff) \in Nat /\ taken \in Nat /\ taken' \in Nat
        /\ \A i \in 1 .. Len(recv_buff) : recv_buff[i] \in Nat /\ recv_buff[i] <= taken
    <3>1. \A i \in 1 .. Len(recv_buff) : recv_buff[i] \in 1 .. Last
      BY <1>2, ElementOfSeq
    <3> QED BY <1>0, <1>1, <1>2, <3>1, SizesFit DEF GatewayTypeOK, ReadOK
  <2>2. ASSUME NEW i \in 1 .. Len(recv_buff')
        PROVE  recv_buff'[i] <= taken'
    BY <1>1, <1>2, <2>1
  <2>3. ASSUME NEW i \in 1 .. Len(recv_buff'), NEW j \in 1 .. Len(recv_buff'), i < j
        PROVE  recv_buff'[i] < recv_buff'[j]
    <3>0. PICK n \in Nat : n = Len(recv_buff)
      BY <2>1
    <3>1. i \in 1 .. Len(recv_buff) /\ (j \in 1 .. Len(recv_buff) \/ j = Len(recv_buff) + 1)
      BY <1>2, <2>3, <3>0
    <3> QED BY <1>0, <1>1, <1>2, <2>1, <2>3, <3>1 DEF ReadOK
  <2> QED BY <2>2, <2>3 DEF ReadOK
<1>5. ReaderOK'
  BY <1>0 DEF ReaderOK, NothingStranded, At, Asleep
<1> QED BY <1>1, <1>3, <1>4, <1>5 DEF GatewayInv

(* It leaves with a whole frame or an empty buffer. *)
LEMMA RecvEndsStep ==
  ASSUME GatewayInv, RecvEnds
  PROVE  GatewayInv'
<1> USE DEF RecvEnds, lineVars, timeVars, readerVars, Goto
<1>0. GatewayTypeOK /\ RingOK /\ ReadOK /\ ReaderOK
  BY DEF GatewayInv
<1>1. GatewayTypeOK'
  BY <1>0, Threads DEF GatewayTypeOK, ringVars
<1>2. RingOK' /\ Size' = Size
  BY <1>0, RingKept
<1>3. ReadOK'
  BY <1>0, ReadKept
<1>4. ReaderOK'
  <2>1. Size > 0 => ~(Len(recv_buff) < UART_RECV_SIZE)
    BY SizesFit
  <2> QED BY <1>0, <1>2, <2>1, Threads DEF ReaderOK, NothingStranded, At, Asleep, GatewayTypeOK
<1> QED BY <1>1, <1>2, <1>3, <1>4 DEF GatewayInv

(* What has come since it found the buffer empty the timer will announce.  *)
LEMMA ReadShortStep ==
  ASSUME GatewayInv, ReadShort
  PROVE  GatewayInv'
<1> USE DEF ReadShort, lineVars, GiveUp, Goto
<1>0. GatewayTypeOK /\ RingOK /\ ReadOK /\ ReaderOK
  BY DEF GatewayInv
<1>1. GatewayTypeOK'
  <2>1. rxValue' \in Nat /\ late' \in 0 .. MaxLate
    BY <1>0, SizesFit DEF GatewayTypeOK
  <2>2. pc' \in [Thread -> {"take", "recv", "getc", "check", "answer", "sleep", "begin",
                           "send", "end"}]
    BY <1>0 DEF GatewayTypeOK
  <2> QED BY <1>0, <2>1, <2>2 DEF GatewayTypeOK, ringVars
<1>2. RingOK' /\ Size' = Size
  BY <1>0, RingKept
<1>3. ReadOK'
  BY <1>0, ReadKept
<1>4. ReaderOK'
  <2>1. Size > 0 => rxTimer > 0
    BY <1>0, SizesFit DEF ReaderOK, GatewayTypeOK
  <2> QED BY <1>0, <1>2, <2>1, Threads DEF ReaderOK, NothingStranded, At, Asleep, GatewayTypeOK
<1> QED BY <1>1, <1>2, <1>3, <1>4 DEF GatewayInv

LEMMA ReadFrameStep ==
  ASSUME GatewayInv, NEW type \in Kind, ReadFrame(type)
  PROVE  GatewayInv'
<1> USE DEF ReadFrame, lineVars, GiveUp, Goto
<1>0. GatewayTypeOK /\ RingOK /\ ReadOK /\ ReaderOK
  BY DEF GatewayInv
<1>1. GatewayTypeOK'
  <2>1. recv_buff[1] \in 1 .. Last
    BY <1>0, SizesFit DEF GatewayTypeOK
  <2>2. handled' \in Seq(Frame)
    BY <1>0, <2>1, FrameOfByte DEF GatewayTypeOK
  <2>3. /\ rxValue' \in Nat /\ late' \in 0 .. MaxLate /\ replies' \in 0 .. 2
        /\ pc' \in [Thread -> {"take", "recv", "getc", "check", "answer", "sleep", "begin",
                               "send", "end"}]
    BY SMTT(60), <1>0, SizesFit DEF GatewayTypeOK
  <2> QED BY <1>0, <2>2, <2>3 DEF GatewayTypeOK, ringVars
<1>2. RingOK' /\ Size' = Size
  BY <1>0, RingKept
<1>3. ReadOK'
  BY <1>0, ReadKept
<1>4. ReaderOK'
  BY <1>0, <1>2, Threads DEF ReaderOK, NothingStranded, At, Asleep, GatewayTypeOK
<1> QED BY <1>1, <1>2, <1>3, <1>4 DEF GatewayInv

LEMMA AnswerStep ==
  ASSUME GatewayInv, Answer
  PROVE  GatewayInv'
<1> USE DEF Answer, SendBegins, SendEnds, lineVars, readerVars, timeVars, Goto
<1>0. GatewayTypeOK /\ RingOK /\ ReadOK /\ ReaderOK
  BY DEF GatewayInv
<1>1. GatewayTypeOK'
  <2>1. replies' \in 0 .. 2
    BY <1>0 DEF ReaderOK, GatewayTypeOK
  <2> QED BY <1>0, <2>1, Threads DEF GatewayTypeOK, ringVars
<1>2. RingOK' /\ Size' = Size
  BY <1>0, RingKept
<1>3. ReadOK'
  BY <1>0, ReadKept
<1>4. ReaderOK'
  BY <1>0, <1>2, Threads DEF ReaderOK, NothingStranded, At, Asleep, GatewayTypeOK
<1> QED BY <1>1, <1>2, <1>3, <1>4 DEF GatewayInv

LEMMA ReadAgainStep ==
  ASSUME GatewayInv, ReadAgain
  PROVE  GatewayInv'
<1> USE DEF ReadAgain, SleepThen, lineVars, readerVars, Goto
<1>0. GatewayTypeOK /\ RingOK /\ ReadOK /\ ReaderOK
  BY DEF GatewayInv
<1>1. GatewayTypeOK'
  <2>1. rxValue' \in Nat /\ late' \in 0 .. MaxLate
    BY <1>0, SizesFit DEF GatewayTypeOK
  <2>2. pc' \in [Thread -> {"take", "recv", "getc", "check", "answer", "sleep", "begin",
                           "send", "end"}]
    BY <1>0 DEF GatewayTypeOK
  <2> QED BY <1>0, <2>1, <2>2 DEF GatewayTypeOK, ringVars
<1>2. RingOK' /\ Size' = Size
  BY <1>0, RingKept
<1>3. ReadOK'
  BY <1>0, ReadKept
<1>4. ReaderOK'
  BY <1>0, <1>2, SizesFit, Threads DEF ReaderOK, NothingStranded, At, Asleep, GatewayTypeOK
<1> QED BY <1>1, <1>2, <1>3, <1>4 DEF GatewayInv

(***************************************************************************)
(* The writers leave everything of the reader's alone but the mutex.       *)
(***************************************************************************)

LEMMA WriterStep ==
  ASSUME GatewayInv, NEW w \in Writer, WriterWakes(w) \/ WriterSends(w)
  PROVE  GatewayInv'
<1> USE DEF WriterWakes, WriterSends, SendBegins, SendEnds, SleepThen, lineVars, readerVars,
            timeVars, Goto
<1>0. GatewayTypeOK /\ RingOK /\ ReadOK /\ ReaderOK
  BY DEF GatewayInv
<1>1. UNCHANGED ringVars /\ arrived' = arrived /\ taken' = taken /\ recv_buff' = recv_buff
  OBVIOUS
<1>2. RingOK' /\ Size' = Size
  BY <1>0, <1>1, RingKept
<1>3. ReadOK'
  BY <1>0, <1>1, ReadKept
<1>4. /\ pc' \in [Thread -> {"take", "recv", "getc", "check", "answer", "sleep", "begin",
                             "send", "end"}]
      /\ pc'[reader] = pc[reader] /\ sleep' \in [Thread -> Nat] /\ sleep'[reader] = sleep[reader]
      /\ owner' \in Thread \cup {Nobody}
  BY <1>0, SizesFit, Threads DEF GatewayTypeOK, ReaderOK
<1>5. /\ rxTimer' = rxTimer /\ late' = late /\ rxValue' = rxValue /\ replies' = replies
      /\ misfit' = misfit /\ quiet' = quiet /\ handled' = handled
  OBVIOUS
<1>6. GatewayTypeOK'
  BY <1>0, <1>1, <1>4, <1>5 DEF GatewayTypeOK, ringVars
<1>7. ReaderOK'
  BY <1>0, <1>1, <1>2, <1>4, <1>5 DEF ReaderOK, NothingStranded, At, Asleep
<1> QED BY <1>2, <1>3, <1>6, <1>7 DEF GatewayInv

(***************************************************************************)
(* Theorems.                                                               *)
(***************************************************************************)

LEMMA GatewayInvInit == Init => GatewayInv
<1> SUFFICES ASSUME Init PROVE GatewayInv
  OBVIOUS
<1> USE DEF Init
<1>1. 0 \in Place /\ 0 \in 0 .. Last /\ 0 \in 0 .. MinGap /\ 0 \in 0 .. RxTime
      /\ 0 \in 0 .. MaxLate /\ 0 \in Nat /\ 0 \in 0 .. 2
  BY SizesFit DEF Place
<1>2. /\ pc \in [Thread -> {"take", "recv", "getc", "check", "answer", "sleep", "begin",
                            "send", "end"}]
      /\ pc[reader] = "take"
  BY Threads
<1>3. GatewayTypeOK
  BY <1>1, <1>2 DEF GatewayTypeOK
<1>4. Size = 0
  BY <1>1, SizeValue, SizesFit DEF Size, Between, Place
<1>5. RingOK
  BY <1>4, SizesFit DEF RingOK
<1>6. ReadOK
  <2>1. Len(recv_buff) = 0
    OBVIOUS
  <2> QED BY <2>1 DEF ReadOK
<1>7. ReaderOK
  BY <1>1, <1>2, <1>4, Threads DEF ReaderOK, NothingStranded, At, Asleep
<1> QED BY <1>3, <1>5, <1>6, <1>7 DEF GatewayInv

LEMMA GatewayInvNext == GatewayInv /\ [Next]_vars => GatewayInv'
<1> SUFFICES ASSUME GatewayInv, [Next]_vars PROVE GatewayInv'
  OBVIOUS
<1>1. CASE Reader
  BY <1>1, TakeSemStep, RecvBeginsStep, RecvByteStep, RecvEndsStep, ReadShortStep,
     ReadFrameStep, AnswerStep, ReadAgainStep DEF Reader
<1>2. CASE UNCHANGED vars
  <2> USE <1>2 DEF vars, lineVars, readerVars, timeVars
  <2>1. RingOK' /\ Size' = Size
    BY RingKept DEF GatewayInv
  <2>2. ReadOK'
    BY ReadKept DEF GatewayInv
  <2>3. GatewayTypeOK' /\ ReaderOK'
    BY <2>1 DEF GatewayInv, GatewayTypeOK, ReaderOK, NothingStranded, At, Asleep, ringVars
  <2> QED BY <2>1, <2>2, <2>3 DEF GatewayInv
<1> QED BY <1>1, <1>2, ReceiveStep, TickStep, WriterStep DEF Next

LEMMA GatewayInvariant == Spec => []GatewayInv
BY GatewayInvInit, GatewayInvNext, PTL DEF Spec

(* Whatever the receive interrupt does between the reader's steps, the     *)
(* ring buffer holds the youngest bytes the reader has not taken, in the   *)
(* order of their arrival, and what the reader has read is in that order.  *)
THEOREM BytesStayInOrder == Spec => []BytesInOrder
<1>1. GatewayInv => BytesInOrder
  <2> SUFFICES ASSUME GatewayInv PROVE BytesInOrder
    OBVIOUS
  <2>1. \A k \in 1 .. Size : Unread[k] = arrived - Size + k
    BY DEF GatewayInv, RingOK, Unread
  <2> QED BY <2>1 DEF GatewayInv, RingOK, ReadOK, BytesInOrder
<1> QED BY <1>1, GatewayInvariant, PTL

(* Setting rx_sem.value to zero loses no wake-up that matters: what has    *)
(* come since the reader found the buffer empty the timer, which runs      *)
(* longer than the reader may be late, will announce.                      *)
THEOREM NothingStaysBehind == Spec => []NothingStranded
<1>1. GatewayInv => NothingStranded
  BY DEF GatewayInv, ReaderOK
<1> QED BY <1>1, GatewayInvariant, PTL
=============================================================================
