-------------------------- MODULE FileUploadProofs --------------------------
(***************************************************************************)
(* Proofs about FileUpload, for files and packets of any size: the device  *)
(* sees the data phase end once and at its end, and a file that kept its   *)
(* length is whole.  The invariant ties the mark the device has seen to    *)
(* the size of the last write, and a short last write to the end of the    *)
(* file.                                                                   *)
(***************************************************************************)
EXTENDS FileUpload, TLAPS

UnderWay == pc \in {"test", "read", "check", "zlp"}

(* Before the first write there is nothing. *)
Begun ==
  pc = "first" => sent = 0 /\ got = 0 /\ ends = 0 /\ ~eof /\ ~lost

(* What was delivered is the header and what is counted as sent, and the       *)
(* device has seen a mark exactly if the last write left its packet short.     *)
Delivered ==
  UnderWay => /\ got = HDR + sent
              /\ ~lost
              /\ ends = IF last % maxPkt = 0 THEN 0 ELSE 1

(* A write is short only where there is no more to read. *)
ShortIsLast ==
  /\ UnderWay /\ last % maxPkt # 0 => eof \/ sent >= size
  /\ pc = "read" => sent < size

(* A file that was never shorter is read to its end. *)
Kept ==
  ~shrunk => /\ onDisk >= size
             /\ ~eof
             /\ pc \in {"zlp", "sent"} => sent = size

(* When all is over the device has seen its mark, or the empty packet is lost. *)
Over ==
  pc = "sent" => got = HDR + sent /\ ends = (IF lost THEN 0 ELSE 1)

IInv == TypeOK /\ Begun /\ Delivered /\ ShortIsLast /\ Kept /\ Over

------------------------------------------------------------------------------
(* Packets and reads *)

(* What is less than a packet does not fill one. *)
LEMMA LessThanPacket ==
  ASSUME NEW m \in Nat, NEW n \in Nat, 0 < n, n < m
  PROVE  n % m = n
  OBVIOUS

(* Sizes of packets and chunks: whole chunks are whole packets, and the header *)
(* leaves room in the first packet.                                            *)
LEMMA Sizes ==
  ASSUME TypeOK
  PROVE  /\ HDR \in Nat \ {0} /\ maxPkt \in Nat /\ HDR < maxPkt
         /\ Chunk \in Nat \ {0} /\ Chunk % maxPkt = 0
         /\ size \in Nat /\ onDisk \in Nat /\ sent \in 0..size
  BY SizesAssumption DEF TypeOK, Chunk, ChunkOf

(* A read gives what was wanted, or less at the end of the file, as it is now. *)
LEMMA Reads ==
  ASSUME TypeOK, NEW want \in Nat
  PROVE  /\ ReadCount(want) \in 0..want
         /\ ReadCount(want) > 0 => ~eof
         /\ ~eof /\ onDisk >= sent + want => ReadCount(want) = want
  BY Sizes DEF ReadCount, Least, TypeOK

------------------------------------------------------------------------------
(* Steps *)

(* Initially nothing was sent and the file is as long as announced. *)
LEMMA InitIInv == Init => IInv
<1> SUFFICES ASSUME Init
             PROVE  IInv
  OBVIOUS
<1>1. {shrunk, eof, cancel, lost} \subseteq BOOLEAN
  BY DEF Init
<1>2. size \in Nat /\ onDisk = size /\ ~eof /\ ~lost
  BY SizesAssumption DEF Init
<1>3. TypeOK
  BY <1>1, <1>2, SizesAssumption DEF Init, TypeOK
<1> QED
  BY <1>2, <1>3 DEF Init, IInv, Begun, Delivered, ShortIsLast, Kept, Over, UnderWay

(* Other programs and the user change no byte that is on its way. *)
LEMMA WorldSteps ==
  ASSUME IInv, Resize \/ Cancel
  PROVE  IInv'
<1>1. CASE Resize
  <2>1. onDisk' \in 0..MaxSize /\ onDisk' \in Nat /\ size \in Nat
    BY <1>1, Sizes, SizesAssumption DEF Resize, IInv
  <2>2. shrunk' = (shrunk \/ onDisk' < size)
    BY <1>1 DEF Resize
  <2>3. shrunk' \in BOOLEAN
    BY <2>2
  <2>4. ~shrunk' => ~shrunk /\ ~(onDisk' < size)
    BY <2>2
  <2>5. ~shrunk' => onDisk' >= size
    BY <2>1, <2>4
  <2> QED
    BY <1>1, <2>1, <2>3, <2>4, <2>5 DEF Resize, file, device, IInv, TypeOK, Begun, Delivered, ShortIsLast,
                      Kept, Over, UnderWay
<1>2. CASE Cancel
  BY <1>2 DEF Cancel, file, disk, device, IInv, TypeOK, Begun, Delivered, ShortIsLast,
              Kept, Over, UnderWay
<1> QED
  BY <1>1, <1>2

(* The header and the first bytes are one packet, short only if the file ends  *)
(* in it.                                                                      *)
LEMMA FirstPacketStep ==
  ASSUME IInv, FirstPacket
  PROVE  IInv'
<1> DEFINE n == ReadCount(FirstWant)
<1>1. /\ HDR \in Nat \ {0} /\ maxPkt \in Nat /\ HDR < maxPkt
      /\ size \in Nat /\ onDisk \in Nat
      /\ sent = 0 /\ got = 0 /\ ends = 0 /\ ~eof /\ ~lost
  BY Sizes DEF IInv, Begun, FirstPacket
<1>2. /\ FirstWant \in Nat /\ FirstWant <= size /\ HDR + FirstWant <= maxPkt
      /\ FirstWant = size \/ HDR + FirstWant = maxPkt
  BY <1>1 DEF FirstWant, Least
<1>3. /\ n \in 0..FirstWant
      /\ onDisk >= FirstWant => n = FirstWant
  BY <1>1, <1>2, Reads DEF IInv
<1>4. /\ sent' = n /\ last' = HDR + n
      /\ got' = HDR + n /\ lost' = lost /\ pc' = "test"
      /\ ends' = IF (HDR + n) % maxPkt = 0 THEN 0 ELSE 1
      /\ UNCHANGED <<file, disk, cancel>>
  BY <1>1, <1>2, <1>3 DEF FirstPacket, Deliver
<1>9. eof' = (n < FirstWant)
  BY DEF FirstPacket
<1> HIDE DEF n
<1>10. eof' \in BOOLEAN
  BY <1>9
<1>11. eof' <=> n < FirstWant
  BY <1>9, Zenon
<1>5. TypeOK'
  BY <1>1, <1>2, <1>3, <1>4, <1>10 DEF IInv, TypeOK, file, disk
<1>6. Delivered' /\ Begun' /\ Over'
  BY <1>1, <1>4 DEF Delivered, Begun, Over, UnderWay, file
<1>7. ShortIsLast'
  <2>1. CASE HDR + n = maxPkt
    <3>1. last' % maxPkt' = 0
      BY <1>1, <1>4, <2>1 DEF file
    <3> QED
      BY <1>4, <3>1 DEF ShortIsLast
  <2>2. CASE HDR + n # maxPkt
    <3>1. eof' \/ sent' >= size'
      BY <1>1, <1>2, <1>3, <1>4, <1>11, <2>2 DEF file
    <3> QED
      BY <1>4, <3>1 DEF ShortIsLast
  <2> QED
    BY <2>1, <2>2
<1>8. Kept'
  <2>1. ~shrunk => n = FirstWant
    BY <1>1, <1>2, <1>3 DEF IInv, Kept
  <2> QED
    BY <1>1, <1>2, <1>3, <1>4, <1>11, <2>1 DEF IInv, Kept, file, disk
<1> QED
  BY <1>5, <1>6, <1>7, <1>8 DEF IInv

(* The checks between the writes change nothing but where the function is.     *)
LEMMA TestSteps ==
  ASSUME IInv, LoopTest \/ CancelCheck
  PROVE  IInv'
<1>1. size \in Nat /\ sent \in 0..size
  BY Sizes DEF IInv
<1>2. CASE LoopTest
  BY <1>1, <1>2 DEF LoopTest, AllSent, file, disk, device, IInv, TypeOK, Begun, Delivered,
                    ShortIsLast, Kept, Over, UnderWay
<1>3. CASE CancelCheck
  BY <1>1, <1>3 DEF CancelCheck, file, disk, device, IInv, TypeOK, Begun, Delivered,
                    ShortIsLast, Kept, Over, UnderWay
<1> QED
  BY <1>2, <1>3

(* A chunk is written only while the device waits for more, and is short only  *)
(* if it is the last.                                                          *)
LEMMA ReadWriteStep ==
  ASSUME IInv, ReadWrite
  PROVE  IInv'
<1> DEFINE n == ReadCount(Want)
<1>1. /\ HDR \in Nat \ {0} /\ maxPkt \in Nat /\ HDR < maxPkt
      /\ Chunk \in Nat \ {0} /\ Chunk % maxPkt = 0
      /\ size \in Nat /\ onDisk \in Nat /\ sent \in 0..size
      /\ sent < size
  BY Sizes DEF IInv, ShortIsLast, ReadWrite
<1>2. /\ Want \in Nat \ {0} /\ sent + Want <= size
      /\ Want = Chunk \/ sent + Want = size
  BY <1>1 DEF Want, Least
<1>3. /\ n \in 0..Want
      /\ n > 0 => ~eof
      /\ ~eof /\ onDisk >= sent + Want => n = Want
  BY <1>2, Reads DEF IInv
<1>4. /\ got = HDR + sent /\ ~lost
      /\ ends = IF last % maxPkt = 0 THEN 0 ELSE 1
      /\ last % maxPkt # 0 => eof
  BY <1>1 DEF IInv, Delivered, ShortIsLast, UnderWay, ReadWrite
<1>5. eof' = (n < Want) /\ UNCHANGED <<file, disk, cancel>>
  BY DEF ReadWrite
<1>8. (eof' <=> n < Want) /\ eof' \in BOOLEAN
  <2> HIDE DEF n
  <2>1. eof' = (n < Want)
    BY <1>5
  <2>2. eof' \in BOOLEAN
    BY <2>1
  <2>3. eof' <=> n < Want
    BY <2>1, Zenon
  <2> QED
    BY <2>2, <2>3
<1>6. CASE n = 0
  <2>1. pc' = "zlp" /\ UNCHANGED <<sent, last, device>>
    BY <1>6 DEF ReadWrite, AfterEmptyRead
  <2>2. ~shrunk => FALSE
    BY <1>1, <1>2, <1>3, <1>6 DEF IInv, Kept
  <2> QED
    BY <1>1, <1>2, <1>4, <1>5, <1>6, <2>1, <2>2
    DEF IInv, TypeOK, Begun, Delivered, ShortIsLast, Kept, Over, UnderWay, file, disk, device
<1>7. CASE n # 0
  <2>1. ends = 0
    BY <1>3, <1>4, <1>7
  <2>2. /\ pc' = "check" /\ sent' = sent + n /\ last' = n
        /\ got' = got + n /\ lost' = lost
        /\ ends' = IF n % maxPkt = 0 THEN 0 ELSE 1
    BY <1>7, <2>1 DEF ReadWrite, Count, Deliver
  <2> HIDE DEF n
  <2>3. TypeOK'
    BY <1>1, <1>2, <1>3, <1>4, <1>5, <2>2 DEF IInv, TypeOK, file, disk
  <2>4. Delivered' /\ Begun' /\ Over'
    BY <1>1, <1>3, <1>4, <1>5, <2>2 DEF Delivered, Begun, Over, UnderWay, file
  <2>5. ShortIsLast'
    <3>1. CASE n = Chunk
      BY <1>1, <1>5, <2>2, <3>1 DEF ShortIsLast, file
    <3>2. CASE n # Chunk
      <4>1. eof' \/ sent' >= size'
        BY <1>1, <1>2, <1>3, <1>5, <1>8, <2>2, <3>2 DEF file
      <4> QED
        BY <2>2, <4>1 DEF ShortIsLast
    <3> QED
      BY <3>1, <3>2
  <2>6. Kept'
    <3>1. ~shrunk => n = Want
      BY <1>1, <1>2, <1>3 DEF IInv, Kept
    <3> QED
      BY <1>1, <1>2, <1>3, <1>5, <1>8, <2>2, <3>1 DEF IInv, Kept, file, disk
  <2> QED
    BY <2>3, <2>4, <2>5, <2>6 DEF IInv
<1> QED
  BY <1>6, <1>7

(* A write that fails ends it all. *)
LEMMA WriteFailsStep ==
  ASSUME IInv, WriteFails
  PROVE  IInv'
<1>1. maxPkt \in Nat /\ maxPkt > 0 /\ got \in Nat
  BY Sizes DEF IInv, TypeOK
<1>2. PICK k \in 0..(WriteSize \div maxPkt) : got' = got + k * maxPkt
  BY DEF WriteFails
<1>3. k \in Nat
  OBVIOUS
<1>4. got' \in Nat
  BY <1>1, <1>2, <1>3
<1> QED
  BY <1>4 DEF WriteFails, file, disk, IInv, TypeOK, Begun, Delivered, ShortIsLast, Kept, Over,
              UnderWay

(* The empty packet is the one mark of a phase that ended on a full packet.    *)
LEMMA ZlpStep ==
  ASSUME IInv, Zlp
  PROVE  IInv'
<1>1. /\ pc = "zlp" /\ pc' = "sent"
      /\ UNCHANGED <<file, disk, eof, cancel, sent, last, got>>
  BY DEF Zlp
<1>2. /\ got = HDR + sent /\ ~lost /\ lost = FALSE
      /\ ends = IF last % maxPkt = 0 THEN 0 ELSE 1
  BY <1>1 DEF IInv, TypeOK, Delivered, UnderWay
<1>3. \/ ends' = 1 /\ lost' = FALSE
      \/ ends' = 0 /\ lost' = TRUE
  <2>1. CASE last % maxPkt = 0
    <3>1. ends = 0
      BY <1>2, <2>1
    <3>2. (ends' = ends + 1 /\ lost' = lost) \/ (lost' = TRUE /\ ends' = ends)
      BY <2>1, Zenon DEF Zlp, NeedsZlp
    <3>3. CASE ends' = ends + 1 /\ lost' = lost
      <4>1. ends' = 1
        BY <3>1, <3>3
      <4> QED
        BY <4>1, <3>3, <1>2, Zenon
    <3>4. CASE lost' = TRUE /\ ends' = ends
      BY <3>1, <3>4, Zenon
    <3> QED
      BY <3>2, <3>3, <3>4
  <2>2. CASE last % maxPkt # 0
    <3>1. ends = 1
      BY <1>2, <2>2
    <3>2. ends' = ends /\ lost' = lost
      BY <2>2, Zenon DEF Zlp, NeedsZlp
    <3> QED
      BY <3>1, <3>2, <1>2, Zenon
  <2> QED
    BY <2>1, <2>2
<1>4. TypeOK'
  <2>1. lost' \in BOOLEAN
    BY <1>3, Zenon
  <2>2. ends' \in Nat
    BY <1>3
  <2> QED
    BY <1>1, <2>1, <2>2 DEF IInv, TypeOK, file, disk
<1>5. Over'
  BY <1>1, <1>2, <1>3 DEF Over
<1>6. Kept'
  BY <1>1 DEF IInv, Kept, file, disk
<1> QED
  BY <1>1, <1>4, <1>5, <1>6 DEF IInv, Begun, Delivered, ShortIsLast, UnderWay

(* The invariant holds in every state. *)
LEMMA Invariance == Spec => []IInv
<1>1. IInv /\ [Next]_vars => IInv'
  <2> SUFFICES ASSUME IInv, [Next]_vars
               PROVE  IInv'
    OBVIOUS
  <2>1. CASE UNCHANGED vars
    BY <2>1 DEF vars, file, disk, device, IInv, TypeOK, Begun, Delivered, ShortIsLast, Kept,
                Over, UnderWay
  <2> QED
    BY <2>1, WorldSteps, FirstPacketStep, TestSteps, ReadWriteStep, WriteFailsStep, ZlpStep
    DEF Next
<1> QED
  BY <1>1, InitIInv, PTL DEF Spec

------------------------------------------------------------------------------
(* Theorems *)

(* Every variable of an upload keeps its type; never more than the announced   *)
(* length of the file is sent.                                                 *)
THEOREM TypeCorrect == Spec => []TypeOK
<1>1. IInv => TypeOK
  BY DEF IInv
<1> QED
  BY <1>1, Invariance, PTL

(* When send_data_from_file returns the device has seen the phase end, once,   *)
(* or the empty packet meant for that got lost.                                *)
THEOREM EndSeen == Spec => []EndIsSeen
<1>1. IInv => EndIsSeen
  BY DEF IInv, Over, EndIsSeen
<1> QED
  BY <1>1, Invariance, PTL

(* A file that was never shorter than announced arrives whole, and its length  *)
(* is the one in the container's header unless 32 bits do not hold it.         *)
THEOREM WholeUpload == Spec => []Complete
<1>1. IInv => Complete
  <2> SUFFICES ASSUME IInv, pc = "sent", ~shrunk
               PROVE  got = HDR + size /\ (got = WireLen \/ got > MaxLen)
    BY DEF Complete
  <2>1. got = HDR + size
    BY DEF IInv, Kept, Over
  <2>2. HDR + size \in Nat /\ MaxLen \in Nat
    BY Sizes, SizesAssumption DEF IInv
  <2> QED
    BY <2>1, <2>2 DEF WireLen, Least
<1> QED
  BY <1>1, Invariance, PTL

(* After the short packet the device takes for the end, send_data_from_file    *)
(* writes nothing: no byte, and no empty packet.                               *)
THEOREM NothingFollows == Spec => NothingAfterEnd
<1>1. ASSUME IInv, [Next]_vars, ends > 0
      PROVE  UNCHANGED <<got, ends>>
  <2>1. CASE UNCHANGED vars
    BY <2>1 DEF vars, device
  <2>2. CASE Resize \/ Cancel \/ LoopTest \/ CancelCheck
    BY <2>2 DEF Resize, Cancel, LoopTest, CancelCheck, device
  <2>3. pc # "first"
    BY <1>1 DEF IInv, Begun
  <2>4. UnderWay => last % maxPkt # 0
    BY <1>1 DEF IInv, Delivered
  <2>5. pc = "read" => ReadCount(Want) = 0
    <3> SUFFICES ASSUME pc = "read"
                 PROVE  eof
      BY DEF ReadCount
    <3>1. size \in Nat /\ sent \in Nat /\ sent < size
      BY <1>1, Sizes DEF IInv, ShortIsLast
    <3>2. eof \/ sent >= size
      BY <1>1, <2>4 DEF IInv, ShortIsLast, UnderWay
    <3> QED
      BY <3>1, <3>2
  <2>6. CASE FirstPacket
    BY <2>3, <2>6 DEF FirstPacket
  <2>7. CASE ReadWrite
    BY <2>5, <2>7 DEF ReadWrite, device
  <2>8. CASE WriteFails
    BY <2>3, <2>5, <2>8 DEF WriteFails, WriteSize
  <2>9. CASE Zlp
    BY <2>4, <2>9 DEF Zlp, NeedsZlp, UnderWay
  <2> QED
    BY <1>1, <2>1, <2>2, <2>6, <2>7, <2>8, <2>9 DEF Next
<1>2. IInv /\ [Next]_vars => [ends > 0 => UNCHANGED <<got, ends>>]_vars
  BY <1>1
<1> QED
  BY <1>2, Invariance, PTL DEF Spec, NothingAfterEnd
=============================================================================
