------------------------- MODULE DataPhaseInProofs -------------------------
(***************************************************************************)
(* Proofs about DataPhaseIn, for payloads, packets and chunks of any size. *)
(* The invariant accounts for every byte: until a byte of the response got *)
(* into the data, what was received and what is in the pipe are together   *)
(* what the device sends; after that the pipe is empty and the call can    *)
(* only fail.                                                              *)
(***************************************************************************)
EXTENDS DataPhaseIn, TLAPS

Empty == [data |-> 0, zlp |-> FALSE, resp |-> FALSE]

Typed ==
  /\ size \in Nat
  /\ pipe \in [data : Nat, zlp : BOOLEAN, resp : BOOLEAN]
  /\ total \in Nat /\ have \in Nat /\ foreign \in 0..HDR
  /\ answer \in {"whole", "cut", "refuse"}
  /\ answer = "whole" => code = "OK"
  /\ answer = "cut" => code \in {"Error", "TransactionCancelled"}
  /\ answer = "refuse" => code = "Error"

(* Before the first read; a read is only made where something is missing; no   *)
(* more was received than sent.                                                *)
Placed ==
  /\ pc = "header" => /\ total = 0 /\ have = 0 /\ foreign = 0
                      /\ answer = "refuse" => pipe.data = 0 /\ ~pipe.zlp
                      /\ answer # "refuse" => pipe.data > 0
  /\ pc = "read" => have < total
  /\ pc # "end" => outcome = "none"
  /\ have + pipe.data <= Container + foreign

(* The response is in the pipe until some of it was read as data. *)
Answered ==
  pc # "end" => IF foreign = 0 THEN pipe.resp ELSE pipe = Empty

(* Every byte of a container whose length fits is received or in the pipe, and *)
(* when the response is read all of them were received.                        *)
Accounted ==
  (Fits /\ pc # "end" /\ foreign = 0) =>
    /\ answer = "whole" => have + pipe.data = Container
    /\ answer = "cut" => have + pipe.data < Container
    /\ pc # "header" => answer # "refuse" /\ total = Container
    /\ pc = "response" => pipe.data = 0 /\ (answer = "cut" => ~pipe.zlp)

(* A container that does not fill its last packet is followed by no empty      *)
(* packet, and the reads end where packets do.                                 *)
Unaligned == answer = "whole" /\ Fits /\ Container % MaxPkt # 0
Separate ==
  (Unaligned /\ pc # "end") =>
    /\ foreign = 0 /\ ~pipe.zlp
    /\ pipe.data > 0 => have % MaxPkt = 0

IInv ==
  /\ TypeOK /\ Typed /\ Placed /\ Answered /\ Accounted /\ Separate
  /\ OkIsWhole /\ OkLeavesPipeEmpty /\ UnalignedArrives

------------------------------------------------------------------------------
(* Packets and reads *)

(* The remainder of a sum of a multiple and a remainder. *)
LEMMA RemainderOf ==
  ASSUME NEW m \in Nat \ {0}, NEW t \in Nat, NEW r \in 0..(m - 1)
  PROVE  (m * t + r) % m = r
  OBVIOUS

(* Multiples of the packet size add up to one. *)
LEMMA MultiplesAdd ==
  ASSUME NEW m \in Nat \ {0}, NEW a \in Nat, NEW b \in Nat, a % m = 0
  PROVE  (a + b) % m = b % m
<1> DEFINE q == a \div m
           p == b \div m
           r == b % m
<1>1. q \in Nat /\ a = m * q
  OBVIOUS
<1>2. p \in Nat /\ r \in 0..(m - 1)
  OBVIOUS
<1>3. r = b - m * p
  OBVIOUS
<1> HIDE DEF q, p, r
<1>4. m * (q + p) = m * q + m * p /\ q + p \in Nat
  BY <1>1, <1>2
<1> DEFINE t == q + p
<1>5. t \in Nat /\ a + b = m * t + r
  BY <1>1, <1>2, <1>3, <1>4
<1> HIDE DEF t
<1>6. (m * t + r) % m = r
  BY <1>2, <1>5, RemainderOf
<1> QED
  BY <1>5, <1>6 DEF r

(* The packets of a buffer hold at least as much, and no more if it is whole   *)
(* packets.                                                                    *)
LEMMA PacketsHold ==
  ASSUME NEW n \in Nat
  PROVE  /\ Packets(n) \in Nat /\ Packets(n) >= n
         /\ n % MaxPkt = 0 => Packets(n) = n
<1>1. MaxPkt \in Nat \ {0}
  BY SizesAssumption
<1> DEFINE x == n + MaxPkt - 1
           q == x \div MaxPkt
           whole == q * MaxPkt
           over == x % MaxPkt
<1>2. x \in Nat
  BY <1>1
<1>3. Packets(n) = q * MaxPkt
  BY DEF Packets
<1> HIDE DEF x
<1>4. q \in Nat /\ x % MaxPkt \in 0..(MaxPkt - 1)
  BY <1>1, <1>2
<1>5. x % MaxPkt = x - MaxPkt * q
  BY <1>1, <1>2
<1>6. MaxPkt * q = q * MaxPkt /\ q * MaxPkt \in Nat
  BY <1>1, <1>4
<1>7. whole = n + (MaxPkt - 1) - over
  <2> HIDE DEF q
  <2> QED
    BY <1>1, <1>4, <1>5, <1>6 DEF x
<1>8. ASSUME n % MaxPkt = 0
      PROVE  x % MaxPkt = MaxPkt - 1
  <2>1. (MaxPkt - 1) % MaxPkt = MaxPkt - 1 /\ MaxPkt - 1 \in Nat
    BY <1>1
  <2>2. x = n + (MaxPkt - 1)
    BY <1>1 DEF x
  <2> QED
    BY <1>1, <1>8, <2>1, <2>2, MultiplesAdd
<1>9. whole \in Nat /\ whole = n + (MaxPkt - 1) - over /\ over \in 0..(MaxPkt - 1)
  <2>1. whole \in Nat
    BY <1>6, Zenon
  <2>2. whole = n + (MaxPkt - 1) - over
    BY <1>7
  <2>3. over \in 0..(MaxPkt - 1)
    BY <1>4, Zenon
  <2> QED
    BY <2>1, <2>2, <2>3, Zenon
<1>10. n % MaxPkt = 0 => over = MaxPkt - 1
  BY <1>8, Zenon
<1> HIDE DEF q, whole, over
<1>11. whole >= n /\ (n % MaxPkt = 0 => whole = n)
  BY <1>1, <1>9, <1>10
<1> QED
  BY <1>3, <1>9, <1>11, Zenon DEF whole

(* What any read does to the pipe. *)
LEMMA ReadKeeps ==
  ASSUME Typed, NEW n \in Nat \ {0}, NEW d, NEW r, BulkRead(n, d, r)
  PROVE  /\ pipe' \in [data : Nat, zlp : BOOLEAN, resp : BOOLEAN]
         /\ d \in Nat /\ d <= n /\ r \in 0..HDR
         /\ d + pipe'.data <= pipe.data
         /\ pipe.zlp \/ ~pipe'.zlp
         /\ r = 0 /\ pipe.resp => pipe'.resp
         /\ d = 0 => pipe.data = 0
         /\ pipe'.data > 0 => d = n
         /\ r > 0 => /\ pipe' = Empty /\ r = Least(HDR, n - d)
                     /\ pipe.data % MaxPkt = 0 /\ ~pipe.zlp
                     /\ d = pipe.data /\ d < n
         /\ d + r = 0 => pipe.data = 0 /\ pipe.zlp /\ pipe'.data = 0 /\ ~pipe'.zlp
<1>1. HDR \in Nat \ {0} /\ MaxPkt \in Nat
  BY SizesAssumption
<1>2. Packets(n) \in Nat /\ Packets(n) >= n
  BY PacketsHold
<1>3. /\ pipe \in [data : Nat, zlp : BOOLEAN, resp : BOOLEAN]
      /\ pipe.data \in Nat /\ pipe.zlp \in BOOLEAN /\ pipe.resp \in BOOLEAN
      /\ pipe = [data |-> pipe.data, zlp |-> pipe.zlp, resp |-> pipe.resp]
  BY DEF Typed
<1>4. CASE Filled(n, d, r)
  BY <1>1, <1>2, <1>3, <1>4 DEF Filled, Least
<1>5. CASE Ended(n, d, r)
  <2>1. 0 % MaxPkt = 0
    BY SizesAssumption
  <2>2. /\ pipe' = [data |-> 0, zlp |-> FALSE, resp |-> pipe.resp]
        /\ d = pipe.data /\ r = 0 /\ d < n
        /\ d = 0 => pipe.zlp
    BY <1>3, <1>5, <2>1 DEF Ended
  <2> QED
    BY <1>1, <1>3, <2>2
<1>6. CASE RanOn(n, d, r)
  <2>1. /\ pipe.zlp = FALSE /\ pipe.data % MaxPkt = 0
        /\ d = pipe.data /\ d < n /\ r \in 1..HDR /\ r = Least(HDR, n - d)
    BY <1>1, <1>3, <1>6 DEF RanOn, Least
  <2>2. pipe' = Empty
    BY <1>3, <1>6, <2>1 DEF RanOn, Empty
  <2>3. /\ pipe' \in [data : Nat, zlp : BOOLEAN, resp : BOOLEAN]
        /\ pipe'.data = 0 /\ pipe'.zlp = FALSE
    BY <2>2 DEF Empty
  <2>4. r # 0 /\ d + r # 0
    BY <1>1, <1>3, <2>1
  <2> QED
    BY <1>1, <1>3, <2>1, <2>2, <2>3, <2>4
<1> QED
  BY <1>4, <1>5, <1>6 DEF BulkRead

(* A read of whole packets, or of all there is, loses nothing.                 *)
LEMMA ReadLosesNothing ==
  ASSUME Typed, NEW n \in Nat \ {0}, NEW d, NEW r, BulkRead(n, d, r),
         n % MaxPkt = 0 \/ pipe.data <= n, r = 0
  PROVE  d + pipe'.data = pipe.data
<1>1. HDR \in Nat \ {0} /\ MaxPkt \in Nat
  BY SizesAssumption
<1>2. Packets(n) \in Nat /\ Packets(n) >= n /\ (n % MaxPkt = 0 => Packets(n) = n)
  BY PacketsHold
<1>3. /\ pipe \in [data : Nat, zlp : BOOLEAN, resp : BOOLEAN]
      /\ pipe.data \in Nat
  BY DEF Typed
<1>4. CASE Filled(n, d, r)
  BY <1>2, <1>3, <1>4 DEF Filled, Least
<1>5. CASE Ended(n, d, r)
  BY <1>3, <1>5 DEF Ended
<1>6. CASE RanOn(n, d, r)
  BY <1>1, <1>3, <1>6 DEF RanOn, Least
<1> QED
  BY <1>4, <1>5, <1>6 DEF BulkRead

(* Nothing is read from an empty pipe. *)
LEMMA EmptyGivesNothing ==
  ASSUME NEW n \in Nat \ {0}, NEW d, NEW r, BulkRead(n, d, r)
  PROVE  pipe # Empty
<1> SUFFICES ASSUME pipe = Empty
             PROVE  FALSE
  OBVIOUS
<1>1. pipe.data = 0 /\ ~pipe.zlp /\ ~pipe.resp
  BY DEF Empty
<1>2. 0 % MaxPkt = 0
  BY SizesAssumption
<1> QED
  BY <1>1, <1>2 DEF BulkRead, Filled, Ended, RanOn

(* What the sizes are to each other. *)
LEMMA Sizing ==
  ASSUME Typed
  PROVE  /\ HDR \in Nat \ {0} /\ MaxPkt \in Nat \ {0} /\ HDR < MaxPkt
         /\ Chunk \in Nat \ {0} /\ HDR < Chunk /\ Chunk % MaxPkt = 0
         /\ Container \in Nat /\ Container >= HDR
         /\ LengthField \in Nat /\ (Fits => LengthField = Container)
  BY SizesAssumption DEF Typed, Container, LengthField, Least, Fits

------------------------------------------------------------------------------
(* Steps *)

(* Before the first read everything the device sends is in the pipe. *)
LEMMA InitIInv == Init => IInv
<1> SUFFICES ASSUME Init
             PROVE  IInv
  OBVIOUS
<1>1. /\ size \in Nat /\ pc = "header" /\ total = 0 /\ have = 0 /\ foreign = 0
      /\ cancel = FALSE /\ fault = FALSE /\ outcome = "none"
  BY SizesAssumption DEF Init
<1>2. HDR \in Nat \ {0} /\ MaxPkt \in Nat \ {0} /\ Container \in Nat /\ Container >= HDR
  BY <1>1, SizesAssumption DEF Container
<1>3. /\ answer \in {"whole", "cut", "refuse"}
      /\ answer = "whole" => code = "OK"
      /\ answer = "cut" => code \in {"Error", "TransactionCancelled"}
      /\ answer = "refuse" => code = "Error"
  BY DEF Init
<1>4. PICK sends \in (CASE answer = "whole"  -> {Container}
                        [] answer = "cut"    -> HDR..(Container - 1)
                        [] answer = "refuse" -> {0}),
           zlp \in BOOLEAN :
        pipe = [data |-> sends, zlp |-> zlp /\ sends > 0 /\ sends % MaxPkt = 0, resp |-> TRUE]
  BY Zenon DEF Init
<1>5. /\ sends \in Nat /\ sends <= Container
      /\ answer = "whole" => sends = Container
      /\ answer = "cut" => sends > 0 /\ sends < Container
      /\ answer = "refuse" => sends = 0
  BY <1>2, <1>3, <1>4
<1> DEFINE mark == zlp /\ sends > 0 /\ sends % MaxPkt = 0
<1>6. mark \in BOOLEAN /\ (mark => sends > 0 /\ sends % MaxPkt = 0)
  OBVIOUS
<1>7. pipe.data = sends /\ pipe.zlp = mark /\ pipe.resp = TRUE
      /\ pipe = [data |-> sends, zlp |-> mark, resp |-> TRUE]
  BY <1>4
<1> HIDE DEF mark
<1>8. Typed
  BY <1>1, <1>2, <1>3, <1>5, <1>6, <1>7 DEF Typed
<1>9. TypeOK
  <2>1. pipe.zlp \in BOOLEAN /\ pipe.resp \in BOOLEAN
    BY <1>8 DEF Typed
  <2>2. pipe.data \in 0..Container /\ have \in 0..(Container + HDR) /\ foreign \in 0..HDR
    BY <1>1, <1>2, <1>5, <1>7
  <2> QED
    BY <1>1, <2>1, <2>2 DEF TypeOK
<1>10. Placed /\ Answered
  BY <1>1, <1>2, <1>3, <1>5, <1>6, <1>7 DEF Placed, Answered
<1>11. Accounted
  BY <1>1, <1>2, <1>5, <1>7 DEF Accounted
<1>12. Separate
  BY <1>1, <1>2, <1>5, <1>6, <1>7 DEF Separate, Unaligned
<1> QED
  BY <1>1, <1>8, <1>9, <1>10, <1>11, <1>12 DEF IInv, OkIsWhole, OkLeavesPipeEmpty, UnalignedArrives

(* The first read brings the start of the container, with its length.          *)
LEMMA HeaderStep ==
  ASSUME IInv, ReadHeader
  PROVE  IInv'
<1>1. Typed /\ pc = "header" /\ have = 0 /\ foreign = 0 /\ outcome = "none"
      /\ UNCHANGED <<device, cancel, fault>>
  BY DEF IInv, Placed, ReadHeader
<1>2. /\ HDR \in Nat \ {0} /\ MaxPkt \in Nat \ {0}
      /\ Chunk \in Nat \ {0} /\ Chunk % MaxPkt = 0
      /\ Container \in Nat /\ Container > 0 /\ LengthField \in Nat
      /\ Fits => LengthField = Container
  BY <1>1, Sizing
<1>3. PICK d, r :
        /\ BulkRead(Chunk, d, r) /\ have' = d + r /\ foreign' = r /\ total' = TotalOf(d)
        /\ IF Rejects(d = 0)
             THEN Stop("failed")
             ELSE pc' = "loop" /\ UNCHANGED outcome
  BY DEF ReadHeader
<1>4. /\ pipe' \in [data : Nat, zlp : BOOLEAN, resp : BOOLEAN]
      /\ d \in Nat /\ d <= Chunk /\ r \in 0..HDR
      /\ d + pipe'.data <= pipe.data
      /\ pipe.zlp \/ ~pipe'.zlp
      /\ r = 0 /\ pipe.resp => pipe'.resp
      /\ d = 0 => pipe.data = 0
      /\ pipe'.data > 0 => d = Chunk
      /\ r > 0 => /\ pipe' = Empty
                  /\ pipe.data % MaxPkt = 0 /\ ~pipe.zlp /\ d = pipe.data
      /\ d + r = 0 => pipe.data = 0 /\ pipe.zlp
  BY <1>1, <1>2, <1>3, ReadKeeps
<1>5. r = 0 => d + pipe'.data = pipe.data
  BY <1>1, <1>2, <1>3, ReadLosesNothing
<1>6. /\ pipe.data \in Nat /\ pipe.data <= Container
      /\ pipe.resp
      /\ answer = "refuse" => pipe.data = 0 /\ ~pipe.zlp
      /\ answer # "refuse" => pipe.data > 0
  BY <1>1, <1>2 DEF IInv, TypeOK, Typed, Placed, Answered
<1>7. Typed'
  BY <1>1, <1>2, <1>3, <1>4 DEF Typed, device, TotalOf
<1>8. TypeOK'
  BY <1>1, <1>2, <1>3, <1>4, <1>6
  DEF IInv, TypeOK, Typed, device, TotalOf, Stop, Container, LengthField
<1>9. Placed' /\ Answered'
  <2>1. \/ pc' = "loop" /\ outcome' = "none"
        \/ pc' = "end"
    BY <1>1, <1>3 DEF Stop
  <2>2. Container' = Container
    BY <1>1 DEF Container, device
  <2>3. have' + pipe'.data <= Container' + foreign'
    BY <1>2, <1>3, <1>4, <1>6, <2>2
  <2>4. Answered'
    <3>1. CASE r = 0
      BY <1>3, <1>4, <1>6, <3>1 DEF Answered
    <3>2. CASE r # 0
      BY <1>2, <1>3, <1>4, <3>2 DEF Answered
    <3> QED
      BY <3>1, <3>2
  <2> QED
    BY <2>1, <2>3, <2>4 DEF Placed
<1>10. Accounted'
  <2> SUFFICES ASSUME Fits, pc' # "end", r = 0
               PROVE  /\ answer = "whole" => have' + pipe'.data = Container
                      /\ answer = "cut" => have' + pipe'.data < Container
                      /\ answer # "refuse" /\ total' = Container
                      /\ pc' = "loop"
    BY <1>1, <1>3 DEF Accounted, Fits, Container, device, Stop
  <2>1. /\ answer = "whole" => pipe.data = Container
        /\ answer = "cut" => pipe.data < Container
    BY <1>1, <1>6 DEF IInv, Accounted
  <2>2. d > 0
    BY <1>4, <1>6
  <2> QED
    BY <1>2, <1>3, <1>4, <1>5, <1>6, <2>1, <2>2 DEF TotalOf, Stop
<1>11. Separate'
  <2> SUFFICES ASSUME Unaligned
               PROVE  r = 0 /\ ~pipe'.zlp /\ (pipe'.data > 0 => have' % MaxPkt = 0)
    BY <1>1, <1>3 DEF Separate, Unaligned, Fits, Container, device
  <2>1. pipe.data = Container
    BY <1>1, <1>2, <1>6 DEF IInv, Accounted, Unaligned
  <2>2. ~pipe.zlp
    BY <1>1 DEF IInv, Separate
  <2>3. r = 0
    BY <1>4, <2>1 DEF Unaligned
  <2> QED
    BY <1>2, <1>3, <1>4, <2>2, <2>3
<1>12. outcome' # "ok"
  BY <1>1, <1>3 DEF Stop
<1>13. UnalignedArrives'
  BY <1>1, <1>3, <1>4, <1>6, <1>12 DEF UnalignedArrives, Rejects, Stop, device
<1> QED
  BY <1>7, <1>8, <1>9, <1>10, <1>11, <1>12, <1>13 DEF IInv, OkIsWhole, OkLeavesPipeEmpty

(* The loop's tests end it when the container is complete or on a cancel. *)
LEMMA LoopStep ==
  ASSUME IInv, LoopTest
  PROVE  IInv'
<1>1. /\ Typed /\ pc = "loop" /\ outcome = "none"
      /\ UNCHANGED <<device, pipe, total, have, foreign, cancel, fault>>
  BY DEF IInv, Placed, LoopTest
<1>2. /\ have \in Nat /\ total \in Nat /\ pipe.data \in Nat /\ Container \in Nat
      /\ Container' = Container /\ (Fits' <=> Fits)
  BY <1>1, Sizing DEF Typed, Container, Fits, device
<1>3. CASE Received
  <2>1. have >= total /\ pc' = "response" /\ outcome' = outcome
    BY <1>1, <1>3 DEF LoopTest, Received
  <2>2. Accounted'
    <3> SUFFICES ASSUME Fits, foreign = 0
                 PROVE  /\ answer = "whole" => have + pipe.data = Container
                        /\ answer # "refuse" /\ answer # "cut" /\ total = Container
                        /\ pipe.data = 0
      BY <1>1, <1>2, <2>1 DEF Accounted, device
    <3>1. /\ answer = "whole" => have + pipe.data = Container
          /\ answer = "cut" => have + pipe.data < Container
          /\ answer # "refuse" /\ total = Container
      BY <1>1 DEF IInv, Accounted
    <3> QED
      BY <1>1, <1>2, <2>1, <3>1 DEF Typed
  <2> QED
    BY <1>1, <1>2, <2>1, <2>2 DEF IInv, TypeOK, Typed, Placed, Answered, Separate, Unaligned,
       OkIsWhole, OkLeavesPipeEmpty, UnalignedArrives, LengthField, device
<1>4. CASE ~Received /\ cancel /\ call = "file"
  <2>1. pc' = "end" /\ outcome' = "cancelled" /\ cancel'
    BY <1>1, <1>4 DEF LoopTest, Stop
  <2> QED
    BY <1>1, <1>2, <2>1 DEF IInv, TypeOK, Typed, Placed, Answered, Accounted, Separate,
       OkIsWhole, OkLeavesPipeEmpty, UnalignedArrives, LengthField, device
<1>5. CASE ~Received /\ ~(cancel /\ call = "file")
  <2>1. have < total /\ pc' = "read" /\ outcome' = outcome
    BY <1>1, <1>2, <1>5 DEF LoopTest, Received
  <2> QED
    BY <1>1, <1>2, <2>1 DEF IInv, TypeOK, Typed, Placed, Answered, Accounted, Separate,
       Unaligned, OkIsWhole, OkLeavesPipeEmpty, UnalignedArrives, LengthField, device
<1> QED
  BY <1>3, <1>4, <1>5

(* A further read moves bytes from the pipe to the host, unless it runs on     *)
(* into the response.                                                          *)
LEMMA MoreStep ==
  ASSUME IInv, ReadMore
  PROVE  IInv'
<1>1. /\ Typed /\ pc = "read" /\ outcome = "none" /\ have < total
      /\ UNCHANGED <<device, total, cancel, fault, outcome>>
  BY DEF IInv, Placed, ReadMore
<1>2. /\ HDR \in Nat \ {0} /\ MaxPkt \in Nat \ {0}
      /\ Chunk \in Nat \ {0} /\ Chunk % MaxPkt = 0
      /\ Container \in Nat /\ Container' = Container /\ (Fits' <=> Fits)
      /\ have \in Nat /\ total \in Nat /\ pipe.data \in Nat
      /\ pipe.data <= Container /\ have + pipe.data <= Container + foreign
  BY <1>1, Sizing DEF IInv, TypeOK, Typed, Placed, Container, Fits, device
<1>3. /\ Want \in Nat \ {0}
      /\ Want = Chunk \/ Want = total - have
  BY <1>1, <1>2 DEF Want, Least
<1>4. PICK d, r :
        /\ BulkRead(Want, d, r) /\ have' = have + d + r /\ foreign' = foreign + r
        /\ pc' = IF d + r = 0 THEN "response" ELSE "loop"
  BY DEF ReadMore
<1>5. foreign = 0 /\ pipe.resp
  BY <1>1, <1>3, <1>4, EmptyGivesNothing DEF IInv, Answered
<1>6. /\ pipe' \in [data : Nat, zlp : BOOLEAN, resp : BOOLEAN]
      /\ d \in Nat /\ r \in 0..HDR
      /\ d + pipe'.data <= pipe.data
      /\ pipe.zlp \/ ~pipe'.zlp
      /\ r = 0 /\ pipe.resp => pipe'.resp
      /\ pipe'.data > 0 => d = Want
      /\ r > 0 => /\ pipe' = Empty
                  /\ pipe.data % MaxPkt = 0 /\ ~pipe.zlp /\ d = pipe.data
      /\ d + r = 0 => pipe.data = 0 /\ pipe'.data = 0 /\ ~pipe'.zlp
  BY <1>1, <1>3, <1>4, ReadKeeps
<1>7. Fits => /\ answer # "refuse" /\ total = Container
              /\ answer = "whole" => have + pipe.data = Container
              /\ answer = "cut" => have + pipe.data < Container
  BY <1>1, <1>5 DEF IInv, Accounted
<1>8. Fits => Want = Chunk \/ pipe.data <= Want
  BY <1>1, <1>2, <1>3, <1>7 DEF Typed
<1>9. Fits /\ r = 0 => d + pipe'.data = pipe.data
  BY <1>1, <1>2, <1>3, <1>4, <1>8, ReadLosesNothing
<1>10. Typed'
  BY <1>1, <1>2, <1>4, <1>5, <1>6 DEF Typed, device
<1>11. Placed'
  BY <1>1, <1>2, <1>4, <1>5, <1>6 DEF Placed
<1>12. Answered'
  <2>1. CASE r = 0
    BY <1>4, <1>5, <1>6, <2>1 DEF Answered
  <2>2. CASE r # 0
    BY <1>2, <1>4, <1>5, <1>6, <2>2 DEF Answered
  <2> QED
    BY <2>1, <2>2
<1>13. TypeOK'
  <2>1. {pipe'.zlp, pipe'.resp} \subseteq BOOLEAN
    BY <1>6
  <2>2. pipe'.data \in 0..Container /\ have' \in 0..(Container + HDR)
    BY <1>2, <1>4, <1>5, <1>6
  <2> QED
    BY <1>1, <1>2, <1>4, <1>10, <2>1, <2>2
    DEF IInv, TypeOK, Typed, LengthField, device
<1>14. Accounted'
  <2> SUFFICES ASSUME Fits, r = 0
               PROVE  /\ answer = "whole" => have' + pipe'.data = Container
                      /\ answer = "cut" => have' + pipe'.data < Container
                      /\ answer # "refuse" /\ total = Container
                      /\ pc' = "response" => pipe'.data = 0 /\ ~pipe'.zlp
    BY <1>1, <1>2, <1>4, <1>5, <1>6 DEF Accounted, device
  <2> QED
    BY <1>2, <1>4, <1>6, <1>7, <1>9
<1>15. Separate'
  <2> SUFFICES ASSUME Unaligned
               PROVE  r = 0 /\ ~pipe'.zlp /\ (pipe'.data > 0 => have' % MaxPkt = 0)
    BY <1>1, <1>2, <1>4, <1>5 DEF Separate, Unaligned, device
  <2>1. /\ Fits /\ answer = "whole" /\ Container % MaxPkt # 0
        /\ ~pipe.zlp /\ (pipe.data > 0 => have % MaxPkt = 0)
        /\ have + pipe.data = Container /\ total = Container
    BY <1>1, <1>7 DEF IInv, Separate, Unaligned
  <2>2. have % MaxPkt = 0 => pipe.data % MaxPkt # 0
    BY <1>2, <2>1, MultiplesAdd
  <2>3. r = 0
    BY <1>1, <1>2, <1>6, <2>1, <2>2
  <2>4. pipe'.data > 0 => have' % MaxPkt = 0
    <3> SUFFICES ASSUME pipe'.data > 0
                 PROVE  (have + d) % MaxPkt = 0
      BY <1>2, <1>4, <1>6, <2>3
    <3>1. d = Want /\ pipe.data > 0
      BY <1>2, <1>6
    <3>2. d + pipe'.data = pipe.data
      BY <1>9, <2>1, <2>3
    <3>3. d = Chunk
      BY <1>2, <1>3, <1>6, <2>1, <3>1, <3>2
    <3>4. (have + Chunk) % MaxPkt = Chunk % MaxPkt
      BY <1>2, <2>1, <3>1, MultiplesAdd
    <3> QED
      BY <1>2, <3>3, <3>4
  <2> QED
    BY <1>6, <2>1, <2>3, <2>4
<1> QED
  BY <1>1, <1>4, <1>10, <1>11, <1>12, <1>13, <1>14, <1>15
  DEF IInv, OkIsWhole, OkLeavesPipeEmpty, UnalignedArrives

(* The response is read only after the data, and what does not come after all  *)
(* of it is a refusal.                                                         *)
LEMMA ResponseStep ==
  ASSUME IInv, Response
  PROVE  IInv'
<1>1. /\ Typed /\ pc = "response"
      /\ UNCHANGED <<device, total, have, foreign, cancel, fault>>
  BY DEF IInv, Response
<1>2. /\ HDR \in Nat \ {0} /\ MaxPkt \in Nat \ {0} /\ HDR < SmallChunk
      /\ SmallChunk \in Nat \ {0}
      /\ Container \in Nat /\ Container' = Container /\ (Fits' <=> Fits)
      /\ have \in Nat /\ pipe.data \in Nat
      /\ pipe.data <= Container /\ have + pipe.data <= Container + foreign
  BY <1>1, Sizing, SizesAssumption DEF IInv, TypeOK, Typed, Placed, Container, Fits, device
<1>3. PICK d, r :
        /\ BulkRead(SmallChunk, d, r)
        /\ \E c \in (IF d > 0 THEN {"OK", "Error"} ELSE {code}) :
             Stop(IF LongEnough(d + r) /\ Accepts(c) THEN "ok" ELSE "failed")
  BY DEF Response
<1>4. pc' = "end" /\ outcome' \in {"ok", "failed"}
  BY <1>3 DEF Stop
<1>5. /\ pipe' \in [data : Nat, zlp : BOOLEAN, resp : BOOLEAN]
      /\ d \in Nat /\ r \in 0..HDR
      /\ d + pipe'.data <= pipe.data
      /\ r > 0 => pipe' = Empty /\ r = Least(HDR, SmallChunk - d)
      /\ d + r = 0 => pipe.zlp
  BY <1>1, <1>2, <1>3, ReadKeeps
<1>6. foreign = 0
  BY <1>1, <1>2, <1>3, EmptyGivesNothing DEF IInv, Answered
<1>7. Fits => /\ pipe.data = 0 /\ d = 0 /\ answer # "refuse"
              /\ answer = "whole" => have = Container
  BY <1>1, <1>2, <1>5, <1>6 DEF IInv, Accounted
<1>8. Fits /\ outcome' = "ok" => /\ r >= HDR /\ pipe' = Empty
                                 /\ code \in {"OK", "TransactionCancelled"}
  BY <1>2, <1>3, <1>5, <1>7 DEF Stop, LongEnough, Accepts
<1>9. TypeOK'
  <2>1. {pipe'.zlp, pipe'.resp} \subseteq BOOLEAN
    BY <1>5
  <2>2. pipe'.data \in 0..Container
    BY <1>2, <1>5
  <2> QED
    BY <1>1, <1>2, <1>4, <2>1, <2>2 DEF IInv, TypeOK, LengthField, device
<1>10. Typed' /\ Placed' /\ Answered' /\ Accounted' /\ Separate'
  BY <1>1, <1>2, <1>4, <1>5, <1>6
  DEF Typed, Placed, Answered, Accounted, Separate, device
<1>11. OkIsWhole' /\ OkLeavesPipeEmpty'
  BY <1>1, <1>2, <1>6, <1>7, <1>8 DEF Typed, OkIsWhole, OkLeavesPipeEmpty, Empty, device
<1>12. UnalignedArrives'
  <2> SUFFICES ASSUME Unaligned
               PROVE  outcome' = "ok"
    BY <1>1, <1>2 DEF UnalignedArrives, Unaligned, device
  <2>1. Fits /\ ~pipe.zlp /\ code = "OK"
    BY <1>1 DEF IInv, Typed, Separate, Unaligned
  <2>2. r = HDR
    BY <1>2, <1>5, <1>7, <2>1 DEF Least
  <2> QED
    BY <1>2, <1>3, <1>5, <1>7, <2>1, <2>2 DEF Stop, LongEnough, Accepts
<1> QED
  BY <1>9, <1>10, <1>11, <1>12 DEF IInv

(* A read that fails while something is left to read is a fault. *)
LEMMA FailStep ==
  ASSUME IInv, ReadFails
  PROVE  IInv'
<1>1. /\ pc # "end" /\ pc' = "end" /\ outcome' = "failed"
      /\ UNCHANGED <<device, pipe, total, have, foreign, cancel>>
  BY DEF ReadFails, Stop
<1>2. fault' = (pipe # Empty \/ fault)
  BY DEF ReadFails, Empty
<1>3. fault' \in BOOLEAN
  BY <1>2
<1>4. pipe # Empty => fault'
  BY <1>2, Zenon
<1>5. UnalignedArrives'
  <2>1. Unaligned => pipe.resp
    BY <1>1 DEF IInv, Answered, Separate
  <2>2. pipe.resp => pipe # Empty
    BY DEF Empty
  <2> QED
    BY <1>1, <1>4, <2>1, <2>2 DEF UnalignedArrives, Unaligned, Fits, Container, device
<1> QED
  BY <1>1, <1>3, <1>5 DEF IInv, TypeOK, Typed, Placed, Answered, Accounted, Separate, OkIsWhole,
     OkLeavesPipeEmpty, Container, LengthField, device

(* The cancel flag is all that a cancel changes. *)
LEMMA CancelStep ==
  ASSUME IInv, Cancel
  PROVE  IInv'
  BY DEF Cancel, IInv, TypeOK, Typed, Placed, Answered, Accounted, Separate, Unaligned, OkIsWhole,
     OkLeavesPipeEmpty, UnalignedArrives, Fits, Container, LengthField, device

(* The invariant holds in every state. *)
LEMMA Invariance == Spec => []IInv
<1>1. IInv /\ [Next]_vars => IInv'
  <2> SUFFICES ASSUME IInv, [Next]_vars
               PROVE  IInv'
    OBVIOUS
  <2>1. CASE UNCHANGED vars
    BY <2>1 DEF vars, device, IInv, TypeOK, Typed, Placed, Answered, Accounted, Separate,
       Unaligned, OkIsWhole, OkLeavesPipeEmpty, UnalignedArrives, Fits, Container, LengthField
  <2> QED
    BY <2>1, HeaderStep, LoopStep, MoreStep, ResponseStep, FailStep, CancelStep DEF Next
<1> QED
  BY <1>1, InitIInv, PTL DEF Spec

------------------------------------------------------------------------------
(* Theorems *)

(* Every variable of a data-in phase keeps its type; no more is received than  *)
(* the container and the response hold.                                        *)
THEOREM TypeCorrect == Spec => []TypeOK
<1>1. IInv => TypeOK
  BY DEF IInv
<1> QED
  BY <1>1, Invariance, PTL

(* A download or a dataset that ends well is whole and nothing else, although  *)
(* the code looks neither at the type of what it reads nor at its end.         *)
THEOREM WholeAndNothingElse == Spec => []OkIsWhole
<1>1. IInv => OkIsWhole
  BY DEF IInv
<1> QED
  BY <1>1, Invariance, PTL

(* What ends well leaves nothing in the pipe that the next operation could     *)
(* take for its own.                                                           *)
THEOREM PipeEmpty == Spec => []OkLeavesPipeEmpty
<1>1. IInv => OkLeavesPipeEmpty
  BY DEF IInv
<1> QED
  BY <1>1, Invariance, PTL

(* Without faults and cancels every object whose container does not fill its   *)
(* last packet arrives.                                                        *)
THEOREM UnalignedSucceeds == Spec => []UnalignedArrives
<1>1. IInv => UnalignedArrives
  BY DEF IInv
<1> QED
  BY <1>1, Invariance, PTL
=============================================================================
