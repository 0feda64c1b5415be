---------------------------- MODULE DataPhaseIn ----------------------------
(***************************************************************************)
(* The data and response phases of an operation that reads from the        *)
(* device: MTPSession::receive_data_to_file under GetObject ("file"), and  *)
(* receive_data under the operations that read a small dataset ("buffer"), *)
(* each followed by receive_response.  The pipe delivers USB packets, and  *)
(* a bulk read ends when its buffer is full or at a packet shorter than    *)
(* the maximum, whichever comes first.  Bytes are counted, not stored; a   *)
(* response container is a header without parameters.  The local disk      *)
(* never runs full (ofstream::write is not checked by the code).           *)
(***************************************************************************)
EXTENDS Integers

CONSTANTS
  HDR,      (* CONTAINER_HEADER_SIZE                                         *)
  MaxPkt,   (* packet size of the bulk-in endpoint                           *)
  Chunk,    (* CHUNK_SIZE, the most a read of the data asks for              *)
  SmallChunk, (* SMALL_CHUNK_SIZE, what the read of the response asks for    *)
  MaxLen,   (* the largest container length 32 bits hold                     *)
  Sizes     (* bound: the payload sizes to consider                          *)

ASSUME SizesAssumption ==
  /\ HDR \in Nat \ {0} /\ MaxPkt \in Nat /\ HDR < MaxPkt
  /\ Chunk \in Nat /\ Chunk >= MaxPkt /\ Chunk % MaxPkt = 0
  /\ SmallChunk \in Nat /\ SmallChunk >= MaxPkt
  /\ MaxLen \in Nat /\ MaxLen > HDR
  /\ Sizes \subseteq Nat

VARIABLES
  call,     (* "file" or "buffer"                                            *)
  size,     (* the object's or dataset's payload on the device               *)
  answer,   (* what the device does: "whole" data phase, "cut" it short, or  *)
            (* "refuse" with a response and no data                          *)
  code,     (* the response code it sends                                    *)
  pipe,     (* what is left to read: [data, zlp, resp]                       *)
  pc,       (* "header", "loop", "read", "response", "end"                   *)
  total,    (* length field of the container the first read brought          *)
  have,     (* bytes received so far, header included                        *)
  foreign,  (* those of them that are not of the data container              *)
  cancel,   (* the transfer's cancel flag                                    *)
  fault,    (* history variable: a bulk read has failed                      *)
  outcome   (* "none", "ok", "failed", "cancelled"                           *)

device == <<call, size, answer, code>>
vars == <<device, pipe, pc, total, have, foreign, cancel, fault, outcome>>

Least(a, b) == IF a < b THEN a ELSE b

(* The data container is HDR + size bytes; its 32-bit length is all ones when  *)
(* that does not fit.                                                          *)
Container == HDR + size
LengthField == Least(Container, MaxLen)

(* Bytes the host takes off the wire for a buffer of n: whole packets. *)
Packets(n) == ((n + MaxPkt - 1) \div MaxPkt) * MaxPkt

Init ==
  /\ call \in {"file", "buffer"}
  /\ size \in Sizes
  /\ answer \in {"whole", "cut", "refuse"}
  /\ code \in (CASE answer = "whole"  -> {"OK"}
                 [] answer = "cut"    -> {"Error", "TransactionCancelled"}
                 [] answer = "refuse" -> {"Error"})
  /\ \E sends \in (CASE answer = "whole"  -> {Container}
                     [] answer = "cut"    -> HDR..(Container - 1)
                     [] answer = "refuse" -> {0}),
        zlp \in BOOLEAN :
       pipe = [data |-> sends,
               zlp  |-> zlp /\ sends > 0 /\ sends % MaxPkt = 0,
               resp |-> TRUE]
  /\ pc = "header"
  /\ total = 0
  /\ have = 0
  /\ foreign = 0
  /\ cancel = FALSE
  /\ fault = FALSE
  /\ outcome = "none"

------------------------------------------------------------------------------
(* bulk_read *)

(* The read of n bytes returns d bytes of the data container, then r bytes of  *)
(* the response: its buffer is filled, a short or empty packet ends it, or     *)
(* nothing separates the two containers and it runs into the next one.  What   *)
(* overflows the buffer is dropped (LIBUSB_ERROR_OVERFLOW counts as success).  *)
Filled(n, d, r) ==
  /\ pipe.data >= n
  /\ d = n /\ r = 0
  /\ pipe' = [pipe EXCEPT !.data = @ - Least(@, Packets(n))]

Ended(n, d, r) ==
  /\ pipe.data < n
  /\ pipe.data % MaxPkt # 0 \/ pipe.zlp
  /\ d = pipe.data /\ r = 0
  /\ pipe' = [pipe EXCEPT !.data = 0, !.zlp = FALSE]

RanOn(n, d, r) ==
  /\ pipe.data < n
  /\ pipe.data % MaxPkt = 0 /\ ~pipe.zlp /\ pipe.resp
  /\ d = pipe.data /\ r = Least(HDR, n - d)
  /\ pipe' = [pipe EXCEPT !.data = 0, !.resp = FALSE]

BulkRead(n, d, r) == Filled(n, d, r) \/ Ended(n, d, r) \/ RanOn(n, d, r)

(* The results a read can have are few: enumerate them from the pipe. *)
DataCounts(n) == {Least(pipe.data, n)}
RespCounts == 0..HDR

Stop(result) == pc' = "end" /\ outcome' = result

(* A timeout, a stall, an unplugged cable; a read from an empty pipe ends in   *)
(* a timeout too.                                                              *)
ReadFails ==
  /\ pc \in {"header", "read", "response"}
  /\ fault' = (pipe # [data |-> 0, zlp |-> FALSE, resp |-> FALSE] \/ fault)
  /\ Stop("failed")
  /\ UNCHANGED <<device, pipe, total, have, foreign, cancel>>

------------------------------------------------------------------------------
(* The calls *)

(* get_le32 of the first four bytes read. *)
TotalOf(d) == IF d > 0 THEN LengthField ELSE HDR

(* What receive_data does with a response in place of data: refused commands   *)
(* throw.  receive_data_to_file does not look at the container type.           *)
Rejects(isResponse) == call = "buffer" /\ isResponse

ReadHeader ==
  /\ pc = "header"
  /\ \E d \in DataCounts(Chunk), r \in RespCounts :
       /\ BulkRead(Chunk, d, r)
       /\ have' = d + r
       /\ foreign' = r
       /\ total' = TotalOf(d)
       /\ IF Rejects(d = 0)
            THEN Stop("failed")
            ELSE pc' = "loop" /\ UNCHANGED outcome
  /\ UNCHANGED <<device, cancel, fault>>

MutOneReadShort == have + HDR >= total
Received == have >= total

LoopTest ==
  /\ pc = "loop"
  /\ IF Received
       THEN pc' = "response" /\ UNCHANGED outcome
       ELSE IF cancel /\ call = "file"
              THEN Stop("cancelled")
              ELSE pc' = "read" /\ UNCHANGED outcome
  /\ UNCHANGED <<device, pipe, total, have, foreign, cancel, fault>>

Want == Least(Chunk, total - have)

ReadMore ==
  /\ pc = "read"
  /\ \E d \in DataCounts(Want), r \in RespCounts :
       /\ BulkRead(Want, d, r)
       /\ have' = have + d + r
       /\ foreign' = foreign + r
       /\ pc' = IF d + r = 0 THEN "response" ELSE "loop"
  /\ UNCHANGED <<device, total, cancel, fault, outcome>>

(* get_object takes TransactionCancelled for success too. *)
MutAcceptsAll(c) == TRUE
Accepts(c) == c = "OK" \/ (call = "file" /\ c = "TransactionCancelled")

MutAnyLength(n) == TRUE
LongEnough(n) == n >= HDR

(* receive_response reads one buffer and takes its bytes 6 and 7 for the code, *)
(* whatever container they belong to; the reads here are at least HDR long.    *)
Response ==
  /\ pc = "response"
  /\ \E d \in DataCounts(SmallChunk), r \in RespCounts :
       /\ BulkRead(SmallChunk, d, r)
       /\ \E c \in (IF d > 0 THEN {"OK", "Error"} ELSE {code}) :
            Stop(IF LongEnough(d + r) /\ Accepts(c) THEN "ok" ELSE "failed")
  /\ UNCHANGED <<device, total, have, foreign, cancel, fault>>

Cancel ==
  /\ call = "file" /\ ~cancel
  /\ cancel' = TRUE
  /\ UNCHANGED <<device, pipe, pc, total, have, foreign, fault, outcome>>

Next == ReadHeader \/ LoopTest \/ ReadMore \/ Response \/ ReadFails \/ Cancel

Spec == Init /\ [][Next]_vars

------------------------------------------------------------------------------
(* Properties *)

(* The types of the transfer's variables. *)
TypeOK ==
  /\ pipe.data \in 0..Container /\ {pipe.zlp, pipe.resp} \subseteq BOOLEAN
  /\ pc \in {"header", "loop", "read", "response", "end"}
  /\ total \in {0, HDR, LengthField}
  /\ have \in 0..(Container + HDR) /\ foreign \in 0..HDR
  /\ {cancel, fault} \subseteq BOOLEAN
  /\ outcome \in {"none", "ok", "failed", "cancelled"}

Fits == Container <= MaxLen

(* A transfer or a dataset that ends well is whole and holds nothing but the   *)
(* data container's payload, unless the device itself cancelled: not one byte  *)
(* of the response got in, none is missing, although the code looks at neither *)
(* the type of what it reads nor its end.                                      *)
OkIsWhole ==
  (outcome = "ok" /\ Fits /\ code # "TransactionCancelled") =>
    have = Container /\ foreign = 0

(* Nothing is left in the pipe for the next operation when this one ends well. *)
OkLeavesPipeEmpty ==
  (outcome = "ok" /\ Fits) => pipe = [data |-> 0, zlp |-> FALSE, resp |-> FALSE]

(* Without faults and cancels an object whose container does not fill its last *)
(* packet always arrives.                                                      *)
UnalignedArrives ==
  (pc = "end" /\ answer = "whole" /\ Fits /\ ~fault /\ ~cancel /\ Container % MaxPkt # 0)
    => outcome = "ok"

(* "Large file support - handles files >4 GB correctly" (README.md:27).        *)
LargeArrives ==
  (pc = "end" /\ call = "file" /\ answer = "whole" /\ ~Fits /\ ~fault /\ ~cancel)
    => outcome = "ok" /\ have = Container
==============================================================================
