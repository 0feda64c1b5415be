----------------------- MODULE TransferEngineProofs -----------------------
(***************************************************************************)
(* Proofs about TransferEngine for any number of items and chunks.         *)
(* The inductive invariant IInv says where every item is: the popped ones  *)
(* are over except the last, which the worker holds; the others wait.      *)
(***************************************************************************)
EXTENDS TransferEngine, TLAPS

(* How many items the worker has taken out of pending_. *)
Popped == Len(history) - Len(pending)

(* The worker holds an item exactly between the pop and the end of the     *)
(* iteration; it is the last one popped, Active once it has been started.  *)
WorkerInv ==
  /\ item # None <=> wpc \in HoldsItem
  /\ item # None =>
       /\ Popped > 0
       /\ item = history[Popped]
       /\ state[item] = IF wpc \in {"picked", "start"} THEN "Queued" ELSE "Active"

(* The mutex is the worker's from the lock to the pop or the block, the    *)
(* monitor's during a scan.                                                *)
LockInv ==
  /\ mtx = "worker" <=> wpc \in {"test", "park"}
  /\ mtx = "scan" <=> scanAt > 0

(* history_ holds every item ever created; what was popped is over, but    *)
(* for the item in the worker's hands, and what was not is Queued.         *)
QueueInv ==
  /\ PendingIsTail
  /\ \A i \in Items :
       state[i] = "Unborn" <=> \A k \in 1..Len(history) : history[k] # i
  /\ \A k \in 1..Len(history) :
       IF k > Popped THEN state[history[k]] = "Queued"
       ELSE state[history[k]] \in Terminal \/ item = history[k]

(* The counters and error messages of items, by how far they got. *)
TransferInv ==
  /\ \A i \in Items :
       /\ state[i] \in {"Unborn", "Queued"} => moved[i] = 0 /\ errorMsg[i] = "empty"
       /\ state[i] = "Failed" => errorMsg[i] = "set"
       /\ errorMsg[i] # "empty" =>
            state[i] = "Failed" \/ (item = i /\ wpc \in {"writing", "fail"})
       /\ moved[i] <= chunks[i]
  /\ wpc = "chunk" => moved[item] < chunks[item]
  /\ wpc = "fail" => errorMsg[item] = "set"

(* An item cancelled in pending_ cannot get past the worker's check. *)
DoomInv ==
  \A i \in doomed : /\ cancel[i]
                    /\ state[i] \in {"Queued", "Cancelled"}
                    /\ moved[i] = 0
                    /\ item = i => wpc = "picked"

(* A scan that has seen no quiet moment has left only finished items behind. *)
ScanInv ==
  /\ scanAt <= Len(history) + 1
  /\ (scanAt > 0 /\ ~scanQuiet) =>
       \A k \in 1..Len(history) : k < scanAt => state[history[k]] \in Terminal

IInv == TypeOK /\ WorkerInv /\ LockInv /\ QueueInv /\ TransferInv /\ DoomInv /\ ScanInv

USE NoneAssumption, MaxChunksAssumption

(* The engine starts in the invariant: nothing queued, the worker idle. *)
LEMMA InitIInv == Init => IInv
<1> SUFFICES ASSUME Init PROVE IInv
  OBVIOUS
<1> USE DEF Init
<1>1. TypeOK
  <2>1. 1 \in 1..MaxChunks /\ 0 \in 0..MaxChunks
    BY MaxChunksAssumption
  <2>2. cancel \in [Items -> BOOLEAN] /\ shutdown \in BOOLEAN /\ scanQuiet \in BOOLEAN
    OBVIOUS
  <2>3. QED BY <2>1, <2>2 DEF TypeOK, Idle, States, Terminal, Directions
<1>2. WorkerInv /\ LockInv /\ TransferInv /\ DoomInv
  BY DEF WorkerInv, LockInv, TransferInv, DoomInv, HoldsItem, InRun
<1>3. QueueInv /\ ScanInv
  BY DEF QueueInv, PendingIsTail, ScanInv, Popped
<1>4. QED BY <1>1, <1>2, <1>3 DEF IInv

(* Where items are: arithmetic on positions, done once. *)
LEMMA Places ==
  ASSUME TypeOK, QueueInv
  PROVE  /\ Len(history) \in Nat /\ Len(pending) \in Nat
         /\ Popped \in 0..Len(history)
         /\ \A k \in 1..Len(history) : history[k] \in Items
         /\ \A j, k \in 1..Len(history) : history[j] = history[k] => j = k
         /\ \A k \in 1..Len(pending) : /\ Popped + k \in 1..Len(history)
                                       /\ history[Popped + k] = pending[k]
                                       /\ state[pending[k]] = "Queued"
<1>1. /\ history \in Seq(Items) /\ pending \in Seq(Items)
      /\ Len(history) \in Nat /\ Len(pending) \in Nat
  BY DEF TypeOK
<1>2. \A k \in 1..Len(history) : history[k] \in Items
  BY <1>1
<1>3. Popped \in 0..Len(history)
  BY <1>1 DEF QueueInv, PendingIsTail, Popped
<1>4. ASSUME NEW k \in 1..Len(pending)
      PROVE  /\ Popped + k \in 1..Len(history)
             /\ history[Popped + k] = pending[k]
             /\ state[pending[k]] = "Queued"
  <2>1. Popped + k \in 1..Len(history) /\ Popped + k > Popped
    BY <1>1, <1>3 DEF Popped
  <2>2. history[Popped + k] = pending[k]
    BY DEF QueueInv, PendingIsTail, Popped
  <2>3. QED BY <2>1, <2>2 DEF QueueInv
<1>5. QED BY <1>1, <1>2, <1>3, <1>4 DEF QueueInv, PendingIsTail

(* The worker's item is the last popped one, and is not in pending_. *)
LEMMA HeldItem ==
  ASSUME TypeOK, QueueInv, WorkerInv, item # None
  PROVE  /\ item \in Items /\ Popped \in 1..Len(history) /\ item = history[Popped]
         /\ \A k \in 1..Len(pending) : pending[k] # item
         /\ \A k \in 1..Len(history) : history[k] = item => k = Popped
<1>1. item \in Items
  BY DEF TypeOK
<1>2. Popped \in 1..Len(history) /\ item = history[Popped]
  BY Places DEF WorkerInv
<1>3. \A k \in 1..Len(history) : history[k] = item => k = Popped
  BY <1>2, Places
<1>4. ASSUME NEW k \in 1..Len(pending) PROVE pending[k] # item
  <2>1. Popped + k # Popped
    BY <1>2, Places
  <2>2. QED BY <1>3, <2>1, Places
<1>5. QED BY <1>1, <1>2, <1>3, <1>4

------------------------------------------------------------------------------
(* Client calls *)

(* A created item goes to the end of both queues; everything before it keeps *)
(* its place, so the items popped are still the same ones.                   *)
LEMMA EnqueueStep ==
  ASSUME IInv, NEW i \in Items, NEW d \in Directions, NEW n \in 1..MaxChunks,
         Enqueue(i, d, n)
  PROVE  IInv'
<1>0. TypeOK /\ WorkerInv /\ LockInv /\ QueueInv /\ TransferInv /\ DoomInv /\ ScanInv
  BY DEF IInv
<1>1. /\ state[i] = "Unborn" /\ mtx = None
      /\ state' = [state EXCEPT ![i] = "Queued"]
      /\ direction' = [direction EXCEPT ![i] = d]
      /\ chunks' = [chunks EXCEPT ![i] = n]
      /\ history' = Append(history, i) /\ pending' = Append(pending, i)
      /\ wpc' = IF wpc = "parked" THEN "woken" ELSE wpc
      /\ cancel' = cancel /\ moved' = moved /\ errorMsg' = errorMsg
      /\ shutdown' = shutdown /\ mtx' = mtx /\ item' = item /\ owner' = owner
      /\ reader' = reader /\ scanAt' = scanAt /\ scanQuiet' = scanQuiet
      /\ doomed' = doomed
  BY DEF Enqueue, ClientMayCall, Notify, scanVars
<1>2. history \in Seq(Items) /\ pending \in Seq(Items)
  BY <1>0 DEF TypeOK
<1>3. /\ Len(history') = Len(history) + 1 /\ Len(pending') = Len(pending) + 1
      /\ \A k \in 1..Len(history') :
           history'[k] = IF k <= Len(history) THEN history[k] ELSE i
      /\ \A k \in 1..Len(pending') :
           pending'[k] = IF k <= Len(pending) THEN pending[k] ELSE i
  BY <1>1, <1>2
<1>4. Popped' = Popped
  BY <1>0, <1>3, Places DEF Popped
<1>5. /\ Len(history) \in Nat /\ Len(pending) \in Nat /\ Popped \in 0..Len(history)
      /\ Popped + Len(pending) = Len(history)
      /\ \A k \in 1..Len(history) : history[k] # i
  BY <1>0, <1>1, Places DEF QueueInv, Popped
<1>6. ASSUME item # None
      PROVE  /\ item # i /\ Popped \in 1..Len(history) /\ history'[Popped] = item
  <2>1. Popped \in 1..Len(history) /\ item = history[Popped]
    BY <1>0, <1>6, HeldItem
  <2>2. QED BY <1>0, <1>3, <1>5, <2>1, Places
<1>7. TypeOK'
  BY <1>0, <1>1 DEF TypeOK, States, Terminal, Idle, HoldsItem, InRun
<1>8. WorkerInv'
  <2>1. wpc' \in HoldsItem <=> wpc \in HoldsItem
    BY <1>1 DEF HoldsItem, InRun
  <2>2. wpc' \in {"picked", "start"} <=> wpc \in {"picked", "start"}
    BY <1>1
  <2>3. QED BY <1>0, <1>1, <1>4, <1>6, <2>1, <2>2 DEF WorkerInv
<1>9. LockInv'
  BY <1>0, <1>1 DEF LockInv
<1>10. QueueInv'
  <2>1. Len(pending') <= Len(history')
    BY <1>0, <1>3, Places DEF QueueInv, PendingIsTail
  <2>2. ASSUME NEW k \in 1..Len(pending')
        PROVE  pending'[k] = history'[Len(history') - Len(pending') + k]
    <3>1. Len(history') - Len(pending') + k = Popped + k
      BY <1>3, <1>4 DEF Popped
    <3>2. CASE k <= Len(pending)
      <4>1. Popped + k \in 1..Len(history) /\ history[Popped + k] = pending[k]
        BY <1>0, <3>2, Places
      <4>2. Popped + k \in 1..Len(history') /\ Popped + k <= Len(history)
        BY <1>3, <1>5, <4>1
      <4>3. QED BY <1>3, <3>1, <3>2, <4>1, <4>2
    <3>3. CASE k = Len(pending) + 1
      <4>1. Popped + k = Len(history')
        BY <1>3, <1>5, <3>3
      <4>2. history'[Len(history')] = i /\ pending'[k] = i
        BY <1>3, <1>5, <3>3
      <4>3. QED BY <3>1, <4>1, <4>2
    <3>4. QED BY <1>3, <1>5, <3>2, <3>3
  <2>3. ASSUME NEW j \in 1..Len(history'), NEW k \in 1..Len(history'),
               history'[j] = history'[k]
        PROVE  j = k
    <3>1. \A m \in 1..Len(history') : m <= Len(history) \/ m = Len(history) + 1
      BY <1>3, <1>5
    <3>2. QED BY <1>0, <1>3, <1>5, <2>3, <3>1, Places
  <2>4. ASSUME NEW j \in Items
        PROVE  state'[j] = "Unborn" <=> \A k \in 1..Len(history') : history'[k] # j
    <3>1. CASE j = i
      <4>1. Len(history) + 1 \in 1..Len(history') /\ history'[Len(history) + 1] = i
        BY <1>0, <1>3, Places
      <4>2. QED BY <1>0, <1>1, <3>1, <4>1 DEF TypeOK
    <3>2. CASE j # i
      <4>1. state'[j] = state[j]
        BY <1>0, <1>1, <3>2 DEF TypeOK
      <4>2. (\A k \in 1..Len(history') : history'[k] # j)
              <=> (\A k \in 1..Len(history) : history[k] # j)
        BY <1>3, <1>5, <3>2
      <4>3. QED BY <1>0, <4>1, <4>2 DEF QueueInv
    <3>3. QED BY <3>1, <3>2
  <2>5. ASSUME NEW k \in 1..Len(history')
        PROVE  IF k > Popped' THEN state'[history'[k]] = "Queued"
               ELSE state'[history'[k]] \in Terminal \/ item' = history'[k]
    <3>1. CASE k <= Len(history)
      <4>1. k \in 1..Len(history) /\ history'[k] = history[k] /\ history[k] \in Items
        BY <1>0, <1>3, <1>5, <3>1, Places
      <4>2. state'[history'[k]] = state[history[k]]
        BY <1>0, <1>1, <1>5, <4>1 DEF TypeOK
      <4>3. QED BY <1>0, <1>1, <1>4, <4>1, <4>2 DEF QueueInv
    <3>2. CASE k = Len(history) + 1
      <4>1. k > Popped' /\ history'[k] = i
        BY <1>3, <1>4, <1>5, <3>2
      <4>2. state'[i] = "Queued"
        BY <1>0, <1>1 DEF TypeOK
      <4>3. QED BY <4>1, <4>2
    <3>3. QED BY <1>3, <1>5, <3>1, <3>2
  <2>6. QED BY <2>1, <2>2, <2>3, <2>4, <2>5 DEF QueueInv, PendingIsTail
<1>11. TransferInv'
  <2>1. /\ moved[i] = 0 /\ errorMsg[i] = "empty" /\ n \in Nat /\ n > 0
        /\ \A j \in Items : moved[j] \in Nat /\ chunks[j] \in Nat
    BY <1>0, <1>1 DEF TransferInv, TypeOK
  <2>2. /\ wpc' \in {"chunk", "fail"} => wpc' = wpc /\ item # None
        /\ wpc \in {"writing", "fail"} => wpc' = wpc
    BY <1>0, <1>1 DEF WorkerInv, HoldsItem, InRun
  <2>3. QED BY <1>0, <1>1, <1>6, <2>1, <2>2 DEF TransferInv, TypeOK
<1>12. DoomInv'
  BY <1>0, <1>1 DEF DoomInv, TypeOK
<1>13. ScanInv'
  BY <1>0, <1>1, <1>3, Places DEF ScanInv, LockInv, TypeOK
<1>14. QED BY <1>7, <1>8, <1>9, <1>10, <1>11, <1>12, <1>13 DEF IInv

(* Raising cancel flags dooms items that are still in pending_, and those   *)
(* are Queued and not in the worker's hands.                                *)
LEMMA RaiseCancelStep ==
  ASSUME IInv, NEW some \in SUBSET Items, RaiseCancel(some)
  PROVE  IInv'
<1>0. TypeOK /\ WorkerInv /\ LockInv /\ QueueInv /\ TransferInv /\ DoomInv /\ ScanInv
  BY DEF IInv
<1>1. /\ cancel' = [i \in Items |-> cancel[i] \/ i \in some]
      /\ doomed' = doomed \cup (some \cap Waiting)
      /\ UNCHANGED <<pending, history, state, direction, chunks, moved, errorMsg,
                     shutdown, mtx, wpc, item, owner, reader, scanAt, scanQuiet>>
  BY DEF RaiseCancel, queueVars, workerVars, scanVars
<1>2. TypeOK'
  BY <1>0, <1>1 DEF TypeOK
<1>3. WorkerInv' /\ LockInv' /\ TransferInv' /\ ScanInv'
  BY <1>0, <1>1 DEF WorkerInv, LockInv, TransferInv, ScanInv, Popped
<1>4. QueueInv'
  BY <1>0, <1>1 DEF QueueInv, PendingIsTail, Popped
<1>5. DoomInv'
  <2>1. ASSUME NEW i \in some \cap Waiting
        PROVE  state[i] = "Queued" /\ item # i /\ moved[i] = 0
    <3>1. PICK k \in 1..Len(pending) : pending[k] = i
      BY <2>1 DEF Waiting
    <3>2. QED BY <1>0, <2>1, <3>1, Places, HeldItem DEF TransferInv
  <2>2. QED BY <1>0, <1>1, <2>1 DEF DoomInv, TypeOK
<1>6. QED BY <1>2, <1>3, <1>4, <1>5 DEF IInv

(* A running state_json changes nothing the invariant speaks about. *)
LEMMA ReaderStep ==
  ASSUME IInv, (\E i \in Items : ReadBegin(i)) \/ ReadEnd
  PROVE  IInv'
<1>1. /\ reader' \in Items \cup {None}
      /\ UNCHANGED <<pending, history, state, cancel, direction, chunks, moved,
                     errorMsg, shutdown, mtx, wpc, item, owner, scanAt, scanQuiet,
                     doomed>>
  BY DEF ReadBegin, ReadEnd, queueVars, itemVars, workerVars, scanVars
<1>2. TypeOK'
  BY <1>1 DEF IInv, TypeOK
<1>3. (WorkerInv /\ LockInv /\ TransferInv /\ DoomInv /\ ScanInv)'
  BY <1>1 DEF IInv, WorkerInv, LockInv, TransferInv, DoomInv, ScanInv, Popped
<1>4. QueueInv'
  BY <1>1 DEF IInv, QueueInv, PendingIsTail, Popped
<1>5. QED BY <1>2, <1>3, <1>4 DEF IInv

(* A scan that finds an item not Active while some item is: that item can    *)
(* only be the last one popped, so what was scanned is over.                 *)
LEMMA ScanSteps ==
  ASSUME IInv, ScanBegin \/ ScanStep \/ ScanEnd
  PROVE  IInv'
<1>0. TypeOK /\ WorkerInv /\ LockInv /\ QueueInv /\ TransferInv /\ DoomInv /\ ScanInv
  BY DEF IInv
<1>1. UNCHANGED <<pending, history, state, cancel, direction, chunks, moved,
                  errorMsg, shutdown, wpc, item, owner, reader, doomed>>
  BY DEF ScanBegin, ScanStep, ScanEnd, queueVars, itemVars, workerVars
<1>2. Len(history) \in Nat /\ scanAt \in Nat
  BY <1>0, Places DEF TypeOK
<1>3. \/ /\ mtx = None /\ mtx' = "scan" /\ scanAt' = 1 /\ scanQuiet' = NoneActive
      \/ /\ scanAt > 0 /\ mtx' = None /\ scanAt' = 0 /\ scanQuiet' = FALSE
      \/ /\ scanAt \in 1..Len(history) /\ state[history[scanAt]] # "Active"
         /\ mtx' = mtx /\ scanAt' = scanAt + 1
         /\ scanQuiet' <=> (scanQuiet \/ NoneActive)
  <2>1. CASE ScanBegin
    BY <2>1 DEF ScanBegin
  <2>2. CASE ScanStep /\ state[history[scanAt]] = "Active"
    BY <1>2, <2>2 DEF ScanStep, ScanReturn
  <2>3. CASE ScanStep /\ state[history[scanAt]] # "Active"
    BY <2>3 DEF ScanStep
  <2>4. CASE ScanEnd
    BY <1>2, <2>4 DEF ScanEnd, ScanReturn
  <2>5. QED BY <2>1, <2>2, <2>3, <2>4
<1>4. TypeOK'
  <2>1. scanQuiet' \in BOOLEAN
    BY <1>0 DEF TypeOK, ScanBegin, ScanStep, ScanEnd, ScanReturn, NoneActive
  <2>2. mtx' \in {None, "worker", "scan"} /\ scanAt' \in Nat
    BY <1>0, <1>2, <1>3 DEF TypeOK
  <2>3. QED BY <1>0, <1>1, <2>1, <2>2 DEF TypeOK
<1>5. LockInv'
  BY <1>0, <1>1, <1>2, <1>3, NoneAssumption DEF LockInv
<1>6. WorkerInv' /\ TransferInv' /\ DoomInv'
  BY <1>0, <1>1 DEF WorkerInv, TransferInv, DoomInv, Popped
<1>7. QueueInv'
  BY <1>0, <1>1 DEF QueueInv, PendingIsTail, Popped
<1>8. ScanInv'
  <2>1. CASE scanAt' \in {0, 1}
    BY <1>1, <1>2, <2>1 DEF ScanInv
  <2>2. CASE /\ scanAt \in 1..Len(history) /\ state[history[scanAt]] # "Active"
             /\ mtx' = mtx /\ scanAt' = scanAt + 1
             /\ scanQuiet' <=> (scanQuiet \/ NoneActive)
    <3>1. ASSUME ~scanQuiet'
          PROVE  state[history[scanAt]] \in Terminal
      <4>1. PICK i \in Items : state[i] = "Active"
        BY <2>2, <3>1 DEF NoneActive
      <4>2. PICK k \in 1..Len(history) : history[k] = i
        BY <1>0, <4>1 DEF QueueInv
      <4>3. k <= Popped
        BY <1>0, <4>1, <4>2, Places DEF QueueInv
      <4>4. item = i
        BY <1>0, <4>1, <4>2, <4>3, Places DEF QueueInv, Terminal
      <4>5. k = Popped
        BY <1>0, <4>2, <4>4, HeldItem, NoneAssumption
      <4>6. ~(k < scanAt)
        BY <1>0, <2>2, <3>1, <4>1, <4>2 DEF ScanInv, Terminal
      <4>7. scanAt < k
        BY <1>2, <2>2, <4>1, <4>2, <4>6
      <4>8. history[scanAt] # item
        BY <1>0, <2>2, <4>2, <4>4, <4>7, Places
      <4>9. QED BY <1>0, <2>2, <4>2, <4>5, <4>7, <4>8, Places DEF QueueInv
    <3>2. ASSUME ~scanQuiet', NEW k \in 1..Len(history), k < scanAt + 1
          PROVE  state[history[k]] \in Terminal
      <4>1. k < scanAt \/ k = scanAt
        BY <1>2, <3>2
      <4>2. QED BY <1>0, <1>2, <2>2, <3>1, <3>2, <4>1 DEF ScanInv
    <3>3. QED BY <1>1, <1>2, <2>2, <3>2 DEF ScanInv
  <2>3. QED BY <1>3, <2>1, <2>2
<1>9. QED BY <1>4, <1>5, <1>6, <1>7, <1>8 DEF IInv

------------------------------------------------------------------------------
(* The worker and the destructor *)

(* Most steps only move a thread: they keep the invariant when they keep the *)
(* worker on the same side of the pop and of Active.                         *)
LEMMA ThreadMoves ==
  ASSUME IInv,
         UNCHANGED <<queueVars, itemVars, item, scanVars, doomed>>,
         wpc' \in Idle \cup HoldsItem,
         wpc' \in HoldsItem <=> wpc \in HoldsItem,
         wpc' \in {"picked", "start"} <=> wpc \in {"picked", "start"},
         wpc = "picked" => wpc' = "picked",
         wpc' = "chunk" => wpc = "chunk" \/ moved[item] < chunks[item],
         wpc' = "fail" => wpc = "fail",
         wpc \in {"writing", "fail"} => wpc' = wpc,
         mtx' \in {None, "worker", "scan"},
         LockInv',
         shutdown' \in BOOLEAN,
         owner' \in {"alive", "stored", "joining", "gone"},
         reader' = reader
  PROVE  IInv'
<1>0. TypeOK /\ WorkerInv /\ LockInv /\ QueueInv /\ TransferInv /\ DoomInv /\ ScanInv
  BY DEF IInv
<1>1. UNCHANGED <<pending, history, state, cancel, direction, chunks, moved, errorMsg,
                  item, scanAt, scanQuiet, doomed>>
  BY DEF queueVars, itemVars, scanVars
<1>2. TypeOK'
  BY <1>0, <1>1 DEF TypeOK
<1>3. WorkerInv'
  BY <1>0, <1>1 DEF WorkerInv, Popped
<1>4. QueueInv'
  BY <1>0, <1>1 DEF QueueInv, PendingIsTail, Popped
<1>5. TransferInv'
  BY <1>0, <1>1 DEF TransferInv
<1>6. DoomInv' /\ ScanInv'
  BY <1>0, <1>1 DEF DoomInv, ScanInv
<1>7. QED BY <1>2, <1>3, <1>4, <1>5, <1>6 DEF IInv

(* The steps of worker_loop that change nothing but the worker's place:    *)
(* locking, blocking, waking, and the moves inside a transfer.             *)
LEMMA WorkerMoves ==
  ASSUME IInv,
         CheckShutdown \/ Lock \/ Park \/ SpuriousWakeup \/ LoopTest \/ EmptyChunk
           \/ UploadCheck \/ Response \/ Throw
  PROVE  IInv'
<1>0. /\ mtx = "worker" <=> wpc \in {"test", "park"}
      /\ mtx = "scan" <=> scanAt > 0
      /\ mtx \in {None, "worker", "scan"} /\ shutdown \in BOOLEAN
      /\ owner \in {"alive", "stored", "joining", "gone"}
  BY DEF IInv, LockInv, TypeOK
<1>1. UNCHANGED <<queueVars, itemVars, item, scanVars, doomed, shutdown, owner, reader>>
  BY DEF CheckShutdown, Lock, Park, SpuriousWakeup, LoopTest, EmptyChunk, UploadCheck,
         Response, Throw, WorkerGoes
<1>2. scanAt' = scanAt /\ moved' = moved /\ chunks' = chunks /\ item' = item
  BY <1>1 DEF scanVars, itemVars
<1>3. CASE CheckShutdown \/ Lock \/ Park \/ SpuriousWakeup
  <2>1. \/ wpc = "top" /\ wpc' \in {"exit", "lock"} /\ mtx' = mtx
        \/ wpc \in {"lock", "woken"} /\ wpc' = "test" /\ mtx = None /\ mtx' = "worker"
        \/ wpc = "park" /\ wpc' = "parked" /\ mtx' = None
        \/ wpc = "parked" /\ wpc' = "woken" /\ mtx' = mtx
    BY <1>3 DEF CheckShutdown, Lock, Park, SpuriousWakeup, WorkerGoes
  <2>2. LockInv' /\ mtx' \in {None, "worker", "scan"}
    BY <1>0, <1>2, <2>1, NoneAssumption DEF LockInv
  <2>3. QED BY <1>0, <1>1, <2>1, <2>2, ThreadMoves DEF Idle, HoldsItem, InRun
<1>4. CASE LoopTest \/ EmptyChunk \/ UploadCheck \/ Response \/ Throw
  <2>1. /\ \/ wpc = "loop" /\ wpc' = "chunk" /\ ~(moved[item] >= chunks[item])
           \/ wpc \in InRun /\ wpc' \in {"resp", "ran", "loop", "caught"}
        /\ mtx' = mtx
    BY <1>4 DEF LoopTest, Complete, EmptyChunk, UploadCheck, Response, Throw, WorkerGoes,
                InRun
  <2>2. item \in Items /\ moved[item] \in Nat /\ chunks[item] \in Nat
    BY <2>1 DEF IInv, WorkerInv, TypeOK, HoldsItem, InRun
  <2>3. LockInv' /\ mtx' \in {None, "worker", "scan"}
    BY <1>0, <1>2, <2>1 DEF LockInv, InRun
  <2>4. wpc' = "chunk" => moved[item] < chunks[item]
    BY <2>1, <2>2
  <2>5. QED BY <1>0, <1>1, <2>1, <2>3, <2>4, ThreadMoves DEF Idle, HoldsItem, InRun
<1>5. QED BY <1>3, <1>4

(* ~TransferEngine touches shutdown_ and wakes the worker, nothing else. *)
LEMMA DtorSteps ==
  ASSUME IInv, DtorNext
  PROVE  IInv'
<1>0. /\ mtx = "worker" <=> wpc \in {"test", "park"}
      /\ mtx = "scan" <=> scanAt > 0
      /\ mtx \in {None, "worker", "scan"} /\ shutdown \in BOOLEAN
      /\ wpc \in Idle \cup HoldsItem
  BY DEF IInv, LockInv, TypeOK
<1>1. UNCHANGED <<queueVars, itemVars, item, scanVars, doomed, mtx, reader>>
  BY DEF DtorNext, DtorStore, DtorNotify, DtorJoin, workerVars
<1>2. /\ wpc' = wpc \/ (wpc = "parked" /\ wpc' = "woken")
      /\ owner' \in {"alive", "stored", "joining", "gone"}
      /\ shutdown' \in BOOLEAN /\ scanAt' = scanAt
  BY <1>0 DEF DtorNext, DtorStore, DtorNotify, DtorJoin, workerVars, Notify, scanVars
<1>3. LockInv'
  BY <1>0, <1>1, <1>2 DEF LockInv
<1>4. QED BY <1>0, <1>1, <1>2, <1>3, ThreadMoves DEF Idle, HoldsItem, InRun

(* Popping: the head of pending_ becomes the last popped item. *)
LEMMA PopStep ==
  ASSUME IInv, wpc = "test", pending # <<>>, TakeNext, wpc' = "picked", mtx' = None,
         UNCHANGED <<history, itemVars, shutdown, owner, reader, scanVars, doomed>>
  PROVE  IInv'
<1>0. TypeOK /\ WorkerInv /\ LockInv /\ QueueInv /\ TransferInv /\ DoomInv /\ ScanInv
  BY DEF IInv
<1>1. /\ UNCHANGED <<history, state, cancel, direction, chunks, moved, errorMsg,
                     scanAt, scanQuiet, doomed, shutdown, owner, reader>>
      /\ item' = Head(pending) /\ pending' = Tail(pending)
  BY DEF TakeNext, itemVars, scanVars
<1>2. item = None
  BY <1>0 DEF WorkerInv, HoldsItem, InRun
<1>3. /\ Len(history) \in Nat /\ Len(pending) \in Nat /\ Len(pending) > 0
      /\ Popped + Len(pending) = Len(history) /\ Popped \in 0..Len(history)
  <2>1. Len(pending) # 0
    BY <1>0 DEF TypeOK
  <2>2. QED BY <1>0, <2>1, Places DEF Popped
<1>4. /\ Len(pending') = Len(pending) - 1 /\ item' = pending[1]
      /\ \A k \in 1..Len(pending') : pending'[k] = pending[k + 1]
      /\ pending' \in Seq(Items) /\ item' \in Items
  BY <1>0, <1>1, <1>3 DEF TypeOK
<1>5. Popped' = Popped + 1 /\ Popped' \in 1..Len(history)
  BY <1>1, <1>3, <1>4 DEF Popped
<1>6. item' = history[Popped'] /\ state[item'] = "Queued"
  BY <1>0, <1>3, <1>4, <1>5, Places
<1>7. TypeOK'
  BY <1>0, <1>1, <1>4 DEF TypeOK, HoldsItem, InRun
<1>8. WorkerInv' /\ LockInv'
  BY <1>0, <1>1, <1>4, <1>5, <1>6, NoneAssumption
     DEF WorkerInv, LockInv, HoldsItem, InRun
<1>9. QueueInv'
  <2>1. PendingIsTail'
    <3>1. ASSUME NEW k \in 1..Len(pending')
          PROVE  pending'[k] = history'[Len(history') - Len(pending') + k]
      <4>1. /\ k + 1 \in 1..Len(pending)
            /\ Len(history) - Len(pending') + k = Popped + (k + 1)
        <5> DEFINE h == Len(history)
                   p == Len(pending)
                   q == Len(pending')
        <5>1. /\ h \in Nat /\ p \in Nat /\ q = p - 1 /\ k \in 1..q
              /\ Popped + p = h /\ Popped \in Nat
          BY <1>3, <1>4
        <5> HIDE DEF h, p, q
        <5>2. k + 1 \in 1..p /\ h - q + k = Popped + (k + 1)
          BY <5>1
        <5>3. QED BY <5>2 DEF h, p, q
      <4>2. QED BY <1>0, <1>1, <1>4, <4>1, Places
    <3>2. QED BY <1>0, <1>1, <1>3, <1>4, <3>1, Places DEF PendingIsTail
  <2>2. ASSUME NEW k \in 1..Len(history)
        PROVE  IF k > Popped' THEN state[history[k]] = "Queued"
               ELSE state[history[k]] \in Terminal \/ item' = history[k]
    <3>1. CASE k > Popped'
      BY <1>0, <1>3, <1>5, <3>1 DEF QueueInv
    <3>2. CASE k = Popped'
      BY <1>3, <1>5, <1>6, <3>2
    <3>3. CASE k <= Popped
      BY <1>0, <1>2, <1>3, <1>5, <3>3, Places, NoneAssumption DEF QueueInv
    <3>4. QED BY <1>3, <1>5, <3>1, <3>2, <3>3
  <2>3. QED BY <1>0, <1>1, <2>1, <2>2 DEF QueueInv
<1>10. TransferInv'
  BY <1>0, <1>1, <1>2, NoneAssumption DEF TransferInv
<1>11. DoomInv' /\ ScanInv'
  BY <1>0, <1>1 DEF DoomInv, ScanInv
<1>12. QED BY <1>7, <1>8, <1>9, <1>10, <1>11 DEF IInv

(* The predicate and the tests after it: leave, pop, or block. *)
LEMMA TestStep ==
  ASSUME IInv, Test
  PROVE  IInv'
<1>1. CASE ~shutdown /\ pending # <<>>
  BY <1>1, PopStep DEF Test
<1>2. CASE shutdown \/ pending = <<>>
  <2>1. UNCHANGED <<queueVars, itemVars, item, scanVars, doomed, shutdown, owner, reader>>
    BY <1>2 DEF Test, queueVars
  <2>2. /\ wpc = "test"
        /\ \/ wpc' = "exit" /\ mtx' = None
           \/ wpc' = "park" /\ mtx' = mtx
    BY <1>2 DEF Test
  <2>3. /\ mtx = "worker" <=> wpc \in {"test", "park"}
        /\ mtx = "scan" <=> scanAt > 0
        /\ mtx \in {None, "worker", "scan"} /\ shutdown \in BOOLEAN
        /\ owner \in {"alive", "stored", "joining", "gone"} /\ scanAt' = scanAt
    BY <2>1 DEF IInv, LockInv, TypeOK, scanVars
  <2>4. LockInv' /\ mtx' \in {None, "worker", "scan"}
    BY <2>2, <2>3, NoneAssumption DEF LockInv
  <2>5. QED BY <2>1, <2>2, <2>3, <2>4, ThreadMoves DEF Idle, HoldsItem, InRun
<1>3. QED BY <1>1, <1>2

(* Steps that keep the item and advance it: the first ones of an iteration,  *)
(* progress, and the error message.                                          *)
LEMMA StartSteps ==
  ASSUME IInv, (CheckCancelled /\ ~DropsCancelled) \/ Activate
  PROVE  IInv'
<1>0. TypeOK /\ WorkerInv /\ LockInv /\ QueueInv /\ TransferInv /\ DoomInv /\ ScanInv
  BY DEF IInv
<1>1. /\ UNCHANGED <<pending, history, cancel, direction, chunks, moved, errorMsg, item,
                     scanAt, scanQuiet, doomed, shutdown, mtx, owner, reader>>
      /\ \/ wpc = "picked" /\ wpc' = "start" /\ ~cancel[item] /\ state' = state
         \/ /\ wpc = "start" /\ wpc' = "open"
            /\ state' = [state EXCEPT ![item] = "Active"]
  BY DEF CheckCancelled, DropsCancelled, Activate, WorkerGoes, queueVars, scanVars
<1>2. /\ item # None /\ item \in Items /\ Popped \in 1..Len(history)
      /\ item = history[Popped] /\ state[item] = "Queued"
      /\ \A k \in 1..Len(history) : history[k] = item => k = Popped
  BY <1>0, <1>1, HeldItem, NoneAssumption DEF WorkerInv, HoldsItem, InRun
<1>3. TypeOK'
  BY <1>0, <1>1 DEF TypeOK, HoldsItem, InRun, States
<1>4. WorkerInv' /\ LockInv'
  BY <1>0, <1>1, <1>2 DEF WorkerInv, LockInv, HoldsItem, InRun, Popped, TypeOK
<1>5. \A i \in Items : i # item => state'[i] = state[i]
  BY <1>0, <1>1 DEF TypeOK
<1>6. state'[item] \in {"Queued", "Active"}
  BY <1>0, <1>1, <1>2 DEF TypeOK
<1>7. QueueInv'
  <2>1. PendingIsTail'
    BY <1>0, <1>1 DEF QueueInv, PendingIsTail
  <2>2. ASSUME NEW i \in Items
        PROVE  state'[i] = "Unborn" <=> \A k \in 1..Len(history) : history[k] # i
    BY <1>0, <1>2, <1>5, <1>6 DEF QueueInv
  <2>3. ASSUME NEW k \in 1..Len(history)
        PROVE  IF k > Popped THEN state'[history[k]] = "Queued"
               ELSE state'[history[k]] \in Terminal \/ item = history[k]
    <3>1. CASE k = Popped
      BY <1>0, <1>2, <3>1, Places
    <3>2. CASE k # Popped
      BY <1>0, <1>2, <1>5, <3>2, Places DEF QueueInv
    <3>3. QED BY <3>1, <3>2
  <2>4. QED BY <1>1, <2>1, <2>2, <2>3 DEF QueueInv, Popped
<1>8. TransferInv'
  BY <1>0, <1>1, <1>2, <1>5, <1>6 DEF TransferInv
<1>9. DoomInv'
  BY <1>0, <1>1, <1>2, <1>5 DEF DoomInv, TypeOK
<1>10. ScanInv'
  BY <1>0, <1>1, <1>2, <1>5, Places DEF ScanInv, Terminal
<1>11. QED BY <1>3, <1>4, <1>7, <1>8, <1>9, <1>10 DEF IInv

(* A chunk of progress, and the two halves of assigning error_msg. *)
LEMMA ProgressSteps ==
  ASSUME IInv, FirstChunk \/ NextChunk \/ BeginError \/ EndError
  PROVE  IInv'
<1>0. TypeOK /\ WorkerInv /\ LockInv /\ QueueInv /\ TransferInv /\ DoomInv /\ ScanInv
  BY DEF IInv
<1>1. /\ UNCHANGED <<pending, history, state, cancel, direction, chunks, item,
                     scanAt, scanQuiet, doomed, shutdown, mtx, owner, reader>>
      /\ \/ /\ wpc = "open" /\ wpc' = "loop" /\ errorMsg' = errorMsg
            /\ moved' = [moved EXCEPT ![item] = 1]
         \/ /\ wpc = "chunk" /\ wpc' \in {"post", "loop"} /\ errorMsg' = errorMsg
            /\ moved' = [moved EXCEPT ![item] = moved[item] + 1]
         \/ /\ wpc = "caught" /\ wpc' = "writing" /\ moved' = moved
            /\ errorMsg' = [errorMsg EXCEPT ![item] = "writing"]
         \/ /\ wpc = "writing" /\ wpc' = "fail" /\ moved' = moved
            /\ errorMsg' = [errorMsg EXCEPT ![item] = "set"]
  BY DEF FirstChunk, NextChunk, BeginError, EndError, WorkerGoes, queueVars, scanVars
<1>2. item # None /\ item \in Items /\ state[item] = "Active"
  BY <1>0, <1>1 DEF WorkerInv, HoldsItem, InRun, TypeOK
<1>3. /\ \A i \in Items : chunks[i] \in 1..MaxChunks /\ moved[i] \in 0..MaxChunks
      /\ MaxChunks \in Nat
  BY <1>0, MaxChunksAssumption DEF TypeOK
<1>4. moved'[item] <= chunks[item] /\ moved'[item] \in 0..MaxChunks
  BY <1>0, <1>1, <1>2, <1>3 DEF TransferInv, TypeOK
<1>5. \A i \in Items : i # item => moved'[i] = moved[i] /\ errorMsg'[i] = errorMsg[i]
  BY <1>0, <1>1 DEF TypeOK
<1>6. TypeOK'
  BY <1>0, <1>1, <1>3, <1>4, <1>5 DEF TypeOK, HoldsItem, InRun
<1>7. WorkerInv' /\ LockInv'
  BY <1>0, <1>1 DEF WorkerInv, LockInv, HoldsItem, InRun, Popped
<1>8. QueueInv'
  BY <1>0, <1>1 DEF QueueInv, PendingIsTail, Popped
<1>9. TransferInv'
  <2>1. wpc' = "fail" => errorMsg'[item] = "set"
    BY <1>0, <1>1, <1>2 DEF TypeOK
  <2>2. QED BY <1>0, <1>1, <1>2, <1>4, <1>5, <2>1 DEF TransferInv
<1>10. DoomInv' /\ ScanInv'
  BY <1>0, <1>1, <1>5 DEF DoomInv, ScanInv, TypeOK
<1>11. QED BY <1>6, <1>7, <1>8, <1>9, <1>10 DEF IInv

(* Ending an iteration with any final state. *)
LEMMA EndSteps ==
  ASSUME IInv, (CheckCancelled /\ DropsCancelled) \/ (CheckCancelAfter /\ SeesCancel)
                 \/ StoreDone \/ StoreFailed
  PROVE  IInv'
<1>0. TypeOK /\ WorkerInv /\ LockInv /\ QueueInv /\ TransferInv /\ DoomInv /\ ScanInv
  BY DEF IInv
<1>1. UNCHANGED <<pending, history, cancel, direction, chunks, moved, errorMsg,
                  scanAt, scanQuiet, doomed, shutdown, mtx, owner, reader>>
  BY DEF CheckCancelled, CheckCancelAfter, StoreDone, StoreFailed, queueVars, scanVars
<1>2. PICK s \in Terminal :
        /\ state' = [state EXCEPT ![item] = s] /\ item' = None /\ wpc' = "top"
        /\ wpc \in {"picked", "ran", "finish", "fail"}
        /\ s = "Failed" <=> wpc = "fail"
        /\ wpc = "picked" => s = "Cancelled"
  BY DEF CheckCancelled, CheckCancelAfter, StoreDone, StoreFailed, EndItem, Terminal
<1>3. /\ item # None /\ item \in Items /\ Popped \in 1..Len(history)
      /\ item = history[Popped]
      /\ \A k \in 1..Len(history) : history[k] = item => k = Popped
  BY <1>0, <1>2, HeldItem, NoneAssumption DEF WorkerInv, HoldsItem, InRun
<1>4. state'[item] = s /\ \A i \in Items : i # item => state'[i] = state[i]
  BY <1>0, <1>2, <1>3 DEF TypeOK
<1>5. TypeOK'
  BY <1>0, <1>1, <1>2 DEF TypeOK, Idle, States
<1>6. WorkerInv' /\ LockInv'
  BY <1>0, <1>1, <1>2 DEF WorkerInv, LockInv, HoldsItem, InRun
<1>7. QueueInv'
  <2>1. PendingIsTail'
    BY <1>0, <1>1 DEF QueueInv, PendingIsTail
  <2>2. ASSUME NEW i \in Items
        PROVE  state'[i] = "Unborn" <=> \A k \in 1..Len(history) : history[k] # i
    BY <1>0, <1>3, <1>4 DEF QueueInv, Terminal
  <2>3. ASSUME NEW k \in 1..Len(history)
        PROVE  IF k > Popped THEN state'[history[k]] = "Queued"
               ELSE state'[history[k]] \in Terminal
    <3>1. CASE k = Popped
      BY <1>0, <1>3, <1>4, <3>1, Places
    <3>2. CASE k # Popped
      BY <1>0, <1>3, <1>4, <3>2, Places DEF QueueInv
    <3>3. QED BY <3>1, <3>2
  <2>4. QED BY <1>1, <2>1, <2>2, <2>3 DEF QueueInv, Popped
<1>8. TransferInv'
  <2>1. s = "Failed" => errorMsg[item] = "set"
    BY <1>0, <1>2 DEF TransferInv
  <2>2. errorMsg[item] # "empty" => s = "Failed"
    BY <1>0, <1>2, <1>3 DEF TransferInv, WorkerInv
  <2>3. QED BY <1>0, <1>1, <1>2, <1>3, <1>4, <2>1, <2>2 DEF TransferInv, Terminal
<1>9. DoomInv'
  BY <1>0, <1>1, <1>2, <1>3, <1>4, NoneAssumption DEF DoomInv, TypeOK
<1>10. ScanInv'
  BY <1>0, <1>1, <1>4, Places DEF ScanInv
<1>11. QED BY <1>5, <1>6, <1>7, <1>8, <1>9, <1>10 DEF IInv

(* The check after the transfer found no cancel: the worker goes on to Done. *)
LEMMA CheckCancelAfterGoesOn ==
  ASSUME IInv, CheckCancelAfter, ~SeesCancel
  PROVE  IInv'
<1>1. /\ UNCHANGED <<queueVars, itemVars, item, scanVars, doomed, shutdown, mtx, owner,
                     reader>>
      /\ wpc = "ran" /\ wpc' = "finish"
  BY DEF CheckCancelAfter, itemVars
<1>2. LockInv' /\ mtx' \in {None, "worker", "scan"} /\ shutdown' \in BOOLEAN
      /\ owner' \in {"alive", "stored", "joining", "gone"}
  BY <1>1 DEF IInv, LockInv, TypeOK, scanVars
<1>3. QED BY <1>1, <1>2, ThreadMoves DEF Idle, HoldsItem, InRun

------------------------------------------------------------------------------
(* Every step of the engine keeps the invariant. *)
LEMMA NextIInv == IInv /\ [Next]_vars => IInv'
<1> SUFFICES ASSUME IInv, [Next]_vars PROVE IInv'
  OBVIOUS
<1>1. CASE ClientNext
  <2>1. CASE \E i \in Items, d \in Directions, n \in 1..MaxChunks : Enqueue(i, d, n)
    BY <2>1, EnqueueStep
  <2>2. CASE \E i \in Items : Cancel(i)
    BY <2>2, RaiseCancelStep DEF Cancel
  <2>3. CASE CancelAll
    BY <2>3, RaiseCancelStep DEF CancelAll
  <2>4. QED BY <1>1, <2>1, <2>2, <2>3, ReaderStep, ScanSteps DEF ClientNext
<1>2. CASE ScanNext
  BY <1>2, ScanSteps DEF ScanNext
<1>3. CASE WorkerNext
  BY <1>3, WorkerMoves, TestStep, StartSteps, ProgressSteps, EndSteps,
     CheckCancelAfterGoesOn DEF WorkerNext
<1>4. CASE Lock \/ SpuriousWakeup
  BY <1>4, WorkerMoves
<1>5. CASE DtorNext
  BY <1>5, DtorSteps
<1>6. CASE UNCHANGED vars
  <2>1. UNCHANGED <<queueVars, itemVars, item, scanVars, doomed, shutdown, mtx, owner,
                    reader, wpc>>
    BY <1>6 DEF vars, workerVars
  <2>2. LockInv' /\ mtx' \in {None, "worker", "scan"} /\ shutdown' \in BOOLEAN
        /\ owner' \in {"alive", "stored", "joining", "gone"} /\ wpc' \in Idle \cup HoldsItem
    BY <2>1 DEF IInv, LockInv, TypeOK, scanVars
  <2>3. QED BY <2>1, <2>2, ThreadMoves
<1>7. QED BY <1>1, <1>2, <1>3, <1>4, <1>5, <1>6 DEF Next

(* IInv holds throughout. *)
LEMMA Invariance == Spec => []IInv
  BY InitIInv, NextIInv, PTL DEF Spec

(* Every variable of the engine keeps its type. *)
THEOREM TypeCorrect == Spec => []TypeOK
  BY Invariance, PTL DEF IInv

(* pending_ and history_ never disagree. *)
THEOREM PendingTail == Spec => []PendingIsTail
<1>1. IInv => PendingIsTail
  BY DEF IInv, QueueInv
<1>2. QED BY <1>1, Invariance, PTL

(* Transfers are served strictly in the order they were queued. *)
THEOREM InOrder == Spec => []ServedInOrder
<1>1. ASSUME IInv, NEW j \in 1..Len(history), NEW k \in 1..Len(history),
             j < k, state[history[k]] # "Queued"
      PROVE  state[history[j]] \in Terminal
  <2>1. TypeOK /\ QueueInv /\ WorkerInv
    BY <1>1 DEF IInv
  <2>2. k <= Popped /\ j < Popped
    BY <1>1, <2>1, Places DEF QueueInv
  <2>3. history[j] # item
    <3>1. CASE item = None
      BY <2>1, <3>1, Places, NoneAssumption
    <3>2. CASE item # None
      BY <2>1, <2>2, <3>2, HeldItem
    <3>3. QED BY <3>1, <3>2
  <2>4. QED BY <2>1, <2>2, <2>3, Places DEF QueueInv
<1>2. IInv => ServedInOrder
  BY <1>1 DEF ServedInOrder
<1>3. QED BY <1>2, Invariance, PTL

(* The only transfer shown as Active is the one the worker runs. *)
THEOREM OneActive == Spec => []ActiveIsCurrent
<1>1. ASSUME IInv, NEW i \in Items, state[i] = "Active"
      PROVE  item = i /\ wpc \in HoldsItem \ {"picked", "start"}
  <2>1. TypeOK /\ QueueInv /\ WorkerInv
    BY <1>1 DEF IInv
  <2>2. PICK k \in 1..Len(history) : history[k] = i
    BY <1>1, <2>1 DEF QueueInv
  <2>3. item = i
    BY <1>1, <2>1, <2>2, Places DEF QueueInv, Terminal
  <2>4. QED BY <1>1, <2>1, <2>3, NoneAssumption DEF WorkerInv
<1>2. IInv => ActiveIsCurrent
  BY <1>1 DEF ActiveIsCurrent
<1>3. QED BY <1>2, Invariance, PTL

(* A failure is never shown before its reason is complete. *)
THEOREM ReasonFirst == Spec => []FailedHasReason
<1>1. IInv => FailedHasReason
  BY DEF IInv, TransferInv, FailedHasReason
<1>2. QED BY <1>1, Invariance, PTL

(* has_active answers false only if there was an idle moment during the call. *)
THEOREM IdleAnswer == Spec => []IdleAnswerIsTrue
<1>1. ASSUME IInv, scanAt > Len(history), ~scanQuiet, NEW i \in Items, state[i] = "Active"
      PROVE  FALSE
  <2>1. TypeOK /\ QueueInv /\ ScanInv
    BY <1>1 DEF IInv
  <2>2. PICK k \in 1..Len(history) : history[k] = i
    BY <1>1, <2>1 DEF QueueInv
  <2>3. k < scanAt /\ scanAt > 0
    BY <1>1, <2>1, <2>2, Places DEF TypeOK
  <2>4. state[history[k]] \in Terminal
    BY <1>1, <2>1, <2>3 DEF ScanInv
  <2>5. QED BY <1>1, <2>2, <2>4 DEF Terminal
<1>2. IInv => IdleAnswerIsTrue
  BY <1>1 DEF IdleAnswerIsTrue, NoneActive
<1>3. QED BY <1>2, Invariance, PTL

(* What is cancelled while it waits never starts. *)
THEOREM DoomedWait == Spec => []DoomedNeverStart
<1>1. IInv => DoomedNeverStart
  BY DEF IInv, DoomInv, DoomedNeverStart
<1>2. QED BY <1>1, Invariance, PTL

------------------------------------------------------------------------------
(* Refinement: the engine implements the abstract queue. *)

(* The engine's initial state is the abstract queue's. *)
LEMMA QueueInit == Init => Queue!Init
  BY DEF Init, Queue!Init

(* The worker's item is at the head of the abstract line. *)
LEMMA HeldAtHead ==
  ASSUME IInv, item # None
  PROVE  /\ Popped \in 1..Len(history) /\ history[Popped] = item /\ item \in Items
         /\ Queue!AtHead(Popped)
<1>1. TypeOK /\ QueueInv /\ WorkerInv
  BY DEF IInv
<1>2. /\ Popped \in 1..Len(history) /\ history[Popped] = item /\ item \in Items
      /\ \A k \in 1..Len(history) : history[k] = item => k = Popped
  BY <1>1, HeldItem
<1>3. ASSUME NEW j \in 1..(Popped - 1)
      PROVE  state[history[j]] \in Terminal
  <2>1. j \in 1..Len(history) /\ ~(j > Popped) /\ j # Popped
    BY <1>1, <1>2, Places
  <2>2. QED BY <1>1, <1>2, <2>1 DEF QueueInv
<1>4. QED BY <1>2, <1>3 DEF Queue!AtHead, Queue!Terminal, Terminal

(* Every step of the worker starts, skips or finishes the head of the line, *)
(* or is invisible.                                                        *)
LEMMA QueueWorker ==
  ASSUME IInv, CheckCancelled \/ Activate \/ CheckCancelAfter \/ StoreDone \/ StoreFailed
  PROVE  Queue!Next \/ UNCHANGED Queue!vars
<1>1. history' = history /\ cancel' = cancel
  BY DEF CheckCancelled, Activate, CheckCancelAfter, StoreDone, StoreFailed, queueVars
<1>2. wpc \in HoldsItem
  BY DEF CheckCancelled, Activate, CheckCancelAfter, StoreDone, StoreFailed, HoldsItem,
         WorkerGoes
<1>3. /\ item # None /\ Popped \in 1..Len(history) /\ history[Popped] = item
      /\ item \in Items /\ Queue!AtHead(Popped)
      /\ state[item] = IF wpc \in {"picked", "start"} THEN "Queued" ELSE "Active"
  BY <1>2, HeldAtHead DEF IInv, WorkerInv
<1>4. CASE CheckCancelled /\ DropsCancelled
  <2>1. state' = [state EXCEPT ![item] = "Cancelled"] /\ cancel[item] /\ wpc = "picked"
    BY <1>4 DEF CheckCancelled, DropsCancelled, EndItem
  <2>2. Queue!Skip(Popped)
    BY <1>1, <1>3, <2>1 DEF Queue!Skip
  <2>3. QED BY <1>3, <2>2 DEF Queue!Next
<1>5. CASE Activate
  <2>1. state' = [state EXCEPT ![item] = "Active"] /\ wpc = "start"
    BY <1>5 DEF Activate, WorkerGoes
  <2>2. Queue!Start(Popped)
    BY <1>1, <1>3, <2>1 DEF Queue!Start
  <2>3. QED BY <1>3, <2>2 DEF Queue!Next
<1>6. CASE StoreDone \/ StoreFailed \/ (CheckCancelAfter /\ SeesCancel)
  <2>1. PICK s \in Terminal : /\ state' = [state EXCEPT ![item] = s]
                              /\ s = "Cancelled" => cancel[item]
                              /\ wpc \in {"ran", "finish", "fail"}
    BY <1>6 DEF StoreDone, StoreFailed, CheckCancelAfter, SeesCancel, EndItem, Terminal
  <2>2. Queue!Finish(Popped, s)
    BY <1>1, <1>3, <2>1 DEF Queue!Finish, Queue!Terminal, Terminal
  <2>3. QED BY <1>3, <2>2 DEF Queue!Next, Queue!Terminal, Terminal
<1>7. CASE (CheckCancelled /\ ~DropsCancelled) \/ (CheckCancelAfter /\ ~SeesCancel)
  BY <1>1, <1>7 DEF CheckCancelled, CheckCancelAfter, Queue!vars
<1>8. QED BY <1>4, <1>5, <1>6, <1>7

(* Every other thread's step submits, asks for a cancel, or is invisible. *)
LEMMA QueueClient ==
  ASSUME IInv, ClientNext
  PROVE  Queue!Next \/ UNCHANGED Queue!vars
<1>1. CASE \E i \in Items, d \in Directions, n \in 1..MaxChunks : Enqueue(i, d, n)
  <2>1. PICK i \in Items, d \in Directions, n \in 1..MaxChunks : Enqueue(i, d, n)
    BY <1>1
  <2>2. Queue!Submit(i)
    BY <2>1 DEF Enqueue, Queue!Submit
  <2>3. QED BY <2>2 DEF Queue!Next
<1>2. ASSUME NEW some \in SUBSET Items, RaiseCancel(some),
             \A i \in some : state[i] # "Unborn"
      PROVE  Queue!Next
  <2>1. {i \in Items : cancel'[i]} = {i \in Items : cancel[i]} \cup some
    BY <1>2 DEF RaiseCancel, IInv, TypeOK
  <2>2. Queue!Ask(some)
    BY <1>2, <2>1 DEF RaiseCancel, Queue!Ask, queueVars
  <2>3. QED BY <1>2, <2>2 DEF Queue!Next
<1>3. CASE \E i \in Items : Cancel(i)
  BY <1>2, <1>3 DEF Cancel
<1>4. CASE CancelAll
  BY <1>2, <1>4 DEF CancelAll
<1>5. CASE (\E i \in Items : ReadBegin(i)) \/ ReadEnd \/ ScanBegin
  BY <1>5 DEF ReadBegin, ReadEnd, ScanBegin, Queue!vars, queueVars, itemVars
<1>6. QED BY <1>1, <1>3, <1>4, <1>5 DEF ClientNext

(* Every step of the engine is one of the abstract queue, or a stutter. *)
LEMMA QueueStep == IInv /\ [Next]_vars => [Queue!Next]_(Queue!vars)
<1> SUFFICES ASSUME IInv, [Next]_vars PROVE Queue!Next \/ UNCHANGED Queue!vars
  OBVIOUS
<1>1. CASE ClientNext
  BY <1>1, QueueClient
<1>2. CASE CheckCancelled \/ Activate \/ CheckCancelAfter \/ StoreDone \/ StoreFailed
  BY <1>2, QueueWorker
<1>3. CASE ScanNext \/ Lock \/ SpuriousWakeup \/ DtorNext
  BY <1>3 DEF ScanNext, ScanStep, ScanEnd, Lock, SpuriousWakeup, DtorNext, DtorStore,
              DtorNotify, DtorJoin, queueVars, itemVars, Queue!vars
<1>4. CASE \/ CheckShutdown \/ Test \/ Park \/ FirstChunk \/ LoopTest \/ NextChunk
           \/ EmptyChunk \/ UploadCheck \/ Response \/ Throw \/ BeginError \/ EndError
  BY <1>4 DEF CheckShutdown, Test, Park, FirstChunk, LoopTest, NextChunk, EmptyChunk,
              UploadCheck, Response, Throw, BeginError, EndError, queueVars, itemVars,
              Queue!vars
<1>5. CASE UNCHANGED vars
  BY <1>5 DEF vars, queueVars, itemVars, Queue!vars
<1>6. QED BY <1>1, <1>2, <1>3, <1>4, <1>5 DEF Next, WorkerNext

(* Every behaviour of the engine is one of the abstract queue: first in,     *)
(* first out, one at a time, and nothing is Cancelled that nobody cancelled. *)
THEOREM EngineImplementsQueue == Spec => ImplementsQueue
  BY QueueInit, QueueStep, Invariance, PTL DEF Spec, ImplementsQueue, Queue!Spec

(* Done, Failed and Cancelled are final, and Cancelled needs the flag. *)
THEOREM FinalOutcome == Spec => OutcomeIsFinal
<1> DEFINE Final == \A i \in Items :
                      /\ state[i] \in Terminal => state'[i] = state[i]
                      /\ (state'[i] = "Cancelled" /\ state[i] # "Cancelled") => cancel[i]
<1>1. ASSUME IInv, Queue!Next \/ UNCHANGED Queue!vars
      PROVE  Final
  <2>1. state \in [Items -> States \cup {"Unborn"}] /\ history \in Seq(Items)
    BY <1>1 DEF IInv, TypeOK
  <2>2. CASE \E j \in Items : Queue!Submit(j)
    BY <2>1, <2>2 DEF Queue!Submit, Terminal
  <2>3. CASE UNCHANGED Queue!vars \/ \E some \in SUBSET Items : Queue!Ask(some)
    BY <2>3 DEF Queue!vars, Queue!Ask
  <2>4. ASSUME NEW k \in 1..Len(history),
               Queue!Start(k) \/ Queue!Skip(k)
                 \/ \E outcome \in Queue!Terminal : Queue!Finish(k, outcome)
        PROVE  Final
    BY <2>1, <2>4 DEF Queue!Start, Queue!Skip, Queue!Finish, Queue!Terminal, Terminal
  <2>5. QED BY <1>1, <2>2, <2>3, <2>4 DEF Queue!Next
<1>2. IInv /\ [Next]_vars => [Final]_vars
  BY <1>1, QueueStep
<1>3. QED BY <1>2, Invariance, PTL DEF Spec, OutcomeIsFinal

==============================================================================
