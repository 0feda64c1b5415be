--------------------------- MODULE TransferEngine ---------------------------
(***************************************************************************)
(* The background transfer queue of src/transfer/TransferEngine.{hpp,cpp}: *)
(* client calls, the worker thread and the destructor, interleaved at      *)
(* every lock operation and every access to an atomic another thread can   *)
(* see.  One transfer is a number of bulk chunks; run_download and         *)
(* run_upload are followed into the calls they make on the session only as *)
(* far as chunks, cancellation checks and exceptions.                      *)
(***************************************************************************)
EXTENDS Naturals, Sequences, FiniteSets

CONSTANTS
  Items,      (* the TransferItem objects clients may create, one per enqueue *)
  MaxChunks,  (* bound: most bulk chunks one transfer takes                   *)
  None        (* the empty shared_ptr, and "nobody" as a lock holder          *)

ASSUME NoneAssumption == None \notin Items \cup {"worker", "scan"}
ASSUME MaxChunksAssumption == MaxChunks \in Nat \ {0}

VARIABLES
  pending,    (* pending_, a FIFO of items                              *)
  history,    (* history_, every item ever queued                       *)
  state,      (* item->state; "Unborn" before make_shared               *)
  cancel,     (* item->cancel                                           *)
  direction,  (* item->direction                                        *)
  chunks,     (* the chunks the transfer takes, from item->total_bytes  *)
  moved,      (* item->bytes_done, in chunks                            *)
  errorMsg,   (* item->error_msg: "" , being assigned, assigned         *)
  shutdown,   (* shutdown_                                              *)
  mtx,        (* who holds mtx_ across steps: None, "worker", "scan"    *)
  wpc,        (* where the worker is in worker_loop                     *)
  item,       (* worker_loop's local                                    *)
  owner,      (* where the owning thread is in ~TransferEngine          *)
  reader,     (* the item state_json is formatting, or None             *)
  scanAt,     (* has_active's index into history_, 0 when not running   *)
  scanQuiet,  (* history variable: the running has_active has seen a    *)
              (* moment with no active transfer                         *)
  doomed      (* history variable: items cancelled while in pending_    *)

itemVars == <<state, cancel, direction, chunks, moved, errorMsg>>
queueVars == <<pending, history>>
workerVars == <<wpc, item>>
scanVars == <<scanAt, scanQuiet>>
vars == <<queueVars, itemVars, shutdown, mtx, workerVars, owner, reader, scanVars, doomed>>

Terminal == {"Done", "Failed", "Cancelled"}
States == {"Queued", "Active"} \cup Terminal
Directions == {"Download", "Upload"}

(* Where the worker can be, in the order of worker_loop:                   *)
(*   top     the while condition           lock    about to lock mtx_      *)
(*   test    wait's predicate, mtx_ held   park    predicate was false,    *)
(*   parked  blocked in wait, mtx_ free            still holding mtx_      *)
(*   woken   notified, wants mtx_ back     picked  item popped, mtx_ free  *)
(*   start   found not cancelled           open    state is Active         *)
(*   loop    the while of the transfer     chunk   one bulk transfer       *)
(*   post    upload's second cancel check  resp    receive_response        *)
(*   ran     the transfer returned         finish  about to store Done     *)
(*   caught  an exception was caught       writing assigning error_msg     *)
(*   fail    about to store Failed         exit    worker_loop returned    *)
InRun == {"open", "loop", "chunk", "post", "resp"}
HoldsItem == {"picked", "start", "ran", "finish", "caught", "writing", "fail"} \cup InRun
Idle == {"top", "lock", "test", "park", "parked", "woken", "exit"}

NoneActive == \A i \in Items : state[i] # "Active"

Init ==
  /\ pending = <<>>
  /\ history = <<>>
  /\ state = [i \in Items |-> "Unborn"]
  /\ cancel = [i \in Items |-> FALSE]
  /\ direction = [i \in Items |-> "Download"]
  /\ chunks = [i \in Items |-> 1]
  /\ moved = [i \in Items |-> 0]
  /\ errorMsg = [i \in Items |-> "empty"]
  /\ shutdown = FALSE
  /\ mtx = None
  /\ wpc = "top"
  /\ item = None
  /\ owner = "alive"
  /\ reader = None
  /\ scanAt = 0
  /\ scanQuiet = FALSE
  /\ doomed = {}

------------------------------------------------------------------------------
(* Client calls.  enqueue, cancel and state_json run on the main thread, one *)
(* at a time; has_active runs on the monitor thread.  The owner makes no     *)
(* call once it is inside the destructor (App's duty, not the engine's).     *)

ClientMayCall == owner = "alive" /\ reader = None /\ mtx = None

MutNotifyNobody == UNCHANGED wpc

(* cv_.notify_one and notify_all: there is one waiter. *)
Notify == wpc' = IF wpc = "parked" THEN "woken" ELSE wpc

Enqueue(i, d, n) ==
  /\ ClientMayCall
  /\ state[i] = "Unborn"
  /\ state' = [state EXCEPT ![i] = "Queued"]
  /\ direction' = [direction EXCEPT ![i] = d]
  /\ chunks' = [chunks EXCEPT ![i] = n]
  /\ history' = Append(history, i)
  /\ pending' = Append(pending, i)
  /\ Notify
  /\ UNCHANGED <<cancel, moved, errorMsg, shutdown, mtx, item, owner, reader, scanVars, doomed>>

Waiting == {pending[k] : k \in 1..Len(pending)}

(* cancel and cancel_all *)
RaiseCancel(some) ==
  /\ cancel' = [i \in Items |-> cancel[i] \/ i \in some]
  /\ doomed' = doomed \cup (some \cap Waiting)
  /\ UNCHANGED <<queueVars, state, direction, chunks, moved, errorMsg, shutdown, mtx,
                 workerVars, owner, reader, scanVars>>

Cancel(i) ==
  /\ ClientMayCall
  /\ state[i] # "Unborn"
  /\ RaiseCancel({i})

CancelAll ==
  /\ ClientMayCall
  /\ RaiseCancel({i \in Items : state[i] # "Unborn"})

(* state_json formats the items of an all_transfers() copy with no lock held. *)
ReadBegin(i) ==
  /\ ClientMayCall
  /\ state[i] # "Unborn"
  /\ reader' = i
  /\ UNCHANGED <<queueVars, itemVars, shutdown, mtx, workerVars, owner, scanVars, doomed>>

ReadEnd ==
  /\ reader # None
  /\ reader' = None
  /\ UNCHANGED <<queueVars, itemVars, shutdown, mtx, workerVars, owner, scanVars, doomed>>

MutLooksAtNewest ==
  /\ owner = "alive"
  /\ mtx = None
  /\ mtx' = "scan"
  /\ scanAt' = IF history = <<>> THEN 1 ELSE Len(history)
  /\ scanQuiet' = NoneActive
  /\ UNCHANGED <<queueVars, itemVars, shutdown, workerVars, owner, reader, doomed>>

(* has_active holds mtx_ and loads one state after another. *)
ScanBegin ==
  /\ owner = "alive"
  /\ mtx = None
  /\ mtx' = "scan"
  /\ scanAt' = 1
  /\ scanQuiet' = NoneActive
  /\ UNCHANGED <<queueVars, itemVars, shutdown, workerVars, owner, reader, doomed>>

ScanReturn == mtx' = None /\ scanAt' = 0 /\ scanQuiet' = FALSE

ScanStep ==
  /\ scanAt \in 1..Len(history)
  /\ IF state[history[scanAt]] = "Active"
       THEN ScanReturn                                     \* return true
       ELSE /\ scanAt' = scanAt + 1
            /\ scanQuiet' = (scanQuiet \/ NoneActive)
            /\ UNCHANGED mtx
  /\ UNCHANGED <<queueVars, itemVars, shutdown, workerVars, owner, reader, doomed>>

ScanEnd ==
  /\ scanAt > Len(history)
  /\ ScanReturn                                           \* return false
  /\ UNCHANGED <<queueVars, itemVars, shutdown, workerVars, owner, reader, doomed>>

------------------------------------------------------------------------------
(* worker_loop *)

WorkerGoes(from, to) == wpc = from /\ wpc' = to

CheckShutdown ==
  /\ wpc = "top"
  /\ wpc' = IF shutdown THEN "exit" ELSE "lock"
  /\ UNCHANGED <<queueVars, itemVars, shutdown, mtx, item, owner, reader, scanVars, doomed>>

(* unique_lock, and wait taking the mutex back after a wake-up *)
Lock ==
  /\ wpc \in {"lock", "woken"}
  /\ mtx = None
  /\ mtx' = "worker"
  /\ wpc' = "test"
  /\ UNCHANGED <<queueVars, itemVars, shutdown, item, owner, reader, scanVars, doomed>>

TakeNext == item' = Head(pending) /\ pending' = Tail(pending)

(* The predicate and the tests after it.  shutdown_ is read twice in a row;    *)
(* only the last reading decides, so one step stands for both.                 *)
Test ==
  /\ wpc = "test"
  /\ \/ /\ shutdown
        /\ wpc' = "exit"
        /\ mtx' = None
        /\ UNCHANGED <<pending, item>>
     \/ /\ ~shutdown
        /\ pending # <<>>
        /\ TakeNext
        /\ wpc' = "picked"
        /\ mtx' = None
     \/ /\ ~shutdown
        /\ pending = <<>>
        /\ wpc' = "park"
        /\ UNCHANGED <<pending, item, mtx>>
  /\ UNCHANGED <<history, itemVars, shutdown, owner, reader, scanVars, doomed>>

(* Blocking and releasing the mutex are one step; only what is notified after  *)
(* it wakes the worker.                                                        *)
Park ==
  /\ WorkerGoes("park", "parked")
  /\ mtx' = None
  /\ UNCHANGED <<queueVars, itemVars, shutdown, item, owner, reader, scanVars, doomed>>

SpuriousWakeup ==
  /\ WorkerGoes("parked", "woken")
  /\ UNCHANGED <<queueVars, itemVars, shutdown, mtx, item, owner, reader, scanVars, doomed>>

(* Every way an iteration ends stores a state and drops the item. *)
EndItem(s) ==
  /\ state' = [state EXCEPT ![item] = s]
  /\ item' = None
  /\ wpc' = "top"

MutAlwaysDrops == TRUE
DropsCancelled == cancel[item]

CheckCancelled ==
  /\ wpc = "picked"
  /\ IF DropsCancelled
       THEN EndItem("Cancelled")
       ELSE wpc' = "start" /\ UNCHANGED <<state, item>>
  /\ UNCHANGED <<queueVars, cancel, direction, chunks, moved, errorMsg, shutdown, mtx,
                 owner, reader, scanVars, doomed>>

Activate ==
  /\ WorkerGoes("start", "open")
  /\ state' = [state EXCEPT ![item] = "Active"]
  /\ UNCHANGED <<queueVars, cancel, direction, chunks, moved, errorMsg, shutdown, mtx,
                 item, owner, reader, scanVars, doomed>>

(* The command went out, the file is open and the first chunk went through. *)
FirstChunk ==
  /\ WorkerGoes("open", "loop")
  /\ moved' = [moved EXCEPT ![item] = 1]
  /\ UNCHANGED <<queueVars, state, cancel, direction, chunks, errorMsg, shutdown, mtx,
                 item, owner, reader, scanVars, doomed>>

MutBlindToCancel == FALSE
SeesCancel == cancel[item]

Complete == moved[item] >= chunks[item]

LoopTest ==
  /\ wpc = "loop"
  /\ wpc' = IF Complete THEN "resp" ELSE IF SeesCancel THEN "caught" ELSE "chunk"
  /\ UNCHANGED <<queueVars, itemVars, shutdown, mtx, item, owner, reader, scanVars, doomed>>

NextChunk ==
  /\ wpc = "chunk"
  /\ wpc' = IF direction[item] = "Upload" THEN "post" ELSE "loop"
  /\ moved' = [moved EXCEPT ![item] = @ + 1]
  /\ UNCHANGED <<queueVars, state, cancel, direction, chunks, errorMsg, shutdown, mtx,
                 item, owner, reader, scanVars, doomed>>

(* A zero-length read from the pipe or from the file breaks out of the loop. *)
EmptyChunk ==
  /\ WorkerGoes("chunk", "resp")
  /\ UNCHANGED <<queueVars, itemVars, shutdown, mtx, item, owner, reader, scanVars, doomed>>

UploadCheck ==
  /\ wpc = "post"
  /\ wpc' = IF SeesCancel THEN "caught" ELSE "loop"
  /\ UNCHANGED <<queueVars, itemVars, shutdown, mtx, item, owner, reader, scanVars, doomed>>

(* receive_response brought OK or TransactionCancelled. *)
Response ==
  /\ WorkerGoes("resp", "ran")
  /\ UNCHANGED <<queueVars, itemVars, shutdown, mtx, item, owner, reader, scanVars, doomed>>

(* Any call on the session or the file system may throw. *)
Throw ==
  /\ wpc \in {"open", "chunk", "resp"}
  /\ wpc' = "caught"
  /\ UNCHANGED <<queueVars, itemVars, shutdown, mtx, item, owner, reader, scanVars, doomed>>

CheckCancelAfter ==
  /\ wpc = "ran"
  /\ IF SeesCancel
       THEN EndItem("Cancelled")
       ELSE wpc' = "finish" /\ UNCHANGED <<state, item>>
  /\ UNCHANGED <<queueVars, cancel, direction, chunks, moved, errorMsg, shutdown, mtx,
                 owner, reader, scanVars, doomed>>

StoreDone ==
  /\ wpc = "finish"
  /\ EndItem("Done")
  /\ UNCHANGED <<queueVars, cancel, direction, chunks, moved, errorMsg, shutdown, mtx,
                 owner, reader, scanVars, doomed>>

MutFailedBeforeReason ==
  /\ WorkerGoes("caught", "writing")
  /\ errorMsg' = [errorMsg EXCEPT ![item] = "writing"]
  /\ state' = [state EXCEPT ![item] = "Failed"]
  /\ UNCHANGED <<queueVars, cancel, direction, chunks, moved, shutdown, mtx,
                 item, owner, reader, scanVars, doomed>>

(* error_msg is a plain std::string: assigning it takes time. *)
BeginError ==
  /\ WorkerGoes("caught", "writing")
  /\ errorMsg' = [errorMsg EXCEPT ![item] = "writing"]
  /\ UNCHANGED <<queueVars, state, cancel, direction, chunks, moved, shutdown, mtx,
                 item, owner, reader, scanVars, doomed>>

EndError ==
  /\ WorkerGoes("writing", "fail")
  /\ errorMsg' = [errorMsg EXCEPT ![item] = "set"]
  /\ UNCHANGED <<queueVars, state, cancel, direction, chunks, moved, shutdown, mtx,
                 item, owner, reader, scanVars, doomed>>

StoreFailed ==
  /\ wpc = "fail"
  /\ EndItem("Failed")
  /\ UNCHANGED <<queueVars, cancel, direction, chunks, moved, errorMsg, shutdown, mtx,
                 owner, reader, scanVars, doomed>>

------------------------------------------------------------------------------
(* ~TransferEngine: neither step takes mtx_; then ~jthread joins the worker. *)

MutDtorForgetsFlag ==
  /\ owner = "alive" /\ reader = None /\ scanAt = 0
  /\ owner' = "stored"
  /\ UNCHANGED <<queueVars, itemVars, shutdown, mtx, workerVars, reader, scanVars, doomed>>

DtorStore ==
  /\ owner = "alive" /\ reader = None /\ scanAt = 0
  /\ owner' = "stored"
  /\ shutdown' = TRUE
  /\ UNCHANGED <<queueVars, itemVars, mtx, workerVars, reader, scanVars, doomed>>

DtorNotify ==
  /\ owner = "stored"
  /\ owner' = "joining"
  /\ Notify
  /\ UNCHANGED <<queueVars, itemVars, shutdown, mtx, item, reader, scanVars, doomed>>

DtorJoin ==
  /\ owner = "joining"
  /\ wpc = "exit"
  /\ owner' = "gone"
  /\ UNCHANGED <<queueVars, itemVars, shutdown, mtx, workerVars, reader, scanVars, doomed>>

------------------------------------------------------------------------------
ClientNext ==
  \/ \E i \in Items, d \in Directions, n \in 1..MaxChunks : Enqueue(i, d, n)
  \/ \E i \in Items : Cancel(i) \/ ReadBegin(i)
  \/ CancelAll \/ ReadEnd \/ ScanBegin

ScanNext == ScanStep \/ ScanEnd

(* The steps the worker takes without waiting for another thread. *)
WorkerNext ==
  \/ CheckShutdown \/ Test \/ Park
  \/ CheckCancelled \/ Activate \/ FirstChunk
  \/ LoopTest \/ NextChunk \/ EmptyChunk \/ UploadCheck \/ Response \/ Throw
  \/ CheckCancelAfter \/ StoreDone \/ BeginError \/ EndError \/ StoreFailed

DtorNext == DtorStore \/ DtorNotify \/ DtorJoin

Next == ClientNext \/ ScanNext \/ WorkerNext \/ Lock \/ SpuriousWakeup \/ DtorNext

Spec == Init /\ [][Next]_vars

(* Threads are scheduled and every USB call returns (each has a timeout), so   *)
(* the worker, a running scan and a running destructor go on.  The mutex is    *)
(* strongly fair to the worker: its only rival that holds the mutex for long,  *)
(* has_active, comes back after two seconds of sleep.  Nobody has to call, and *)
(* no wake-up is owed that nobody sent.                                        *)
Fairness ==
  /\ WF_vars(WorkerNext)
  /\ SF_vars(Lock)
  /\ WF_vars(ScanNext)
  /\ WF_vars(DtorNotify)
  /\ WF_vars(DtorJoin)

FairSpec == Spec /\ Fairness

------------------------------------------------------------------------------
(* Properties *)

(* Types of every variable of the engine, its items and its threads. *)
TypeOK ==
  /\ pending \in Seq(Items)
  /\ history \in Seq(Items)
  /\ state \in [Items -> States \cup {"Unborn"}]
  /\ cancel \in [Items -> BOOLEAN]
  /\ direction \in [Items -> Directions]
  /\ chunks \in [Items -> 1..MaxChunks]
  /\ moved \in [Items -> 0..MaxChunks]
  /\ errorMsg \in [Items -> {"empty", "writing", "set"}]
  /\ shutdown \in BOOLEAN
  /\ mtx \in {None, "worker", "scan"}
  /\ wpc \in Idle \cup HoldsItem
  /\ item \in Items \cup {None}
  /\ owner \in {"alive", "stored", "joining", "gone"}
  /\ reader \in Items \cup {None}
  /\ scanAt \in Nat
  /\ scanQuiet \in BOOLEAN
  /\ doomed \subseteq Items

(* pending_ and history_ never disagree: what waits is the tail of what was    *)
(* queued, and exactly one copy of each item is in history_                    *)
(* (enqueue_download, enqueue_upload, the pop in worker_loop).                 *)
PendingIsTail ==
  /\ Len(pending) <= Len(history)
  /\ \A k \in 1..Len(pending) :
       pending[k] = history[Len(history) - Len(pending) + k]
  /\ \A j, k \in 1..Len(history) : history[j] = history[k] => j = k

(* Transfers are served strictly in the order they were queued: when one has   *)
(* left Queued, everything queued before it is over, whatever was cancelled or *)
(* failed in between.                                                          *)
ServedInOrder ==
  \A j, k \in 1..Len(history) :
    (j < k /\ state[history[k]] # "Queued") => state[history[j]] \in Terminal

(* "Single-worker transfer engine": the only transfer shown as Active is the   *)
(* one the worker runs, so two are never on the wire together.                 *)
ActiveIsCurrent ==
  \A i \in Items : state[i] = "Active" =>
    item = i /\ wpc \in HoldsItem \ {"picked", "start"}

(* The worker stores Failed only after error_msg is complete, so the panel     *)
(* never shows a failure without its reason; other items have none.            *)
FailedHasReason ==
  \A i \in Items : /\ state[i] = "Failed" => errorMsg[i] = "set"
                   /\ errorMsg[i] # "empty" => (state[i] = "Failed" \/ item = i)

(* has_active answers false only if at some moment during the call no transfer *)
(* was active, although it looks at the items one after another while the       *)
(* worker goes on (device_monitor_loop polls the device on that answer).        *)
IdleAnswerIsTrue == scanAt > Len(history) => (scanQuiet \/ NoneActive)

(* An item cancelled while it still waits in pending_ is never started: it      *)
(* never becomes Active and no byte of it moves, whenever the worker gets to it. *)
DoomedNeverStart ==
  \A i \in doomed : state[i] \in {"Queued", "Cancelled"} /\ moved[i] = 0

(* Done, Failed and Cancelled are final, and only a transfer whose cancel flag *)
(* is up is ever shown as Cancelled.                                           *)
OutcomeIsFinal ==
  [][\A i \in Items :
       /\ state[i] \in Terminal => state'[i] = state[i]
       /\ (state'[i] = "Cancelled" /\ state[i] # "Cancelled") => cancel[i]]_vars

(* Every queued transfer ends, unless the engine is being destroyed. *)
EveryTransferEnds ==
  \A i \in Items : state[i] = "Queued" ~> (state[i] \in Terminal \/ shutdown)

(* A cancel that arrives before the worker has looked for the last time keeps  *)
(* the transfer from being reported as Done.                                   *)
CancelTakesEffect ==
  \A i \in Items :
    (cancel[i] /\ state[i] \in {"Queued", "Active"} /\ ~(item = i /\ wpc = "finish"))
      ~> (state[i] \in {"Cancelled", "Failed"} \/ shutdown)

(* The destructor returns whenever its notification finds the worker anywhere  *)
(* but between the predicate and the block.                                    *)
JoinEndsUnlessWakeupLost ==
  (owner = "joining" /\ wpc \notin {"park", "parked"}) ~> owner = "gone"

(* The abstract queue this engine implements. *)
Queue == INSTANCE TransferQueue
           WITH Jobs <- Items, order <- history, status <- state,
                asked <- {i \in Items : cancel[i]}

ImplementsQueue == Queue!Spec
==============================================================================
