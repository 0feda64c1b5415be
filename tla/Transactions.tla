---------------------------- MODULE Transactions ----------------------------
(***************************************************************************)
(* MTP transactions on one MTPSession: the operations of MTPOperations,    *)
(* the handshake of connect() and the CloseSession of disconnect(), cut    *)
(* into the containers they send and receive.  The session's mutex keeps   *)
(* operations apart; nothing compares transaction ids, so what a call      *)
(* reads is whatever is next in the bulk-in pipe.  Calls may time out, and *)
(* a transfer may be cut between its command and its response, by a        *)
(* cancel or by a file that does not open.  The process may end anywhere   *)
(* and be started again; the pipes and the device are then as they were.   *)
(* The payload is abstract, and so is the device's code when it refuses.   *)
(***************************************************************************)
EXTENDS Naturals, Sequences

CONSTANTS
  Nobody,     (* no holder of the session's mutex                            *)
  Offered,    (* bound: the operations threads may ask for                   *)
  Cuttable,   (* bound: the transfers that may be cut, one in a run          *)
  MaxCalls,   (* bound: operations started once the session is open          *)
  MaxFaults,  (* bound: bulk calls that fail or time out too early, and ends *)
              (* of the process                                              *)
  MaxRetries  (* bound: further attempts of a process to connect             *)

ASSUME BoundsAssumption ==
  /\ Nobody \notin {"monitor", "main", "worker"}
  /\ Offered \subseteq {"read", "get", "delete", "mkdir", "send", "close"}
  /\ Cuttable \subseteq {"get", "send"}
  /\ {MaxCalls, MaxFaults, MaxRetries} \subseteq Nat

Threads == {"monitor", "main", "worker"}

VARIABLES
  link,     (* "opening", "open", "failed", "closing", "gone", or "lost" if  *)
            (* the handle was not closed                                     *)
  up,       (* connected_                                                    *)
  tid,      (* transaction_id_; a new session counts on here, for the        *)
            (* history variables, where the code begins at 1 again           *)
  lock,     (* holder of mtx_                                                *)
  call,     (* the call each thread is in: [op, step, tid of its command]    *)
  out, in,  (* the bulk pipes: containers sent and not yet read              *)
  dev,      (* the transaction the device is in: [phase, code, tid]          *)
  granted,  (* tids of running calls the device answered with success        *)
  calls, faults, quits, retries,
  cut,      (* the transfer that was cut: "none", "get", "send", or "sent"   *)
            (* for an upload cut after its last chunk                        *)
  left,     (* history variable: how the last process that ended left the    *)
            (* device: "in step", "in data", or "answering"                  *)
  crossed,  (* history variable: CloseSession was sent beside another call   *)
  since,    (* history variable: a call has ended since the cut              *)
  mixed,    (* history variable: a call has read an answer to another one    *)
  lied      (* history variable: a call has returned normally whose last     *)
            (* command the device had not granted                            *)

pipes == <<out, in>>
session == <<link, up, tid, lock>>
restarts == <<quits, retries, left, crossed>>
counts == <<calls, faults, cut, restarts>>
device == <<dev, granted>>
vars == <<session, call, pipes, device, counts, since, mixed, lied>>

(* What each thread asks of the session: the monitor pings and lists, the page *)
(* lists, deletes and makes folders, the worker transfers.                     *)
CallsOf(t) ==
  CASE t = "monitor" -> {"read"}
    [] t = "main"    -> {"read", "delete", "mkdir"}
    [] t = "worker"  -> {"get", "send"}

(* The steps of every operation, in the code's order.  An operation code       *)
(* stands for send_command.  "GetDataset" is GetStorageIDs, GetStorageInfo,    *)
(* GetObjectHandles or GetObjectInfo; "SendObjectInfo" is also                 *)
(* SendObjectPropList, which send_object prefers.                              *)
MutOpensBeforeReading ==
  <<"GetDeviceInfo", "OpenSession", "receive_data", "receive_response", "receive_response">>

Handshake ==
  <<"GetDeviceInfo", "receive_data", "receive_response", "OpenSession", "receive_response">>
Disconnect == <<"CloseSession", "receive_response">>
ReadDataset == <<"GetDataset", "receive_data", "receive_response">>
GetObject == <<"GetObject", "receive_file", "receive_response">>
DeleteObject == <<"DeleteObject", "receive_response">>
CreateDirectory == <<"SendObjectInfo", "send_data", "receive_response">>

MutSkipsAnnounceResponse ==
  <<"SendObjectInfo", "send_data", "SendObject", "send_file", "receive_response">>

SendObject ==
  <<"SendObjectInfo", "send_data", "receive_response",
    "SendObject", "send_file", "receive_response">>

Script(c) ==
  CASE c = "open"   -> Handshake
    [] c = "close"  -> Disconnect
    [] c = "read"   -> ReadDataset
    [] c = "get"    -> GetObject
    [] c = "delete" -> DeleteObject
    [] c = "mkdir"  -> CreateDirectory
    [] c = "send"   -> SendObject

DataIn == {"GetDeviceInfo", "GetDataset", "GetObject"}
DataOut == {"SendObjectInfo", "SendObject"}
NoData == {"OpenSession", "CloseSession", "DeleteObject"}
Commands == DataIn \cup DataOut \cup NoData
Transfers == {"get", "send"}

Idle == [op |-> "none", step |-> 0, tid |-> 0]
Ready == [phase |-> "ready", code |-> "none", tid |-> 0]
Container(kind, code, id) == [kind |-> kind, code |-> code, tid |-> id]

Init ==
  /\ link = "opening" /\ up = TRUE
  /\ tid = 0
  /\ lock = Nobody
  /\ call = [t \in Threads |->
               IF t = "monitor" THEN [op |-> "open", step |-> 1, tid |-> 0] ELSE Idle]
  /\ out = <<>> /\ in = <<>>
  /\ dev = Ready
  /\ granted = {}
  /\ calls = 0 /\ faults = 0 /\ quits = 0 /\ retries = 0 /\ left = "in step" /\ crossed = FALSE
  /\ cut = "none" /\ since = FALSE
  /\ mixed = FALSE /\ lied = FALSE

------------------------------------------------------------------------------
(* The device.  It takes one container after another.  In a data-out phase it  *)
(* takes whatever comes for data, a whole data container or anything that ends *)
(* in a short packet ends the phase, and what is not whole it refuses.  A data *)
(* container it does not expect is dropped.                                    *)

Codes(c) == {"OK", "Error"} \cup (IF c \in {"GetObject", "SendObject"} THEN {"Cancelled"} ELSE {})

Answer(c, id, code, data) ==
  /\ in' = in \o data \o <<Container("response", code, id)>>
  /\ granted' = IF code = "Error" THEN granted ELSE granted \cup {id}
  /\ dev' = Ready

Serve(c) ==
  /\ c.kind = "command"
  /\ \/ /\ c.code \in DataOut
        /\ dev' = [phase |-> "receiving", code |-> c.code, tid |-> c.tid]
        /\ UNCHANGED <<in, granted>>
     \/ /\ c.code \in NoData
        /\ \E code \in Codes(c.code) : Answer(c.code, c.tid, code, <<>>)
     \/ /\ c.code \in DataIn
        /\ \/ Answer(c.code, c.tid, "Error", <<>>)
           \/ \E code \in Codes(c.code) :
                Answer(c.code, c.tid, code, <<Container("data", c.code, c.tid)>>)

Receive(c) ==
  \/ c.kind = "part" /\ UNCHANGED <<in, device>>
  \/ /\ c.kind = "data"
     /\ \E code \in Codes(dev.code) : Answer(dev.code, dev.tid, code, <<>>)
  \/ /\ c.kind = "command"
     /\ Answer(dev.code, dev.tid, "Error", <<>>)

Device ==
  /\ out # <<>>
  /\ out' = Tail(out)
  /\ IF dev.phase = "receiving"
       THEN Receive(Head(out))
       ELSE IF Head(out).kind = "command"
              THEN Serve(Head(out))
              ELSE UNCHANGED <<in, device>>
  /\ UNCHANGED <<session, call, counts, since, mixed, lied>>

------------------------------------------------------------------------------
(* How calls begin and end *)

Over == link \in {"gone", "lost"}

At(t, s) == /\ ~Over /\ call[t] # Idle
            /\ Script(call[t].op)[call[t].step] = s

MutCloseWithoutJoin == TRUE
(* on_device_disconnected destroys the engine, and waits for its worker,       *)
(* before it disconnects.                                                      *)
WorkerJoined == call["worker"] = Idle

(* A thread enters an operation; it locks mtx_ with its first command.         *)
Ask(t, op) ==
  /\ link = "open" /\ call[t] = Idle
  /\ op \in Offered \cap CallsOf(t)
  /\ calls < MaxCalls /\ calls' = calls + 1
  /\ call' = [call EXCEPT ![t] = [op |-> op, step |-> 1, tid |-> 0]]
  /\ UNCHANGED <<session, pipes, device, faults, cut, restarts, since, mixed, lied>>

(* disconnect(), by Reconnect or after a ping that failed, or by the           *)
(* destructor after a failed handshake.  device_mtx_ keeps the page's calls    *)
(* out, but not the monitor's ping.                                            *)
Close(t) ==
  /\ call[t] = Idle
  /\ \/ /\ link = "open" /\ t \in {"main", "monitor"} /\ "close" \in Offered
        /\ WorkerJoined /\ call["main"] = Idle
     \/ link = "failed" /\ t = "monitor"
  /\ IF up
       THEN /\ link' = "closing"
            /\ call' = [call EXCEPT ![t] = [op |-> "close", step |-> 1, tid |-> 0]]
       ELSE link' = "lost" /\ UNCHANGED call
  /\ up' = FALSE
  /\ crossed' = (crossed \/ \E u \in Threads : call[u] # Idle)
  /\ UNCHANGED <<tid, lock, pipes, device, calls, faults, cut, quits, retries, left, since,
                 mixed, lied>>

(* The call returns or throws; the lock_guard goes out of scope.               *)
End(t, ok) ==
  /\ call' = [call EXCEPT ![t] = Idle]
  /\ lock' = IF lock = t THEN Nobody ELSE lock
  /\ lied' = (lied \/ (ok /\ call[t].op # "close" /\ call[t].tid \notin granted))
  /\ granted' = {k \in granted : k > call[t].tid}
  /\ link' = CASE call[t].op = "open"  -> IF ok THEN "open" ELSE "failed"
               [] call[t].op = "close" -> "gone"
               [] OTHER -> link

Throw(t) == End(t, FALSE) /\ since' = (cut # "none")

Advance(t) ==
  IF call[t].step = Len(Script(call[t].op))
    THEN End(t, TRUE) /\ since' = (cut # "none")
    ELSE /\ call' = [call EXCEPT ![t].step = @ + 1]
         /\ UNCHANGED <<lock, link, granted, lied, since>>

------------------------------------------------------------------------------
(* The session's primitives *)

(* connect() and disconnect() send without the mutex. *)
Unlocked == {"open", "close"}

SendCommand(t) ==
  /\ \E c \in Commands :
       /\ At(t, c)
       /\ out' = Append(out, Container("command", c, tid + 1))
  /\ tid' = tid + 1
  /\ IF call[t].op \in Unlocked
       THEN UNCHANGED lock
       ELSE lock \in {Nobody, t} /\ lock' = t
  /\ call' = [call EXCEPT ![t].step = @ + 1, ![t].tid = tid + 1]
  /\ UNCHANGED <<link, up, in, device, counts, since, mixed, lied>>

(* send_data and a send_data_from_file that reaches its end *)
SendData(t) ==
  /\ At(t, "send_data") \/ At(t, "send_file")
  /\ out' = Append(out, Container("data", "none", tid))
  /\ Advance(t)
  /\ UNCHANGED <<up, tid, in, dev, counts, mixed>>

(* A read takes the container at the head of the pipe, and notes whose it is.  *)
(* The rest of a cut data phase looks like anything: a read may take a part of *)
(* it, all of it, or run into what follows.                                    *)
TakeIn(t) ==
  /\ in # <<>>
  /\ IF Head(in).kind = "rest"
       THEN \E k \in 1..(Len(in) + 1) : in' = SubSeq(in, k, Len(in))
       ELSE in' = Tail(in)
  /\ mixed' = (mixed \/ Head(in).tid # call[t].tid)

Is(kind) == in # <<>> /\ Head(in).kind = kind

(* A response in place of data is thrown, unless it says OK. *)
ReceiveData(t) ==
  /\ At(t, "receive_data")
  /\ TakeIn(t)
  /\ \/ (Is("data") \/ Is("rest")) /\ Advance(t)
     \/ Is("rest") /\ Throw(t)
     \/ Is("response") /\ IF Head(in).code = "OK" THEN Advance(t) ELSE Throw(t)
  /\ UNCHANGED <<up, tid, out, dev, counts>>

(* receive_data_to_file takes any container for data. *)
ReceiveFile(t) ==
  /\ At(t, "receive_file")
  /\ TakeIn(t)
  /\ Advance(t) \/ (Is("rest") /\ Throw(t))
  /\ UNCHANGED <<up, tid, out, dev, counts>>

(* The answer to the announcement of an upload has to be OK; that to the       *)
(* transfer may be that it was cancelled.                                      *)
AtItsLast(t) == call[t].step = Len(Script(call[t].op))

MutAcceptsAnyCode(t, code) == TRUE
Accepts(t, code) == \/ code = "OK"
                    \/ code = "Cancelled" /\ call[t].op \in Transfers /\ AtItsLast(t)
                    \/ call[t].op = "close"

(* A data container has an operation code where a response has its code; of a  *)
(* long one the read takes only the beginning.                                 *)
ReceiveResponse(t) ==
  /\ At(t, "receive_response")
  /\ \/ TakeIn(t)
     \/ /\ Is("data")
        /\ in' = <<Container("rest", "none", Head(in).tid)>> \o Tail(in)
        /\ mixed' = TRUE
  /\ \/ Is("response") /\ Accepts(t, Head(in).code) /\ Advance(t)
     \/ Is("response") /\ ~Accepts(t, Head(in).code) /\ Throw(t)
     \/ Is("data") /\ Throw(t)
     \/ Is("rest") /\ (Advance(t) \/ Throw(t))
  /\ UNCHANGED <<up, tid, out, dev, counts>>

Reading(t) == At(t, "receive_data") \/ At(t, "receive_file") \/ At(t, "receive_response")

(* A read when nothing is in the pipe and nothing will come times out. *)
MutWaitsForEver == FALSE
NothingComes == in = <<>> /\ out = <<>>

TimesOut(t) ==
  /\ Reading(t)
  /\ NothingComes
  /\ Throw(t)
  /\ UNCHANGED <<up, tid, pipes, dev, counts, mixed>>

(* A bulk call fails, or times out before the answer that still comes.  Some   *)
(* errors clear connected_.  Of a data container, packets may have gone out.   *)
(* A command that fails has used up its transaction id.                        *)
Fails(t) ==
  /\ faults + quits < MaxFaults /\ faults' = faults + 1
  /\ ~Over /\ call[t] # Idle
  /\ call[t].op \notin Unlocked => lock \in {Nobody, t}
  /\ up' \in {up, FALSE}
  /\ tid' = IF \E c \in Commands : At(t, c) THEN tid + 1 ELSE tid
  /\ \/ UNCHANGED out
     \/ /\ At(t, "send_data") \/ At(t, "send_file")
        /\ out' = Append(out, Container("part", "none", tid))
  /\ Throw(t)
  /\ UNCHANGED <<in, dev, calls, cut, restarts, mixed>>

(* A cancel between two chunks, or a local file that does not open once the    *)
(* command has been sent.                                                      *)
CutDownload(t) ==
  /\ At(t, "receive_file")
  /\ \/ UNCHANGED in
     \/ Is("data") /\ in' = <<Container("rest", "none", Head(in).tid)>> \o Tail(in)
  /\ cut' = "get"
  /\ UNCHANGED out

(* The check after a chunk comes after the last one too: then the device has   *)
(* the whole file, and nobody waits for its response.                          *)
CutUpload(t) ==
  /\ At(t, "send_file")
  /\ \/ cut' = "send" /\ UNCHANGED out
     \/ cut' = "send" /\ out' = Append(out, Container("part", "none", tid))
     \/ cut' = "sent" /\ out' = Append(out, Container("data", "none", tid))
  /\ UNCHANGED in

Cut(t) ==
  /\ cut = "none"
  /\ call[t].op \in Cuttable
  /\ CutDownload(t) \/ CutUpload(t)
  /\ End(t, FALSE)
  /\ UNCHANGED <<up, tid, dev, calls, faults, restarts, since, mixed>>

------------------------------------------------------------------------------
(* The process *)

(* "terminate:" exits inside ui.run(), so that shutdown() is not reached: the  *)
(* session is not closed, but the system takes the handle back.  What is left  *)
(* of a data phase stays with the device.                                      *)
Sending == \E t \in Threads : At(t, "send_data") \/ At(t, "send_file")

Quit ==
  /\ faults + quits < MaxFaults /\ quits' = quits + 1
  /\ retries' = 0
  /\ \/ UNCHANGED pipes
     \/ Sending /\ out' = Append(out, Container("part", "none", tid)) /\ UNCHANGED in
     \/ /\ Is("data")
        /\ in' = <<Container("rest", "none", Head(in).tid)>> \o Tail(in)
        /\ UNCHANGED out
  /\ left' = CASE in = <<>> /\ out = <<>> /\ dev = Ready                 -> "in step"
               [] in = <<>> /\ out = <<>> /\ dev.phase = "receiving"     -> "in data"
               [] OTHER                                                  -> "answering"
  /\ link' = "gone" /\ up' = FALSE /\ lock' = Nobody
  /\ call' = [t \in Threads |-> Idle]
  /\ UNCHANGED <<tid, device, calls, faults, cut, crossed, since, mixed, lied>>

(* The monitor of this process, or of the next one, connects again.  This is   *)
(* followed where no bulk call has failed, nothing was cut and no call or      *)
(* process left an answer behind, which would be taken for one to              *)
(* GetDeviceInfo.                                                              *)
Undisturbed == faults = 0 /\ cut = "none" /\ left # "answering" /\ ~crossed

Retry ==
  /\ link = "gone" /\ \A t \in Threads : call[t] = Idle
  /\ Undisturbed
  /\ retries < MaxRetries /\ retries' = retries + 1
  /\ link' = "opening" /\ up' = TRUE
  /\ call' = [call EXCEPT !["monitor"] = [op |-> "open", step |-> 1, tid |-> 0]]
  /\ UNCHANGED <<tid, lock, pipes, device, calls, faults, cut, quits, left, crossed, since,
                 mixed, lied>>

------------------------------------------------------------------------------
Goes(t) ==
  \/ SendCommand(t) \/ SendData(t) \/ ReceiveData(t) \/ ReceiveFile(t)
  \/ ReceiveResponse(t) \/ TimesOut(t)

Next ==
  \/ Device \/ Quit \/ Retry
  \/ \E t \in Threads :
       \/ \E op \in Offered : Ask(t, op)
       \/ Close(t) \/ Goes(t) \/ Fails(t) \/ Cut(t)

Spec == Init /\ [][Next]_vars

(* Threads run, the device answers, and the mutex, which a call waiting for it *)
(* finds free again and again, is given to it in the end.                      *)
FairSpec == Spec /\ WF_vars(Device) /\ \A t \in Threads : SF_vars(Goes(t))

------------------------------------------------------------------------------
(* Properties *)

(* The types of the session's variables; the mutex is held exactly by a call   *)
(* that has sent a command, and calls that bypass it do not hold it.           *)
TypeOK ==
  /\ link \in {"opening", "open", "failed", "closing", "gone", "lost"} /\ up \in BOOLEAN
  /\ tid \in Nat /\ lock \in Threads \cup {Nobody}
  /\ \A t \in Threads : call[t].step \in 0..6 /\ call[t].tid \in 0..tid
  /\ \A t \in Threads :
       lock = t <=> call[t].op \notin {"none", "open", "close"} /\ call[t].tid # 0
  /\ cut \in {"none", "get", "send", "sent"} /\ {since, crossed, mixed, lied} \subseteq BOOLEAN
  /\ \A k \in 1..Len(in) : in[k].kind \in {"data", "response", "rest"}
  /\ \A k \in 1..Len(out) : out[k].kind \in {"data", "command", "part"}
  /\ granted \subseteq 1..tid /\ left \in {"in step", "in data", "answering"}

AtRest == link = "open" /\ lock = Nobody
Clean == Undisturbed /\ link \in {"opening", "open"}

(* Host and device are between two transactions: no answer is left to read and *)
(* no command to answer.                                                       *)
InStep ==
  /\ in = <<>> /\ dev = Ready
  /\ \A k \in 1..Len(out) : out[k].kind = "data"

(* As long as nothing fails and no transfer is cut, every operation leaves     *)
(* host and device in step, the refused ones included, wherever in its         *)
(* sequence the device refuses; so it is in a process that follows another.    *)
OperationsStayInStep == Clean /\ AtRest => InStep

(* ... and whatever operation returns normally, the device has granted it.     *)
SuccessIsReal == Clean => ~lied

(* "SendObject - immediately follows, no gap for foreign commands"             *)
(* (MTPOperations.cpp:292): whatever fails, is cut or disconnects, the command *)
(* the device gets before SendObject is the announcement of the same upload.   *)
PairUnbroken ==
  [][\A t \in Threads : (At(t, "SendObject") /\ call'[t].tid > tid)
                           => call[t].tid = tid]_vars

(* An upload cut before its last chunk costs one operation: the device takes   *)
(* the next command for the rest of the data and refuses, and after that the   *)
(* two are in step again.                                                      *)
CutUploadHeals ==
  (AtRest /\ faults = 0 /\ quits = 0 /\ ~crossed /\ cut = "send" /\ since) => InStep

(* A process that ends between two operations or inside the data of an upload  *)
(* costs the next one at most an attempt to connect: the device takes the      *)
(* first command for the rest of the data, and when that attempt is over, the  *)
(* CloseSession of a session never opened answered, the two are in step.       *)
Tried == link = "gone" /\ retries > 0 /\ \A t \in Threads : call[t] = Idle
RestartHeals ==
  Undisturbed /\ Tried => InStep

(* Every operation ends, whatever was lost, cut or left in the pipe. *)
CallsEnd == \A t \in Threads : call[t] # Idle ~> (call[t] = Idle \/ Over)

(* "Receive the response container after a command" (MTPSession.hpp:76): what  *)
(* an operation reads is the answer to its own command, if no bulk call fails. *)
AnswerIsMine == (faults = 0 /\ quits = 0) => ~mixed
==============================================================================
