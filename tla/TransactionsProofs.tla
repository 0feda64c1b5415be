------------------------- MODULE TransactionsProofs -------------------------
(***************************************************************************)
(* Proofs about Transactions for any number of calls, faults, cuts, ends   *)
(* of the process and attempts to connect.  Who may use the session is     *)
(* shown for every behaviour; what is in the pipes at each step of a call  *)
(* where nothing fails and nothing is cut (Quiet), and where an upload was *)
(* cut before its last chunk and nothing else went wrong (Sliced).         *)
(***************************************************************************)
EXTENDS Transactions, SequenceTheorems, TLAPS

(* The operations of a session that is open. *)
Operations == {"read", "get", "delete", "mkdir", "send"}
(* The number of steps of an operation. *)
Length(op) ==
  CASE op = "none" -> 0
    [] op \in {"close", "delete"} -> 2
    [] op \in {"read", "get", "mkdir"} -> 3
    [] op = "open" -> 5
    [] op = "send" -> 6

(* The first command of a call. *)
FirstCommand(op) ==
  CASE op = "open"   -> "GetDeviceInfo"
    [] op = "close"  -> "CloseSession"
    [] op = "read"   -> "GetDataset"
    [] op = "get"    -> "GetObject"
    [] op = "delete" -> "DeleteObject"
    [] OTHER         -> "SendObjectInfo"

(* What stands in the code field of a container. *)
Codings == Commands \cup {"none", "OK", "Error", "Cancelled"}
(* What is in the bulk-in pipe, *)
InKinds == {"data", "response", "rest"}
(* and in the bulk-out pipe. *)
OutKinds == {"data", "command", "part"}
(* The containers of some kinds, with the ids used so far. *)
Containers(kinds, n) == [kind : kinds, code : Codings, tid : 1..n]

(* A call. *)
Records == [op : Operations \cup {"none", "open", "close"}, step : 0..6, tid : Nat]

(* Types of what holds one value, *)
Scalars ==
  /\ link \in {"opening", "open", "failed", "closing", "gone", "lost"}
  /\ tid \in Nat /\ faults \in Nat /\ lock \in Threads \cup {Nobody}
  /\ cut \in {"none", "get", "send", "sent"} /\ left \in {"in step", "in data", "answering"}

(* of the flags, *)
Flags ==
  /\ up \in BOOLEAN /\ crossed \in BOOLEAN
  /\ since \in BOOLEAN /\ mixed \in BOOLEAN /\ lied \in BOOLEAN

(* and of the pipes and the device. *)
Pipes ==
  /\ in \in Seq(Containers(InKinds, tid)) /\ out \in Seq(Containers(OutKinds, tid))
  /\ dev = Ready \/ dev \in [phase : {"receiving"}, code : DataOut, tid : 1..tid]
  /\ granted \subseteq 1..tid

(* A thread is in a call it may ask for, and has an id from its first command on. *)
Fitting(t) ==
  /\ call[t].op \in Operations => t = "worker" <=> call[t].op \in {"get", "send"}
  /\ call[t].op = "open" => t = "monitor"
  /\ call[t].op = "close" => t \in {"monitor", "main"}
  /\ call[t].tid \in 0..tid
  /\ call[t].step <= Length(call[t].op)
  /\ call[t].op = "none" <=> call[t].step = 0
  /\ call[t].tid = 0 <=> call[t].step \in {0, 1}

(* ... every one of them. *)
Calls == call \in [Threads -> Records] /\ \A t \in Threads : Fitting(t)

(* The mutex is held by the operation that has sent a command. *)
Locked ==
  \A t \in Threads : lock = t <=> call[t].op \in Operations /\ call[t].tid # 0

(* When the session is opened, given up or closed. *)
Alone ==
  /\ \A t \in Threads : call[t].op = "open" => link = "opening"
  /\ link = "opening" => /\ call["monitor"].op = "open"
                         /\ \A t \in Threads : t # "monitor" => call[t].op = "none"
  /\ link = "failed" => \A t \in Threads : call[t].op = "none"
  /\ \A t \in Threads : call[t].op = "close" =>
        /\ link = "closing"
        /\ \A u \in Threads : \/ u = t \/ call[u].op = "none"
                              \/ u = "monitor" /\ crossed /\ call[u].op # "close"
  /\ crossed => link \in {"closing", "gone", "lost"}
  /\ call["worker"].op # "none" => link = "open"

(* A call on the wire has the newest id, unless a CloseSession was sent beside it. *)
Latest ==
  ~crossed => \A t \in Threads : call[t].tid \in {0, tid}

(* Nothing has failed, nothing was cut, and no CloseSession crossed a call. *)
Quiet == faults = 0 /\ cut = "none" /\ ~crossed

(* Nothing is under way. *)
Settled == in = <<>> /\ out = <<>> /\ dev = Ready
(* A process ended inside a data phase: the device waits for more of it. *)
Interrupted ==
  /\ in = <<>> /\ dev.phase = "receiving"
  /\ out = <<>> \/ \E p \in Containers({"part"}, tid) : out = <<p>>

(* A command is on its way, *)
Pending(C) == in = <<>> /\ dev = Ready /\ \E c \in C : out = <<Container("command", c, tid)>>
(* answered, *)
Answered ==
  /\ out = <<>> /\ dev = Ready
  /\ \E r \in Containers({"response"}, tid) :
       /\ in = <<r>>
       /\ r.tid = tid /\ (r.code = "Error" \/ tid \in granted)
(* refused, *)
Refused ==
  /\ out = <<>> /\ dev = Ready
  /\ \E r \in Containers({"response"}, tid) : in = <<r>> /\ r.code = "Error"
(* or answered with data before the response. *)
WithData ==
  /\ out = <<>> /\ dev = Ready
  /\ \E d \in Containers({"data"}, tid), r \in Containers({"response"}, tid) :
       /\ in = <<d, r>>
       /\ r.tid = tid /\ (r.code = "Error" \/ tid \in granted)

(* The device takes the data of the newest command. *)
Taking == dev.phase = "receiving" /\ dev.tid = tid
(* The data of the newest command are on their way to the device. *)
DataBehind ==
  /\ in = <<>>
  /\ \E d \in Containers({"data"}, tid) :
      \/ Taking /\ out = <<d>>
      \/ dev = Ready /\ \E c \in DataOut : out = <<Container("command", c, tid), d>>

(* The device takes the first command of a new process for data, and refuses. *)
Rejecting ==
   /\ link = "opening"
   /\ \/ /\ in = <<>> /\ dev.phase = "receiving"
         /\ \E k \in Containers({"command"}, tid) :
              out = <<k>> \/ \E p \in Containers({"part"}, tid) : out = <<p, k>>
      \/ Refused

(* What is under way at each step of a call. *)
Exchange(t) ==
  LET op == call[t].op
      step == call[t].step
  IN
  /\ step = 4 => Settled
  /\ step = 2 /\ op = "open" => Pending(DataIn) \/ Refused \/ WithData \/ Rejecting
  /\ step = 2 /\ op \in {"read", "get"} => Pending(DataIn) \/ Refused \/ WithData
  /\ step = 3 /\ op \in {"open", "read"} => Answered
  /\ step = 3 /\ op = "get" => Answered \/ Settled
  /\ (step = 2 /\ op \in {"close", "delete"}) \/ (step = 5 /\ op = "open") =>
       Pending(NoData) \/ Answered
  /\ (step = 2 /\ op \in {"mkdir", "send"}) \/ (step = 5 /\ op = "send") =>
       Pending(DataOut) \/ (Taking /\ in = <<>> /\ out = <<>>)
  /\ (step = 3 /\ op \in {"mkdir", "send"}) \/ step = 6 => DataBehind \/ Answered

(* A process that left an answer behind is the last one. *)
Aside ==
  Quiet /\ left = "answering" => link = "gone" /\ \A t \in Threads : call[t].op = "none"

(* Undisturbed, the wire has what the call on it expects, *)
Paired == Undisturbed => \A t \in Threads : call[t].tid # 0 => Exchange(t)
(* and without such a call nothing, or the rest of what a process interrupted. *)
Between ==
  (Undisturbed /\ \A t \in Threads : call[t].tid = 0) =>
     \/ Settled
     \/ /\ Interrupted /\ left = "in data"
        /\ link \in {"gone", "opening"} /\ (link = "gone" => retries = 0)

(* Undisturbed, what returned normally was granted. *)
Truth == Quiet => ~lied

(* Who uses the session, in every behaviour, *)
Control == Calls /\ Locked /\ Alone /\ Latest /\ Aside
(* and what is on the wire where nothing disturbs. *)
Data == Pipes /\ Paired /\ Between /\ Truth
(* The inductive invariant. *)
IInv == Scalars /\ Flags /\ Control /\ Data

------------------------------------------------------------------------------
(* Calls *)

(* A thread whose call ends is idle. *)
LEMMA EndEffect ==
  ASSUME Calls, NEW t \in Threads, call' = [call EXCEPT ![t] = Idle]
  PROVE  /\ call' \in [Threads -> Records]
         /\ call'[t].op = "none" /\ call'[t].step = 0 /\ call'[t].tid = 0
         /\ \A u \in Threads : u # t => call'[u] = call[u]
  BY DEF Calls, Idle, Records

(* The step of a call is one of its script. *)
LEMMA CallTypes ==
  ASSUME Calls, NEW t \in Threads
  PROVE  /\ call[t] \in Records
         /\ call[t].op \in Operations \cup {"none", "open", "close"}
         /\ call[t].step \in 0..6 /\ call[t].tid \in Nat
         /\ Length(call[t].op) \in 0..6 /\ call[t].step <= Length(call[t].op)
<1>1. call[t] \in Records /\ Fitting(t)
  BY DEF Calls
<1>2. /\ call[t].op \in Operations \cup {"none", "open", "close"}
      /\ call[t].step \in 0..6 /\ call[t].tid \in Nat
  BY <1>1 DEF Records
<1>3. Length(call[t].op) \in 0..6
  BY <1>2 DEF Length, Operations
<1> QED
  BY <1>1, <1>2, <1>3 DEF Fitting

(* What a step changes. *)
LEMMA StepEffect ==
  ASSUME Calls, NEW t \in Threads, call[t].step < Length(call[t].op),
         call' = [call EXCEPT ![t].step = @ + 1]
  PROVE  /\ call' \in [Threads -> Records]
         /\ call'[t].op = call[t].op /\ call'[t].step = call[t].step + 1
         /\ call'[t].tid = call[t].tid
         /\ \A u \in Threads : u # t => call'[u] = call[u]
<1>1. call[t] \in Records /\ call[t].step + 1 \in 0..6
  BY CallTypes
<1>2. call'[t] = [call[t] EXCEPT !.step = @ + 1]
  BY DEF Calls
<1> QED
  BY <1>1, <1>2 DEF Calls, Records

(* The numbers among the scalars. *)
LEMMA Numbers == Scalars => tid \in Nat /\ faults \in Nat
  BY Zenon DEF Scalars

(* Ids used so far are ids used later. *)
LEMMA IntervalGrows ==
  ASSUME NEW m \in Nat, NEW n \in Nat, n >= m
  PROVE  \A x \in 0..m : x \in 0..n
  OBVIOUS

(* A record of an operation, a step and an id. *)
LEMMA RecordOf ==
  ASSUME NEW o \in Operations \cup {"none", "open", "close"}, NEW s \in 0..6, NEW n \in Nat
  PROVE  [op |-> o, step |-> s, tid |-> n] \in Records
  BY DEF Records

(* What a command changes. *)
LEMMA CommandEffect ==
  ASSUME Calls, NEW t \in Threads, call[t].step < Length(call[t].op), tid \in Nat,
         call' = [call EXCEPT ![t].step = @ + 1, ![t].tid = tid + 1]
  PROVE  /\ call' \in [Threads -> Records]
         /\ call'[t].op = call[t].op /\ call'[t].step = call[t].step + 1
         /\ call'[t].tid = tid + 1
         /\ \A u \in Threads : u # t => call'[u] = call[u]
<1>1. call[t] \in Records /\ call[t].step + 1 \in 0..6
  BY CallTypes
<1>2. call'[t] = [call[t] EXCEPT !.step = @ + 1, !.tid = tid + 1]
  BY DEF Calls
<1>3. call'[t] \in Records
  <2>1. call[t].op \in Operations \cup {"none", "open", "close"} /\ call[t].step + 1 \in 0..6
    BY CallTypes
  <2>2. call'[t] = [op |-> call[t].op, step |-> call[t].step + 1, tid |-> tid + 1]
    BY <1>1, <1>2 DEF Records
  <2>3. tid + 1 \in Nat
    OBVIOUS
  <2> QED
    BY <2>1, <2>2, <2>3, RecordOf
<1>4. call' = [u \in Threads |-> IF u = t THEN call'[t] ELSE call[u]]
  BY DEF Calls
<1>5. call' \in [Threads -> Records]
  <2> DEFINE new == call'[t]
  <2>1. new \in Records
    BY <1>3
  <2>2. call' = [u \in Threads |-> IF u = t THEN new ELSE call[u]]
    BY <1>4
  <2> HIDE DEF new
  <2> QED
    BY <2>1, <2>2 DEF Calls
<1> QED
  BY <1>1, <1>2, <1>5 DEF Records, Calls

(* Where a call is when it uses one of the session's primitives. *)
LEMMA Places ==
  ASSUME Calls, NEW t \in Threads
  PROVE  /\ \A c \in Commands :
              At(t, c) => \/ call[t].step = 1
                          \/ call[t].step = 4 /\ call[t].op \in {"open", "send"}
         /\ \A c \in Commands : At(t, c) /\ call[t].step = 1 =>
              c = FirstCommand(call[t].op)
         /\ \A c \in Commands : At(t, c) /\ call[t].step = 4 =>
              c = IF call[t].op = "open" THEN "OpenSession" ELSE "SendObject"
         /\ At(t, "receive_data") => call[t].op \in {"open", "read"} /\ call[t].step = 2
         /\ At(t, "receive_file") => call[t].op = "get" /\ call[t].step = 2
         /\ At(t, "send_data") => call[t].op \in {"mkdir", "send"} /\ call[t].step = 2
         /\ At(t, "send_file") => call[t].op = "send" /\ call[t].step = 5
         /\ At(t, "receive_response") =>
              \/ call[t].op \in {"open", "read", "get", "mkdir", "send"} /\ call[t].step = 3
              \/ call[t].op \in {"close", "delete"} /\ call[t].step = 2
              \/ call[t].op = "open" /\ call[t].step = 5
              \/ call[t].op = "send" /\ call[t].step = 6
         /\ \A s : At(t, s) => call[t].op # "none"
         /\ call[t].op # "none" => Len(Script(call[t].op)) = Length(call[t].op)
<1>0. call[t].op # "none" <=> call[t] # Idle
  BY DEF Calls, Fitting, Idle, Records
<1>1. call[t].op # "none" => Len(Script(call[t].op)) = Length(call[t].op)
  BY DEF Calls, Records, Operations, Length, Script, Handshake, Disconnect, ReadDataset,
     GetObject, DeleteObject, CreateDirectory, SendObject
<1>2. ASSUME NEW s, At(t, s)
      PROVE  /\ call[t].op # "none"
             /\ call[t].step \in 1..Length(call[t].op)
             /\ Script(call[t].op)[call[t].step] = s
  BY <1>2, <1>0 DEF At, Calls, Fitting, Records
<1> USE DEF Script, Handshake, Disconnect, ReadDataset, GetObject, DeleteObject,
     CreateDirectory, SendObject, Length, Commands, DataIn, DataOut, NoData
<1>3. call[t].op \in Operations \cup {"none", "open", "close"}
  BY DEF Calls, Records
<1>4. ASSUME NEW c \in Commands, At(t, c)
      PROVE call[t].step = 1 \/ (call[t].step = 4 /\ call[t].op \in {"open", "send"})
  BY <1>4, <1>2, <1>3 DEF Operations
<1>5. ASSUME NEW c \in Commands, At(t, c), call[t].step = 1
      PROVE c = FirstCommand(call[t].op)
  BY <1>5, <1>2, <1>3 DEF Operations, FirstCommand
<1>6. ASSUME NEW c \in Commands, At(t, c), call[t].step = 4
      PROVE c = IF call[t].op = "open" THEN "OpenSession" ELSE "SendObject"
  BY <1>6, <1>2, <1>3 DEF Operations
<1>7. /\ At(t, "receive_data") => call[t].op \in {"open", "read"} /\ call[t].step = 2
      /\ At(t, "receive_file") => call[t].op = "get" /\ call[t].step = 2
  BY <1>2, <1>3 DEF Operations
<1>8. /\ At(t, "send_data") => call[t].op \in {"mkdir", "send"} /\ call[t].step = 2
      /\ At(t, "send_file") => call[t].op = "send" /\ call[t].step = 5
  BY <1>2, <1>3 DEF Operations
<1>9. ASSUME At(t, "receive_response")
      PROVE  \/ call[t].op \in {"open", "read", "get", "mkdir", "send"} /\ call[t].step = 3
             \/ call[t].op \in {"close", "delete"} /\ call[t].step = 2
             \/ call[t].op = "open" /\ call[t].step = 5
             \/ call[t].op = "send" /\ call[t].step = 6
  <2>1. /\ Script(call[t].op)[call[t].step] = "receive_response"
        /\ call[t].step \in 1..Length(call[t].op)
    BY <1>2, <1>9
  <2>2. CASE call[t].op \in {"open", "send"}
    BY <2>1, <2>2
  <2>3. CASE call[t].op \in {"close", "delete"}
    BY <2>1, <2>3
  <2>4. CASE call[t].op \in {"read", "get", "mkdir"}
    BY <2>1, <2>4
  <2>5. call[t].op # "none"
    BY <1>2, <1>9
  <2> QED
    BY <2>5, <1>3, <2>2, <2>3, <2>4 DEF Operations
<1> QED
  BY <1>1, <1>2, <1>4, <1>5, <1>6, <1>7, <1>8, <1>9

(* Only one call is between its first command and its end. *)
LEMMA OneExchange ==
  ASSUME Calls, Locked, Alone, Latest, ~crossed, NEW t \in Threads, call[t].op # "none",
         call[t].op \in Operations => lock \in {Nobody, t}
  PROVE  \A u \in Threads : u # t => call[u].tid = 0
<1>1. \A u \in Threads : call[u].op \in Operations \cup {"none", "open", "close"}
  BY DEF Calls, Records
<1>2. \A u \in Threads : call[u].op = "none" => call[u].tid = 0
  BY DEF Calls, Fitting
<1>3. CASE call[t].op \in Operations
  <2> SUFFICES ASSUME NEW u \in Threads, u # t, call[u].tid # 0
               PROVE  FALSE
    OBVIOUS
  <2>1. call[u].op \in Operations => FALSE
    BY <1>3, BoundsAssumption DEF Locked, Threads
  <2>2. call[u].op = "open" => FALSE
    BY <1>3 DEF Alone, Calls, Fitting, Operations
  <2>3. call[u].op = "close" => FALSE
    BY <1>3 DEF Alone, Operations
  <2> QED
    BY <2>1, <2>2, <2>3, <1>1, <1>2
<1>4. CASE call[t].op = "open"
  BY <1>2, <1>4 DEF Alone, Calls, Fitting
<1>5. CASE call[t].op = "close"
  BY <1>2, <1>5 DEF Alone
<1> QED
  BY <1>1, <1>3, <1>4, <1>5

(* The end of a call. *)
LEMMA EndKeepsControl ==
  ASSUME Control, Scalars, NEW t \in Threads, call[t].op # "none",
         NEW ok \in BOOLEAN, End(t, ok),
         tid' \in Nat, tid' >= tid, crossed' = crossed, left' = left, Quiet' => Quiet,
         tid' = tid \/ (call[t].op \in Operations => lock \in {Nobody, t})
  PROVE  Control'
<1> USE BoundsAssumption DEF Control
<1>1. /\ call' \in [Threads -> Records]
      /\ call'[t].op = "none" /\ call'[t].step = 0 /\ call'[t].tid = 0
      /\ \A u \in Threads : u # t => call'[u] = call[u]
  BY EndEffect DEF End
<1>2. lock' = IF lock = t THEN Nobody ELSE lock
  BY DEF End
<1>3. /\ call[t].op = "open" => link' \in {"open", "failed"}
      /\ call[t].op = "close" => link' = "gone"
      /\ call[t].op \notin {"open", "close"} => link' = link
  BY DEF End
<1>4. Calls'
  <2>1. Fitting(t)'
    BY <1>1 DEF Fitting, Length, Operations
  <2>2. \A u \in Threads : u # t => Fitting(u)'
    <3> SUFFICES ASSUME NEW u \in Threads, u # t
                 PROVE  Fitting(u)'
      OBVIOUS
    <3>1. call'[u] = call[u] /\ Fitting(u)
      BY <1>1 DEF Calls
    <3>2. \A x \in 0..tid : x \in 0..tid'
      BY IntervalGrows, Numbers
    <3> QED
      BY <3>1, <3>2 DEF Fitting
  <2> QED
    BY <1>1, <2>1, <2>2 DEF Calls
<1>5. Locked'
  BY <1>1, <1>2 DEF Locked, Operations, Threads
<1>6. Alone'
  BY <1>1, <1>3 DEF Alone, Calls, Fitting, Operations, Threads
<1>7. Latest'
  <2>1. CASE tid' = tid
    BY <2>1, <1>1 DEF Latest
  <2>2. CASE call[t].op \in Operations => lock \in {Nobody, t}
    BY <2>2, <1>1, OneExchange DEF Latest
  <2> QED
    BY <2>1, <2>2
<1>8. Aside'
  BY <1>1 DEF Aside
<1> QED
  BY <1>4, <1>5, <1>6, <1>7, <1>8

(* A step within a call. *)
LEMMA StepKeepsControl ==
  ASSUME Control, Scalars, NEW t \in Threads, call[t].op # "none",
         call[t].step \in 2..(Length(call[t].op) - 1),
         call' = [call EXCEPT ![t].step = @ + 1],
         tid' = tid, crossed' = crossed, left' = left, Quiet' => Quiet,
         lock' = lock, link' = link
  PROVE  Control'
<1> USE BoundsAssumption DEF Control
<1>0. call[t].step < Length(call[t].op) /\ call[t].step \in Nat /\ Length(call[t].op) \in Nat
  BY CallTypes
<1>1. /\ call' \in [Threads -> Records]
      /\ call'[t].op = call[t].op /\ call'[t].step = call[t].step + 1
      /\ call'[t].tid = call[t].tid
      /\ \A u \in Threads : u # t => call'[u] = call[u]
  BY <1>0, StepEffect
<1>4. Calls'
  <2>1. Fitting(t)'
    BY <1>0, <1>1 DEF Calls, Fitting
  <2>2. \A u \in Threads : u # t => Fitting(u)'
    BY <1>1 DEF Calls, Fitting
  <2> QED
    BY <1>1, <2>1, <2>2 DEF Calls
<1>5. Locked'
  BY <1>1 DEF Locked
<1>6. Alone'
  BY <1>1 DEF Alone, Threads
<1>7. Latest'
  BY <1>1 DEF Latest
<1>8. Aside'
  BY <1>1 DEF Aside
<1> QED
  BY <1>4, <1>5, <1>6, <1>7, <1>8

(* either of them, *)
LEMMA AdvanceKeepsControl ==
  ASSUME Control, Scalars, NEW t \in Threads, call[t].op # "none", call[t].step >= 2,
         Advance(t), tid' = tid, crossed' = crossed, left' = left, Quiet' => Quiet
  PROVE  Control'
<1>1. Len(Script(call[t].op)) = Length(call[t].op)
  BY Places DEF Control
<1>2. CASE call[t].step = Length(call[t].op)
  <2>1. End(t, TRUE)
    BY <1>1, <1>2 DEF Advance
  <2>2. tid' \in Nat /\ tid' >= tid
    BY Numbers
  <2> QED
    BY <2>1, <2>2, EndKeepsControl
<1>3. CASE call[t].step # Length(call[t].op)
  <2>1. call[t].step \in 2..(Length(call[t].op) - 1)
    BY <1>3, CallTypes DEF Control
  <2> QED
    BY <1>1, <1>3, <2>1, StepKeepsControl DEF Advance
<1> QED
  BY <1>2, <1>3

(* What an Advance does. *)
LEMMA AdvanceEffect ==
  ASSUME Calls, NEW t \in Threads, call[t].op # "none", Advance(t)
  PROVE  /\ call' \in [Threads -> Records]
         /\ \A u \in Threads : u # t => call'[u] = call[u]
         /\ IF call[t].step = Length(call[t].op)
              THEN /\ End(t, TRUE)
                   /\ call'[t].op = "none" /\ call'[t].step = 0 /\ call'[t].tid = 0
              ELSE /\ call'[t].op = call[t].op /\ call'[t].step = call[t].step + 1
                   /\ call'[t].tid = call[t].tid
                   /\ UNCHANGED <<lock, link, granted, lied>>
<1>1. Len(Script(call[t].op)) = Length(call[t].op)
  BY Places
<1>2. CASE call[t].step = Length(call[t].op)
  BY <1>1, <1>2, EndEffect DEF Advance, End
<1>3. CASE call[t].step # Length(call[t].op)
  <2>1. call[t].step < Length(call[t].op)
    BY <1>3, CallTypes
  <2> QED
    BY <1>1, <1>3, <2>1, StepEffect DEF Advance
<1> QED
  BY <1>2, <1>3

(* a command, *)
LEMMA SendCommandKeepsControl ==
  ASSUME Control, Scalars, NEW t \in Threads, SendCommand(t)
  PROVE  Control'
<1> USE BoundsAssumption DEF Control
<1>0. PICK c \in Commands : At(t, c)
  BY DEF SendCommand
<1>1. call[t].op # "none" /\ call[t].step \in {1, 4} /\ call[t].step < Length(call[t].op)
  <2>1. /\ call[t].op # "none" /\ call[t].step \in {1, 4}
        /\ call[t].step = 4 => call[t].op \in {"open", "send"}
    BY <1>0, Places
  <2>2. call[t].op \in Operations \cup {"none", "open", "close"}
    BY CallTypes
  <2> QED
    BY <2>1, <2>2 DEF Length, Operations
<1>2. /\ call' \in [Threads -> Records]
      /\ call'[t].op = call[t].op /\ call'[t].step = call[t].step + 1 /\ call'[t].tid = tid + 1
      /\ \A u \in Threads : u # t => call'[u] = call[u]
  BY <1>1, CommandEffect, Numbers DEF SendCommand
<1>3. tid' = tid + 1 /\ link' = link /\ crossed' = crossed /\ left' = left /\ (Quiet' => Quiet)
  BY DEF SendCommand, counts, restarts, Quiet
<1>4. /\ call[t].op \in Operations => lock \in {Nobody, t} /\ lock' = t
      /\ call[t].op \notin Operations => lock' = lock
  BY <1>1, CallTypes DEF SendCommand, Unlocked, Operations
<1>5. Calls'
  <2>1. Fitting(t)'
    <3>1. call'[t].tid \in 0..tid' /\ call'[t].tid # 0
      BY <1>2, <1>3, Numbers
    <3>2. call'[t].step \notin {0, 1} /\ call'[t].step <= Length(call'[t].op)
      BY <1>1, <1>2, CallTypes
    <3> QED
      BY <1>1, <1>2, <3>1, <3>2 DEF Calls, Fitting
  <2>2. \A u \in Threads : u # t => Fitting(u)'
    <3> SUFFICES ASSUME NEW u \in Threads, u # t
                 PROVE  Fitting(u)'
      OBVIOUS
    <3>1. call'[u] = call[u] /\ Fitting(u)
      BY <1>2 DEF Calls
    <3>2. \A x \in 0..tid : x \in 0..tid'
      BY <1>3, IntervalGrows, Numbers
    <3> QED
      BY <3>1, <3>2 DEF Fitting
  <2> QED
    BY <1>2, <2>1, <2>2 DEF Calls
<1>6. Locked'
  <2>1. call'[t].tid # 0
    BY <1>2, Numbers
  <2>2. CASE call[t].op \in Operations
    BY <2>1, <2>2, <1>2, <1>4 DEF Locked, Threads
  <2>3. CASE call[t].op \notin Operations
    BY <2>1, <2>3, <1>2, <1>4 DEF Locked
  <2> QED
    BY <2>2, <2>3
<1>7. Alone'
  BY <1>2, <1>3 DEF Alone, Threads
<1>8. Latest'
  BY <1>1, <1>2, <1>3, <1>4, OneExchange DEF Latest
<1>9. Aside'
  BY <1>2, <1>3 DEF Aside
<1> QED
  BY <1>5, <1>6, <1>7, <1>8, <1>9

(* the beginning of a call, *)
LEMMA AskKeepsControl ==
  ASSUME Control, Scalars, NEW t \in Threads, NEW op \in Offered, Ask(t, op)
  PROVE  Control'
<1> USE BoundsAssumption DEF Control
<1>0. call[t].op = "none" /\ call[t].tid = 0 /\ link = "open"
  BY DEF Ask, Idle
<1>1. op \in Operations /\ (t = "worker" <=> op \in {"get", "send"})
  BY DEF Ask, CallsOf, Operations, Threads
<1>2. /\ call' \in [Threads -> Records]
      /\ call'[t].op = op /\ call'[t].step = 1 /\ call'[t].tid = 0
      /\ \A u \in Threads : u # t => call'[u] = call[u]
  BY <1>1 DEF Ask, Calls, Records
<1>3. /\ tid' = tid /\ link' = link /\ lock' = lock
      /\ crossed' = crossed /\ left' = left /\ (Quiet' => Quiet)
  BY DEF Ask, session, restarts, Quiet
<1>5. Calls'
  <2>1. Fitting(t)'
    <3>1. 0 \in 0..tid' /\ 1 <= Length(op)
      BY <1>1, <1>3, Numbers DEF Operations, Length
    <3> QED
      BY <1>1, <1>2, <3>1 DEF Fitting, Operations
  <2>2. \A u \in Threads : u # t => Fitting(u)'
    BY <1>2, <1>3 DEF Calls, Fitting
  <2> QED
    BY <1>2, <2>1, <2>2 DEF Calls
<1>6. Locked'
  BY <1>0, <1>2, <1>3 DEF Locked
<1>7. Alone'
  BY <1>0, <1>1, <1>2, <1>3 DEF Alone, Threads, Operations
<1>8. Latest'
  BY <1>2, <1>3 DEF Latest
<1>9. Aside'
  BY <1>0, <1>3 DEF Aside
<1> QED
  BY <1>5, <1>6, <1>7, <1>8, <1>9

(* of disconnect(), *)
LEMMA CloseKeepsControl ==
  ASSUME Control, Scalars, Flags, NEW t \in Threads, Close(t)
  PROVE  Control'
<1> USE BoundsAssumption DEF Control
<1>0. /\ call[t].op = "none" /\ call[t].tid = 0 /\ call[t].step = 0
      /\ link \in {"open", "failed"} /\ t \in {"main", "monitor"}
      /\ call["worker"].op = "none"
  BY DEF Close, Idle, WorkerJoined, Alone, Threads
<1>1. /\ tid' = tid /\ lock' = lock /\ left' = left
      /\ Quiet' => Quiet
      /\ link' \in {"closing", "lost"}
      /\ (crossed' <=> (crossed \/ \E u \in Threads : call[u] # Idle))
  BY DEF Close, Quiet
<1>2. /\ call' \in [Threads -> Records]
      /\ call'[t].tid = 0
      /\ \/ call'[t].op = "close" /\ call'[t].step = 1 /\ link' = "closing"
         \/ call'[t] = call[t] /\ link' = "lost"
      /\ \A u \in Threads : u # t => call'[u] = call[u]
  <2>1. CASE up
    BY <2>1, <1>0 DEF Close, Calls, Records
  <2>2. CASE ~up
    BY <2>2, <1>0 DEF Close, Calls
  <2> QED
    BY <2>1, <2>2
<1>3. \A u \in Threads : call[u].op # "none" => crossed'
  BY <1>1 DEF Idle
<1>4. \A u \in Threads : call[u].op \notin {"open", "close"}
  BY <1>0 DEF Alone
<1>40. "main" # t => call["main"].op = "none"
  BY <1>0 DEF Close, Idle, Alone, Threads
<1>5. Calls'
  <2>1. Fitting(t)'
    <3>1. 0 \in 0..tid' /\ 1 <= Length("close")
      BY <1>1, Numbers DEF Operations, Length
    <3>2. call'[t].op = "close" => Fitting(t)'
      BY <1>0, <1>2, <3>1 DEF Fitting, Operations
    <3>3. call'[t] = call[t] => Fitting(t)'
      BY <1>1 DEF Calls, Fitting
    <3> QED
      BY <1>2, <3>2, <3>3
  <2>2. \A u \in Threads : u # t => Fitting(u)'
    BY <1>1, <1>2 DEF Calls, Fitting
  <2> QED
    BY <1>2, <2>1, <2>2 DEF Calls
<1>6. Locked'
  BY <1>0, <1>1, <1>2 DEF Locked
<1>7. Alone'
  BY <1>0, <1>1, <1>2, <1>3, <1>4, <1>40 DEF Alone, Threads
<1>8. Latest'
  BY <1>1, <1>2 DEF Latest
<1>9. Aside'
  BY <1>0, <1>1 DEF Aside
<1> QED
  BY <1>5, <1>6, <1>7, <1>8, <1>9

(* of the next connect(), *)
LEMMA RetryKeepsControl ==
  ASSUME Control, Scalars, Retry
  PROVE  Control'
<1> USE BoundsAssumption DEF Control
<1>0. \A t \in Threads : call[t].op = "none" /\ call[t].tid = 0 /\ call[t].step = 0
  BY DEF Retry, Idle
<1>1. tid' = tid /\ lock' = lock /\ left' = left /\ link' = "opening" /\ left # "answering"
      /\ ~crossed /\ crossed' = crossed
  BY DEF Retry, Undisturbed
<1>2. /\ call' \in [Threads -> Records]
      /\ call'["monitor"].op = "open" /\ call'["monitor"].step = 1 /\ call'["monitor"].tid = 0
      /\ \A u \in Threads : u # "monitor" => call'[u] = call[u]
  BY DEF Retry, Calls, Records, Threads
<1>5. Calls'
  <2>1. Fitting("monitor")'
    <3>1. 0 \in 0..tid' /\ 1 <= Length("open")
      BY <1>1, Numbers DEF Operations, Length
    <3> QED
      BY <1>2, <3>1 DEF Fitting, Operations
  <2>2. \A u \in Threads : u # "monitor" => Fitting(u)'
    BY <1>1, <1>2 DEF Calls, Fitting
  <2> QED
    BY <1>2, <2>1, <2>2 DEF Calls
<1>6. Locked'
  BY <1>0, <1>1, <1>2 DEF Locked
<1>7. Alone'
  BY <1>0, <1>1, <1>2 DEF Alone, Threads
<1>8. Latest'
  BY <1>1, <1>2 DEF Latest
<1>9. Aside'
  BY <1>1 DEF Aside
<1> QED
  BY <1>5, <1>6, <1>7, <1>8, <1>9

(* and the end of the process leave the users of the session apart. *)
LEMMA QuitKeepsControl ==
  ASSUME Control, Scalars, Quit
  PROVE  Control'
<1> USE BoundsAssumption DEF Control
<1>1. tid' = tid /\ lock' = Nobody /\ link' = "gone" /\ crossed' = crossed
  BY DEF Quit
<1>2. /\ call' \in [Threads -> Records]
      /\ \A u \in Threads : call'[u].op = "none" /\ call'[u].step = 0 /\ call'[u].tid = 0
  <2>1. Idle \in Records /\ Idle.op = "none" /\ Idle.step = 0 /\ Idle.tid = 0
    BY RecordOf DEF Idle
  <2>2. call' = [u \in Threads |-> Idle]
    BY DEF Quit
  <2> QED
    BY <2>1, <2>2
<1>5. Calls'
  <2>1. 0 \in 0..tid' /\ Length("none") = 0
    BY <1>1, Numbers DEF Length
  <2> QED
    BY <1>2, <2>1 DEF Calls, Fitting, Operations
<1>6. Locked'
  BY <1>1, <1>2 DEF Locked, Threads
<1>7. Alone'
  BY <1>1, <1>2 DEF Alone, Threads
<1>8. Latest' /\ Aside'
  BY <1>1, <1>2 DEF Latest, Aside
<1> QED
  BY <1>5, <1>6, <1>7, <1>8

------------------------------------------------------------------------------
(* Pipes *)

(* A sequence of two. *)
LEMMA TwoOf ==
  ASSUME NEW x, NEW y, NEW s \in Seq({x, y}), Len(s) = 2, s[1] = x, s[2] = y
  PROVE  s = <<x, y>>
<1>1. <<x, y>> \in Seq({x, y}) /\ Len(<<x, y>>) = 2
  OBVIOUS
<1>2. \A i \in 1..Len(s) : s[i] = <<x, y>>[i]
  OBVIOUS
<1> QED
  BY <1>1, <1>2, SeqEqual

(* Pipes of one and of two containers. *)
LEMMA Short ==
  /\ \A x : <<x>> # <<>> /\ Head(<<x>>) = x /\ Tail(<<x>>) = <<>>
  /\ \A x, y : <<x, y>> # <<>> /\ Head(<<x, y>>) = x /\ Tail(<<x, y>>) = <<y>>
  /\ \A x : Append(<<>>, x) = <<x>>
  /\ \A x, y : Append(<<x>>, y) = <<x, y>>
  /\ \A x : <<>> \o <<>> \o <<x>> = <<x>>
  /\ \A x, y : <<>> \o <<x>> \o <<y>> = <<x, y>>
<1>1. \A x : <<x>> # <<>> /\ Head(<<x>>) = x /\ Tail(<<x>>) = <<>>
  OBVIOUS
<1>2. \A x, y : <<x, y>> # <<>> /\ Head(<<x, y>>) = x /\ Tail(<<x, y>>) = <<y>>
  OBVIOUS
<1>3. \A x : Append(<<>>, x) = <<x>>
  OBVIOUS
<1>4. \A x, y : Append(<<x>>, y) = <<x, y>>
  <2> TAKE x, y
  <2>1. Append(<<x>>, y) \in Seq({x, y}) /\ Len(Append(<<x>>, y)) = 2
    OBVIOUS
  <2>2. Append(<<x>>, y)[1] = x /\ Append(<<x>>, y)[2] = y
    OBVIOUS
  <2> QED
    BY <2>1, <2>2, TwoOf
<1>5. \A x : <<>> \o <<>> \o <<x>> = <<x>>
  OBVIOUS
<1>6. \A x, y : <<>> \o <<x>> \o <<y>> = <<x, y>>
  <2> TAKE x, y
  <2>1. <<>> \o <<x>> = <<x>>
    OBVIOUS
  <2>2. <<x>> \o <<y>> \in Seq({x, y}) /\ Len(<<x>> \o <<y>>) = 2
    OBVIOUS
  <2>3. (<<x>> \o <<y>>)[1] = x /\ (<<x>> \o <<y>>)[2] = y
    OBVIOUS
  <2> QED
    BY <2>1, <2>2, <2>3, TwoOf
<1> QED
  BY <1>1, <1>2, <1>3, <1>4, <1>5, <1>6

(* Operations on a pipe stay among its containers. *)
LEMMA Closed ==
  ASSUME NEW S, NEW q \in Seq(S)
  PROVE  /\ \A x \in S : /\ Append(q, x) \in Seq(S)
                         /\ <<x>> \o q \in Seq(S) /\ q \o <<x>> \in Seq(S)
         /\ \A x, y \in S : q \o <<x>> \o <<y>> \in Seq(S)
         /\ q \o <<>> = q
         /\ q # <<>> => Head(q) \in S /\ Tail(q) \in Seq(S)
         /\ \A k \in 1..(Len(q) + 1) : SubSeq(q, k, Len(q)) \in Seq(S)
<1>1. \A x \in S : <<x>> \in Seq(S)
  OBVIOUS
<1>2. \A p, r \in Seq(S) : p \o r \in Seq(S)
  OBVIOUS
<1>3. \A x \in S : Append(q, x) \in Seq(S)
  OBVIOUS
<1>4. q \o <<>> = q
  OBVIOUS
<1>5. q # <<>> => Head(q) \in S /\ Tail(q) \in Seq(S)
  OBVIOUS
<1>6. \A k \in 1..(Len(q) + 1) : SubSeq(q, k, Len(q)) \in Seq(S)
  OBVIOUS
<1> QED
  BY <1>1, <1>2, <1>3, <1>4, <1>5, <1>6, Zenon

(* A pipe of some containers is a pipe of more of them. *)
LEMMA Wider ==
  ASSUME NEW S, NEW T, S \subseteq T
  PROVE  Seq(S) \subseteq Seq(T)
  OBVIOUS

(* A container with an id used so far, *)
LEMMA ContainerIn ==
  ASSUME NEW n \in Nat, NEW kinds, NEW k \in kinds, NEW c \in Codings, NEW i \in 1..n
  PROVE  Container(k, c, i) \in Containers(kinds, n)
  BY DEF Container, Containers

(* which stays one. *)
LEMMA ContainersGrow ==
  ASSUME NEW m \in Nat, NEW n \in Nat, n >= m, NEW K, NEW L, K \subseteq L
  PROVE  Containers(K, m) \subseteq Containers(L, n)
  BY DEF Containers

------------------------------------------------------------------------------
(* The device *)

(* The device answers a call. *)
LEMMA AnswerEffect ==
  ASSUME tid \in Nat, in = <<>>, NEW c \in Codings, NEW id \in 1..tid,
         NEW code \in {"OK", "Error", "Cancelled"}, out' = <<>>, tid' = tid
  PROVE  /\ Answer(c, id, code, <<>>) => /\ code = "Error" => Refused'
                                         /\ id = tid => Answered'
         /\ Answer(c, id, code, <<Container("data", c, id)>>) /\ id = tid => WithData'
<1> DEFINE r == Container("response", code, id)
           d == Container("data", c, id)
<1>1. r \in Containers({"response"}, tid) /\ d \in Containers({"data"}, tid)
  BY ContainerIn DEF Codings
<1>2. r.code = code /\ r.tid = id
  BY DEF Container
<1>3. ASSUME Answer(c, id, code, <<>>)
      PROVE  /\ in' = <<r>> /\ dev' = Ready /\ (code = "Error" \/ id \in granted')
  <2>1. in' = <<>> \o <<>> \o <<r>>
    BY <1>3 DEF Answer
  <2> HIDE DEF r
  <2> QED
    BY <1>3, <2>1, Short DEF Answer
<1>4. ASSUME Answer(c, id, code, <<d>>)
      PROVE  /\ in' = <<d, r>> /\ dev' = Ready /\ (code = "Error" \/ id \in granted')
  <2>1. in' = <<>> \o <<d>> \o <<r>>
    BY <1>4 DEF Answer
  <2> HIDE DEF r, d
  <2> QED
    BY <1>4, <2>1, Short DEF Answer
<1> HIDE DEF r, d
<1>5. Answer(c, id, code, <<>>) /\ code = "Error" => Refused'
  BY <1>1, <1>2, <1>3 DEF Refused
<1>6. Answer(c, id, code, <<>>) /\ id = tid => Answered'
  BY <1>1, <1>2, <1>3 DEF Answered
<1>7. Answer(c, id, code, <<d>>) /\ id = tid => WithData'
  BY <1>1, <1>2, <1>4 DEF WithData
<1> QED
  BY <1>5, <1>6, <1>7 DEF d

(* The device takes a command, *)
LEMMA DeviceOnPending ==
  ASSUME tid \in Nat \ {0}, Device
  PROVE  /\ Pending(DataIn) => Refused' \/ WithData'
         /\ Pending(NoData) => Answered'
         /\ Pending(DataOut) => (Taking /\ in = <<>> /\ out = <<>>)'
<1>1. ASSUME NEW c \in Commands, in = <<>>, dev = Ready, out = <<Container("command", c, tid)>>
      PROVE  /\ c \in DataIn => Refused' \/ WithData'
             /\ c \in NoData => Answered'
             /\ c \in DataOut => (Taking /\ in = <<>> /\ out = <<>>)'
  <2> DEFINE k == Container("command", c, tid)
  <2>1. k.kind = "command" /\ k.code = c /\ k.tid = tid
    BY DEF Container
  <2>2. dev.phase # "receiving"
    BY <1>1 DEF Ready
  <2>3. out # <<>> /\ Head(out) = k /\ Tail(out) = <<>>
    <3>1. out = <<k>>
      BY <1>1
    <3> HIDE DEF k
    <3> QED
      BY <3>1
  <2>4. Serve(k) /\ out' = <<>> /\ tid' = tid
    BY <2>1, <2>2, <2>3 DEF Device, session
  <2>5. tid \in 1..tid /\ c \in Codings
    BY DEF Codings
  <2> HIDE DEF k
  <2>6. CASE c \in DataIn
    <3>1. c \notin DataOut /\ c \notin NoData
      BY <2>6 DEF DataIn, DataOut, NoData
    <3>2. \/ Answer(c, tid, "Error", <<>>)
          \/ \E code \in Codes(c) : Answer(c, tid, code, <<Container("data", c, tid)>>)
      BY <2>1, <2>4, <3>1 DEF Serve
    <3> QED
      BY <3>1, <3>2, <2>4, <2>5, <1>1, AnswerEffect DEF Codes
  <2>7. CASE c \in NoData
    <3>1. c \notin DataOut /\ c \notin DataIn
      BY <2>7 DEF DataIn, DataOut, NoData
    <3>2. \E code \in Codes(c) : Answer(c, tid, code, <<>>)
      BY <2>1, <2>4, <3>1 DEF Serve
    <3> QED
      BY <3>1, <3>2, <2>4, <2>5, <1>1, AnswerEffect DEF Codes
  <2>8. CASE c \in DataOut
    <3>1. c \notin NoData /\ c \notin DataIn
      BY <2>8 DEF DataIn, DataOut, NoData
    <3>2. dev' = [phase |-> "receiving", code |-> c, tid |-> tid] /\ in' = in
      BY <2>1, <2>4, <3>1 DEF Serve
    <3> QED
      BY <3>1, <3>2, <2>4, <1>1 DEF Taking
  <2> QED
    BY <2>6, <2>7, <2>8 DEF Commands
<1> QED
  BY <1>1 DEF Pending, Commands

(* the data that follow one, *)
LEMMA DeviceOnData ==
  ASSUME tid \in Nat \ {0}, Pipes, Device
  PROVE  DataBehind => DataBehind' \/ Answered'
<1> SUFFICES ASSUME DataBehind
             PROVE  DataBehind' \/ Answered'
  OBVIOUS
<1>1. PICK d \in Containers({"data"}, tid) :
        \/ Taking /\ out = <<d>>
        \/ dev = Ready /\ \E c \in DataOut : out = <<Container("command", c, tid), d>>
  BY DEF DataBehind
<1>2. d.kind = "data" /\ tid' = tid /\ in = <<>>
  BY DEF Containers, Device, session, DataBehind
<1>3. CASE Taking /\ out = <<d>>
  <2>1. out # <<>> /\ Head(out) = d /\ Tail(out) = <<>>
    BY <1>3
  <2>2. dev.code \in DataOut /\ dev.tid = tid /\ dev.phase = "receiving"
    BY <1>3 DEF Taking, Pipes, Ready
  <2>3. Receive(d) /\ out' = <<>>
    BY <2>1, <2>2 DEF Device
  <2>4. \E code \in Codes(dev.code) : Answer(dev.code, tid, code, <<>>)
    BY <2>2, <2>3, <1>2 DEF Receive
  <2>5. dev.code \in Codings /\ tid \in 1..tid
    BY <2>2 DEF Codings, Commands
  <2> QED
    BY <2>3, <2>4, <2>5, <1>2, AnswerEffect DEF Codes
<1>4. CASE dev = Ready /\ \E c \in DataOut : out = <<Container("command", c, tid), d>>
  <2>1. PICK c \in DataOut : out = <<Container("command", c, tid), d>>
    BY <1>4
  <2> DEFINE k == Container("command", c, tid)
  <2>2. k.kind = "command" /\ k.code = c /\ k.tid = tid
    BY DEF Container
  <2>3. out # <<>> /\ Head(out) = k /\ Tail(out) = <<d>>
    <3>1. out = <<k, d>>
      BY <2>1
    <3> HIDE DEF k
    <3> QED
      BY <3>1, Short
  <2>4. dev.phase # "receiving"
    BY <1>4 DEF Ready
  <2>5. Serve(k) /\ out' = <<d>>
    BY <2>2, <2>3, <2>4 DEF Device
  <2>6. c \notin NoData /\ c \notin DataIn
    BY DEF DataIn, DataOut, NoData
  <2>7. dev' = [phase |-> "receiving", code |-> c, tid |-> tid] /\ in' = in
    BY <2>2, <2>5, <2>6 DEF Serve
  <2>8. Taking'
    BY <2>7, <1>2 DEF Taking
  <2> QED
    BY <2>5, <2>7, <2>8, <1>2 DEF DataBehind
<1> QED
  BY <1>1, <1>3, <1>4

(* and what comes in place of the data a process did not send. *)
LEMMA DeviceOnRest ==
  ASSUME tid \in Nat, Pipes, Device
  PROVE  /\ Rejecting => Rejecting'
         /\ Interrupted => Interrupted'
<1>0. tid' = tid /\ link' = link /\ out # <<>> /\ out' = Tail(out)
  BY DEF Device, session
<1>1. ASSUME dev.phase = "receiving", in = <<>>,
             NEW p \in Containers({"part"}, tid), out = <<p>>
      PROVE  in' = <<>> /\ out' = <<>> /\ dev'.phase = "receiving"
  <2>1. Head(out) = p /\ Tail(out) = <<>> /\ p.kind = "part"
    BY <1>1 DEF Containers
  <2> QED
    BY <1>0, <1>1, <2>1 DEF Device, Receive, device
<1>2. ASSUME dev.phase = "receiving", in = <<>>, NEW p \in Containers({"part"}, tid),
             NEW k \in Containers({"command"}, tid), out = <<p, k>>
      PROVE  in' = <<>> /\ out' = <<k>> /\ dev'.phase = "receiving"
  <2>1. Head(out) = p /\ Tail(out) = <<k>> /\ p.kind = "part"
    BY <1>2, Short DEF Containers
  <2> QED
    BY <1>0, <1>2, <2>1 DEF Device, Receive, device
<1>3. ASSUME dev.phase = "receiving", in = <<>>,
             NEW k \in Containers({"command"}, tid), out = <<k>>
      PROVE  Refused'
  <2>1. Head(out) = k /\ Tail(out) = <<>> /\ k.kind = "command"
    BY <1>3 DEF Containers
  <2>2. dev.code \in Codings /\ dev.tid \in 1..tid
    BY <1>3 DEF Pipes, Ready, Codings, Commands
  <2>3. Answer(dev.code, dev.tid, "Error", <<>>) /\ out' = <<>>
    BY <1>0, <1>3, <2>1 DEF Device, Receive
  <2> QED
    BY <2>2, <2>3, <1>0, <1>3, AnswerEffect
<1>4. Interrupted => Interrupted'
  BY <1>0, <1>1 DEF Interrupted
<1>5. Rejecting => Rejecting'
  <2>1. ~Refused
    BY <1>0 DEF Refused
  <2> QED
    BY <1>0, <1>2, <1>3, <2>1 DEF Rejecting
<1> QED
  BY <1>4, <1>5

(* The pipes keep their types whatever the device does. *)
LEMMA DeviceKeepsPipes ==
  ASSUME tid \in Nat, Pipes, Device
  PROVE  Pipes'
<1> DEFINE C == Containers(InKinds, tid)
<1>0. tid' = tid /\ out # <<>> /\ out' = Tail(out)
  BY DEF Device, session
<1>1. out' \in Seq(Containers(OutKinds, tid)) /\ Head(out) \in Containers(OutKinds, tid)
  BY <1>0, Closed DEF Pipes
<1>2. Head(out).tid \in 1..tid /\ Head(out).code \in Codings
  BY <1>1 DEF Containers
<1>3. ASSUME NEW c \in Codings, NEW id \in 1..tid, NEW code \in {"OK", "Error", "Cancelled"},
             \/ Answer(c, id, code, <<>>)
             \/ Answer(c, id, code, <<Container("data", c, id)>>)
      PROVE  in' \in Seq(C) /\ dev' = Ready /\ granted' \subseteq 1..tid
  <2> DEFINE r == Container("response", code, id)
             d == Container("data", c, id)
  <2>1. r \in C /\ d \in C
    BY ContainerIn DEF Codings, InKinds
  <2>2. dev' = Ready /\ granted' \subseteq 1..tid
    BY <1>3 DEF Answer, Pipes
  <2>3. in' = in \o <<>> \o <<r>> \/ in' = in \o <<d>> \o <<r>>
    BY <1>3 DEF Answer
  <2> HIDE DEF r, d
  <2>4. in' \in Seq(C)
    <3> HIDE DEF C
    <3>1. in \in Seq(C)
      BY DEF Pipes, C
    <3> QED
      BY <2>1, <2>3, <3>1, Closed
  <2> QED
    BY <2>2, <2>4
<1>4. CASE dev.phase = "receiving"
  <2>1. dev.code \in DataOut /\ dev.code \in Codings /\ dev.tid \in 1..tid
    BY <1>4 DEF Pipes, Ready, Codings, Commands
  <2>2. \/ UNCHANGED <<in, device>>
        \/ \E code \in Codes(dev.code) : Answer(dev.code, dev.tid, code, <<>>)
        \/ Answer(dev.code, dev.tid, "Error", <<>>)
    BY <1>4 DEF Device, Receive
  <2>3. CASE UNCHANGED <<in, device>>
    BY <2>3, <1>0, <1>1 DEF Pipes, device
  <2>4. CASE \E code \in {"OK", "Error", "Cancelled"} : Answer(dev.code, dev.tid, code, <<>>)
    BY <2>1, <2>4, <1>0, <1>1, <1>3 DEF Pipes
  <2> QED
    BY <2>2, <2>3, <2>4 DEF Codes
<1>5. CASE dev.phase # "receiving"
  <2>1. CASE UNCHANGED <<in, device>>
    BY <2>1, <1>0, <1>1 DEF Pipes, device
  <2>2. CASE Serve(Head(out)) /\ ~UNCHANGED <<in, device>>
    <3>1. CASE /\ Head(out).code \in DataOut
               /\ dev' = [phase |-> "receiving",
                          code |-> Head(out).code, tid |-> Head(out).tid]
               /\ UNCHANGED <<in, granted>>
      BY <3>1, <1>0, <1>1, <1>2 DEF Pipes
    <3>2. CASE \E code \in {"OK", "Error", "Cancelled"} :
                 \/ Answer(Head(out).code, Head(out).tid, code, <<>>)
                 \/ Answer(Head(out).code, Head(out).tid, code,
                           <<Container("data", Head(out).code, Head(out).tid)>>)
      BY <3>2, <1>0, <1>1, <1>2, <1>3 DEF Pipes
    <3> QED
      BY <2>2, <3>1, <3>2 DEF Serve, Codes
  <2> QED
    BY <1>5, <2>1, <2>2 DEF Device
<1> QED
  BY <1>4, <1>5

(* What the other conjuncts say of a step after which t alone is on the wire. *)
LEMMA HandOver ==
  ASSUME NEW t \in Threads, \A u \in Threads : u # t => call'[u].tid = 0,
         Undisturbed' => IF call'[t].tid = 0 THEN Settled' ELSE Exchange(t)'
  PROVE  Paired' /\ Between'
<1>1. Paired'
  BY DEF Paired
<1>2. Between'
  BY DEF Between
<1> QED
  BY <1>1, <1>2

(* The call on the wire has the newest id, and is alone. *)
LEMMA OnTheWire ==
  ASSUME Control, Scalars, ~crossed, NEW t \in Threads, call[t].tid # 0
  PROVE  call[t].tid = tid /\ tid \in Nat \ {0} /\ \A u \in Threads : u # t => call[u].tid = 0
<1>1. call[t].op # "none" /\ (call[t].op \in Operations => lock = t)
  BY DEF Control, Calls, Fitting, Locked
<1>2. \A u \in Threads : u # t => call[u].tid = 0
  BY <1>1, OneExchange DEF Control
<1>3. call[t].tid = tid
  BY DEF Control, Latest
<1> QED
  BY <1>2, <1>3, Numbers

(* What the device does is what the call on the wire expects. *)
LEMMA DeviceOnExchange ==
  ASSUME tid \in Nat \ {0}, Pipes, Device, NEW t \in Threads, Exchange(t)
  PROVE  Exchange(t)'
<1>1. call' = call /\ out # <<>>
  BY DEF Device
<1>2. /\ Pending(DataIn) => Refused' \/ WithData'
      /\ Pending(NoData) => Answered'
      /\ Pending(DataOut) => (Taking /\ in = <<>> /\ out = <<>>)'
      /\ DataBehind => DataBehind' \/ Answered'
      /\ Rejecting => Rejecting'
  BY DeviceOnPending, DeviceOnData, DeviceOnRest
<1>3. ~Settled /\ ~Answered /\ ~Refused /\ ~WithData
  BY <1>1 DEF Settled, Answered, Refused, WithData
<1> QED
  BY <1>1, <1>2, <1>3 DEF Exchange

(* The device's steps keep the invariant. *)
LEMMA DeviceStep ==
  ASSUME IInv, Device
  PROVE  IInv'
<1>1. /\ UNCHANGED <<link, up, tid, lock, call, calls, faults, cut, quits, retries, left,
                     crossed, since, mixed, lied>>
      /\ out # <<>>
  BY DEF Device, session, counts, restarts
<1>2. Scalars' /\ Flags'
  BY <1>1 DEF IInv, Scalars, Flags
<1>3. Control'
  BY <1>1 DEF IInv, Control, Calls, Fitting, Locked, Alone, Latest, Aside, Quiet
<1>4. Pipes' /\ Truth'
  BY <1>1, DeviceKeepsPipes, Numbers DEF IInv, Data, Truth, Quiet
<1>5. Paired' /\ Between'
  <2> SUFFICES ASSUME Undisturbed
               PROVE  Paired' /\ Between'
    BY <1>1 DEF Paired, Between, Undisturbed
  <2>1. CASE \A t \in Threads : call[t].tid = 0
    <3>1. Interrupted /\ left = "in data" /\ link \in {"gone", "opening"}
             /\ (link = "gone" => retries = 0)
      BY <2>1, <1>1 DEF IInv, Data, Between, Settled
    <3>2. Interrupted'
      BY <3>1, DeviceOnRest, Numbers DEF IInv, Data
    <3> QED
      BY <2>1, <3>1, <3>2, <1>1 DEF Paired, Between
  <2>2. CASE \E t \in Threads : call[t].tid # 0
    <3>1. PICK t \in Threads : call[t].tid # 0
      BY <2>2
    <3>2. tid \in Nat \ {0} /\ \A u \in Threads : u # t => call[u].tid = 0
      BY <3>1, OnTheWire DEF IInv, Undisturbed
    <3>3. Exchange(t)
      BY <3>1 DEF IInv, Data, Paired
    <3>4. Exchange(t)'
      BY <3>2, <3>3, DeviceOnExchange DEF IInv, Data
    <3> QED
      BY <3>1, <3>2, <3>4, <1>1, HandOver
  <2> QED
    BY <2>1, <2>2
<1> QED
  BY <1>2, <1>3, <1>4, <1>5 DEF IInv, Data
------------------------------------------------------------------------------
(* Commands *)

(* A command on an idle wire, and one behind what a process left of an upload. *)
LEMMA CommandOnWire ==
  ASSUME Pipes, tid \in Nat, tid' = tid + 1, in' = in, dev' = dev, link' = link,
         NEW c \in Commands, out' = Append(out, Container("command", c, tid'))
  PROVE  /\ Settled => /\ c \in DataIn => Pending(DataIn)'
                       /\ c \in NoData => Pending(NoData)'
                       /\ c \in DataOut => Pending(DataOut)'
         /\ Interrupted /\ link = "opening" => Rejecting'
<1> DEFINE k == Container("command", c, tid')
<1>1. k \in Containers({"command"}, tid')
  <2>1. tid' \in 1..tid' /\ c \in Codings /\ tid' \in Nat
    BY DEF Codings
  <2> QED
    BY <2>1, ContainerIn
<1>2. Containers({"part"}, tid) \subseteq Containers({"part"}, tid')
  BY ContainersGrow
<1>3. out' = Append(out, k)
  OBVIOUS
<1>4. Settled => out' = <<Container("command", c, tid')>> /\ in' = <<>> /\ dev' = Ready
  <2>1. Settled => out' = <<k>> /\ in' = <<>> /\ dev' = Ready
    <3> HIDE DEF k
    <3> QED
      BY <1>3, Short DEF Settled
  <2> QED
    BY <2>1
<1>5. Interrupted /\ link = "opening" => Rejecting'
  <2> HIDE DEF k
  <2> SUFFICES ASSUME Interrupted, link = "opening"
               PROVE  Rejecting'
    OBVIOUS
  <2>1. out' = <<k>> \/ \E p \in Containers({"part"}, tid') : out' = <<p, k>>
    <3>1. CASE out = <<>>
      BY <3>1, <1>3, Short
    <3>2. CASE \E p \in Containers({"part"}, tid) : out = <<p>>
      <4>1. PICK p \in Containers({"part"}, tid) : out = <<p>>
        BY <3>2
      <4>2. out' = <<p, k>>
        BY <4>1, <1>3, Short
      <4> QED
        BY <4>2, <1>2
    <3> QED
      BY <3>1, <3>2 DEF Interrupted
  <2> QED
    BY <1>1, <2>1 DEF Interrupted, Rejecting
<1>6. Settled /\ c \in DataIn => Pending(DataIn)'
  BY <1>4 DEF Pending
<1>7. Settled /\ c \in NoData => Pending(NoData)'
  BY <1>4 DEF Pending
<1>8. Settled /\ c \in DataOut => Pending(DataOut)'
  BY <1>4 DEF Pending
<1> QED
  BY <1>5, <1>6, <1>7, <1>8

(* The pipes keep their types when ids grow. *)
LEMMA PipesGrow ==
  ASSUME Pipes, tid \in Nat, tid' \in Nat, tid' >= tid
  PROVE  /\ in \in Seq(Containers(InKinds, tid')) /\ out \in Seq(Containers(OutKinds, tid'))
         /\ dev = Ready \/ dev \in [phase : {"receiving"}, code : DataOut, tid : 1..tid']
         /\ granted \subseteq 1..tid'
<1>1. /\ Containers(InKinds, tid) \subseteq Containers(InKinds, tid')
      /\ Containers(OutKinds, tid) \subseteq Containers(OutKinds, tid')
  BY ContainersGrow
<1>2. in \in Seq(Containers(InKinds, tid')) /\ out \in Seq(Containers(OutKinds, tid'))
  BY <1>1, Wider DEF Pipes
<1>3. \A x \in 1..tid : x \in 1..tid'
  OBVIOUS
<1>4. granted \subseteq 1..tid'
  BY <1>3 DEF Pipes
<1>5. dev = Ready \/ dev \in [phase : {"receiving"}, code : DataOut, tid : 1..tid']
  BY <1>3 DEF Pipes
<1> QED
  BY <1>2, <1>4, <1>5

(* Where a call is that sends a command, and what is then on record. *)
LEMMA CommandStarts ==
  ASSUME Scalars, Control, NEW t \in Threads, SendCommand(t)
  PROVE  /\ call[t].op \in Operations \cup {"open", "close"} /\ call[t].step \in {1, 4}
         /\ call[t].step = 4 => call[t].op \in {"open", "send"}
         /\ tid' = tid + 1
         /\ call'[t].op = call[t].op /\ call'[t].step = call[t].step + 1
         /\ call'[t].tid = tid' /\ call'[t].tid # 0
         /\ \A u \in Threads : u # t => call'[u] = call[u]
<1>0. tid \in Nat /\ tid' = tid + 1
  BY Numbers DEF SendCommand
<1>1. PICK c \in Commands : At(t, c)
  BY DEF SendCommand
<1>2. /\ call[t].op # "none" /\ call[t].step \in {1, 4}
      /\ call[t].step = 4 => call[t].op \in {"open", "send"}
  BY <1>1, Places DEF Control
<1>3. call[t].op \in Operations \cup {"none", "open", "close"}
  BY CallTypes DEF Control
<1>4. call[t].step < Length(call[t].op)
  BY <1>2, <1>3 DEF Length, Operations
<1>5. /\ call'[t].op = call[t].op /\ call'[t].step = call[t].step + 1 /\ call'[t].tid = tid'
      /\ \A u \in Threads : u # t => call'[u] = call[u]
  BY <1>0, <1>4, CommandEffect DEF SendCommand, Control
<1> QED
  BY <1>0, <1>2, <1>3, <1>5

(* A command is sent where no other call is on the wire. *)
LEMMA CommandAlone ==
  ASSUME Scalars, Control, ~crossed, NEW t \in Threads, SendCommand(t)
  PROVE  \A u \in Threads : u # t => call[u].tid = 0
<1>1. call[t].op \in Operations \cup {"open", "close"}
  BY CommandStarts
<1>2. call[t].op # "none" /\ (call[t].op \in Operations => lock \in {Nobody, t})
  BY <1>1 DEF SendCommand, Unlocked, Operations
<1> QED
  BY <1>2, OneExchange DEF Control

(* A command on an idle wire is one the call's next step expects. *)
LEMMA CommandOnSettled ==
  ASSUME Scalars, Control, Pipes, NEW t \in Threads, SendCommand(t), Settled
  PROVE  Exchange(t)'
<1>0. /\ tid \in Nat /\ tid' = tid + 1
      /\ UNCHANGED <<in, dev, link>>
  BY Numbers DEF SendCommand, device
<1>1. PICK c \in Commands : At(t, c) /\ out' = Append(out, Container("command", c, tid'))
  BY <1>0 DEF SendCommand
<1>2. /\ call[t].op \in Operations \cup {"open", "close"} /\ call[t].step \in {1, 4}
      /\ call[t].step = 4 => call[t].op \in {"open", "send"}
      /\ call'[t].op = call[t].op /\ call'[t].step = call[t].step + 1
  BY CommandStarts
<1>3. /\ c \in DataIn => Pending(DataIn)'
      /\ c \in NoData => Pending(NoData)'
      /\ c \in DataOut => Pending(DataOut)'
  BY <1>0, <1>1, CommandOnWire
<1>4. CASE call[t].step = 1
  <2>1. c = FirstCommand(call[t].op)
    BY <1>1, <1>4, Places DEF Control
  <2>2. /\ call[t].op \in {"open", "read", "get"} => Pending(DataIn)'
        /\ call[t].op \in {"close", "delete"} => Pending(NoData)'
        /\ call[t].op \in {"mkdir", "send"} => Pending(DataOut)'
    BY <1>3, <2>1 DEF DataIn, DataOut, NoData, FirstCommand
  <2>3. call'[t].step = 2
    BY <1>2, <1>4
  <2> QED
    BY <1>2, <2>2, <2>3 DEF Exchange
<1>5. CASE call[t].step = 4
  <2>1. c = IF call[t].op = "open" THEN "OpenSession" ELSE "SendObject"
    BY <1>1, <1>5, Places DEF Control
  <2>2. /\ call[t].op = "open" => Pending(NoData)'
        /\ call[t].op = "send" => Pending(DataOut)'
    BY <1>3, <2>1 DEF DataOut, NoData
  <2>3. call'[t].step = 5
    BY <1>2, <1>5
  <2> QED
    BY <1>2, <1>5, <2>2, <2>3 DEF Exchange
<1> QED
  BY <1>2, <1>4, <1>5

(* Commands keep the invariant. *)
LEMMA SendCommandStep ==
  ASSUME IInv, NEW t \in Threads, SendCommand(t)
  PROVE  IInv'
<1>0. tid \in Nat /\ tid' = tid + 1 /\ tid' \in Nat
  BY Numbers DEF IInv, SendCommand
<1>1. /\ UNCHANGED <<link, up, in, dev, granted, faults, cut, quits, retries, left, crossed,
                     since, mixed, lied>>
  BY DEF SendCommand, device, counts, restarts
<1>2. PICK c \in Commands : At(t, c) /\ out' = Append(out, Container("command", c, tid'))
  BY <1>0 DEF SendCommand
<1>3. Scalars' /\ Flags'
  <2>1. lock' \in Threads \cup {Nobody}
    BY DEF SendCommand, IInv, Scalars
  <2> QED
    BY <1>0, <1>1, <2>1, Zenon DEF IInv, Scalars, Flags
<1>4. Control'
  BY SendCommandKeepsControl DEF IInv
<1>5. Pipes' /\ Truth'
  <2>1. Container("command", c, tid') \in Containers(OutKinds, tid')
    <3>1. tid' \in 1..tid' /\ c \in Codings /\ "command" \in OutKinds
      BY <1>0 DEF Codings, OutKinds
    <3> QED
      BY <1>0, <3>1, ContainerIn
  <2>2. /\ in \in Seq(Containers(InKinds, tid')) /\ out \in Seq(Containers(OutKinds, tid'))
        /\ dev = Ready \/ dev \in [phase : {"receiving"}, code : DataOut, tid : 1..tid']
        /\ granted \subseteq 1..tid'
    BY <1>0, PipesGrow DEF IInv, Data
  <2>3. out' \in Seq(Containers(OutKinds, tid'))
    BY <1>2, <2>1, <2>2, Closed
  <2> QED
    BY <1>1, <2>2, <2>3 DEF IInv, Data, Pipes, Truth, Quiet
<1>6. Paired' /\ Between'
  <2>1. /\ call[t].op # "none" /\ call'[t].tid = tid' /\ call'[t].tid # 0
        /\ call'[t].op = call[t].op /\ call'[t].step = call[t].step + 1
        /\ \A u \in Threads : u # t => call'[u] = call[u]
    BY <1>0, CommandStarts DEF IInv, Operations
  <2> SUFFICES ASSUME Undisturbed
               PROVE  Paired' /\ Between'
    BY <1>1 DEF Paired, Between, Undisturbed
  <2>2. \A u \in Threads : u # t => call[u].tid = 0
    BY <2>1, CommandAlone DEF IInv, Undisturbed
  <2>3. CASE Settled
    <3>1. Exchange(t)'
      BY <2>3, CommandOnSettled DEF IInv, Data
    <3> QED
      BY <2>1, <2>2, <3>1, HandOver
  <2>4. CASE ~Settled
    <3>1. call[t].step = 1 /\ call[t].tid = 0
      <4>1. call[t].step # 4
        BY <2>4 DEF IInv, Control, Calls, Fitting, Data, Paired, Exchange
      <4> QED
        BY <4>1, CommandStarts DEF IInv, Control, Calls, Fitting
    <3>2. Interrupted /\ link = "opening"
      <4>1. link # "gone"
        BY <1>2 DEF At, Over
      <4> QED
        BY <2>2, <2>4, <3>1, <4>1 DEF IInv, Data, Between
    <3>3. call[t].op = "open"
      BY <2>1, <3>2 DEF IInv, Control, Alone
    <3>4. Rejecting'
      BY <1>0, <1>1, <1>2, <3>2, CommandOnWire DEF IInv, Data
    <3>5. Exchange(t)'
      BY <2>1, <3>1, <3>3, <3>4 DEF Exchange
    <3> QED
      BY <2>1, <2>2, <3>5, HandOver
  <2> QED
    BY <2>3, <2>4
<1> QED
  BY <1>3, <1>4, <1>5, <1>6 DEF IInv, Data

------------------------------------------------------------------------------
(* Steps of a call after its first command *)

(* A call that throws, closes the session or was granted does not lie. *)
LEMMA EndsLied ==
  ASSUME NEW t \in Threads, NEW ok \in BOOLEAN, End(t, ok), lied \in BOOLEAN
  PROVE  /\ lied' \in BOOLEAN
         /\ ~ok => lied' = lied
         /\ call[t].op = "close" \/ call[t].tid \in granted => lied' = lied
<1>1. lied' = (lied \/ (ok /\ call[t].op # "close" /\ call[t].tid \notin granted))
  BY DEF End
<1> QED
  BY <1>1, Zenon

(* The types after the end of a call. *)
LEMMA EndTypes ==
  ASSUME Scalars, Flags, NEW t \in Threads, NEW ok \in BOOLEAN, End(t, ok)
  PROVE  /\ lock' \in Threads \cup {Nobody} /\ granted' \subseteq granted /\ lied' \in BOOLEAN
         /\ link' \in {"opening", "open", "failed", "closing", "gone", "lost"}
<1>1. lied' \in BOOLEAN
  BY EndsLied DEF Flags
<1>2. lock' \in Threads \cup {Nobody} /\ granted' \subseteq granted
  BY DEF End, Scalars
<1>3. link' \in {"opening", "open", "failed", "closing", "gone", "lost"}
  BY DEF End, Scalars
<1> QED
  BY <1>1, <1>2, <1>3

(* A call that runs undisturbed, or one that nothing has disturbed yet. *)
LEMMA QuietCalls ==
  ASSUME Control, Quiet, NEW t \in Threads, call[t].op # "none"
  PROVE  Undisturbed
  BY DEF Control, Aside, Quiet, Undisturbed

(* A step of a call keeps the invariant if undisturbed it finds what it expects, and what  *)
(* it says in the end is true.                                                             *)
LEMMA StepKeepsInvariant ==
  ASSUME IInv, NEW t \in Threads, call[t].op # "none", call[t].step >= 2,
         Advance(t) \/ Throw(t), UNCHANGED <<up, tid, dev, counts>>, mixed' \in BOOLEAN,
         in' \in Seq(Containers(InKinds, tid)), out' \in Seq(Containers(OutKinds, tid)),
         Undisturbed =>
           /\ IF call'[t].tid = 0 THEN Settled' ELSE Exchange(t)'
           /\ \/ Throw(t) \/ call[t].step # Length(call[t].op)
              \/ call[t].op = "close" \/ call[t].tid \in granted
  PROVE  IInv'
<1>1. UNCHANGED <<faults, cut, left, crossed>>
  BY DEF counts, restarts
<1>2. tid \in Nat /\ tid' = tid
  BY Numbers DEF IInv
<1>3. Control'
  <2>1. CASE Advance(t)
    BY <2>1, <1>1, AdvanceKeepsControl DEF IInv, Quiet
  <2>2. CASE Throw(t)
    <3>1. End(t, FALSE) /\ (Quiet' => Quiet)
      BY <2>2, <1>1 DEF Throw, Quiet
    <3>2. tid' >= tid /\ tid' \in Nat
      BY <1>2
    <3> QED
      BY <3>1, <3>2, <1>1, <1>2, EndKeepsControl DEF IInv
  <2> QED
    BY <2>1, <2>2
<1>4. \/ \E ok \in BOOLEAN : End(t, ok) /\ since' = (cut # "none")
      \/ UNCHANGED <<lock, link, granted, lied, since>>
  BY Zenon DEF Advance, Throw
<1>5. /\ lock' \in Threads \cup {Nobody} /\ granted' \subseteq granted
      /\ lied' \in BOOLEAN /\ since' \in BOOLEAN
      /\ link' \in {"opening", "open", "failed", "closing", "gone", "lost"}
  <2>1. CASE UNCHANGED <<lock, link, granted, lied, since>>
    BY <2>1, Zenon DEF IInv, Scalars, Flags
  <2>2. ASSUME NEW ok \in BOOLEAN, End(t, ok), since' = (cut # "none")
        PROVE  /\ lock' \in Threads \cup {Nobody} /\ granted' \subseteq granted
               /\ lied' \in BOOLEAN /\ since' \in BOOLEAN
               /\ link' \in {"opening", "open", "failed", "closing", "gone", "lost"}
    <3>1. since' \in BOOLEAN
      BY <2>2, Zenon
    <3> QED
      BY <2>2, <3>1, EndTypes DEF IInv
  <2> QED
    BY <1>4, <2>1, <2>2
<1>6. Scalars' /\ Flags'
  BY <1>1, <1>2, <1>5, Zenon DEF IInv, Scalars, Flags
<1>7. Pipes'
  BY <1>2, <1>5 DEF IInv, Data, Pipes
<1>8. Truth'
  <2> SUFFICES ASSUME Quiet
               PROVE  lied' = lied
    BY <1>1 DEF IInv, Data, Truth, Quiet
  <2>1. \/ Throw(t) \/ call[t].step # Length(call[t].op)
        \/ call[t].op = "close" \/ call[t].tid \in granted
    BY QuietCalls DEF IInv
  <2>2. CASE Throw(t)
    BY <2>2, EndsLied DEF Throw, IInv, Flags
  <2>3. CASE Advance(t)
    <3>1. CASE call[t].step = Length(call[t].op) /\ ~Throw(t)
      <4>1. End(t, TRUE)
        BY <2>3, <3>1, AdvanceEffect DEF IInv, Control
      <4> QED
        BY <2>1, <3>1, <4>1, EndsLied DEF IInv, Flags
    <3>2. CASE call[t].step # Length(call[t].op)
      BY <2>3, <3>2, AdvanceEffect DEF IInv, Control
    <3> QED
      BY <2>2, <3>1, <3>2
  <2> QED
    BY <2>2, <2>3
<1>9. Paired' /\ Between'
  <2> SUFFICES ASSUME Undisturbed
               PROVE  Paired' /\ Between'
    BY <1>1 DEF Paired, Between, Undisturbed
  <2>1. call[t].tid # 0
    BY DEF IInv, Control, Calls, Fitting
  <2>2. \A u \in Threads : u # t => call[u].tid = 0
    BY <2>1, OnTheWire DEF IInv, Undisturbed
  <2>3. \A u \in Threads : u # t => call'[u] = call[u]
    <3>1. CASE Advance(t)
      BY <3>1, AdvanceEffect DEF IInv, Control
    <3>2. CASE Throw(t)
      BY <3>2, EndEffect DEF Throw, End, IInv, Control
    <3> QED
      BY <3>1, <3>2
  <2> QED
    BY <2>2, <2>3, HandOver
<1> QED
  BY <1>3, <1>6, <1>7, <1>8, <1>9 DEF IInv, Data

(* Data that follow a command for them. *)
LEMMA DataOnWire ==
  ASSUME tid \in Nat \ {0}, tid' = tid, in' = in, dev' = dev,
         out' = Append(out, Container("data", "none", tid)),
         Pending(DataOut) \/ (Taking /\ in = <<>> /\ out = <<>>)
  PROVE  DataBehind'
<1> DEFINE d == Container("data", "none", tid)
<1>1. d \in Containers({"data"}, tid) /\ out' = Append(out, d)
  <2>1. "none" \in Codings /\ tid \in 1..tid
    BY DEF Codings
  <2> QED
    BY <2>1, ContainerIn
<1> HIDE DEF d
<1>2. CASE Taking /\ in = <<>> /\ out = <<>>
  <2>1. out' = <<d>>
    BY <1>1, <1>2, Short
  <2> QED
    BY <2>1, <1>1, <1>2 DEF Taking, DataBehind
<1>3. CASE Pending(DataOut)
  <2>1. PICK c \in DataOut : out = <<Container("command", c, tid)>>
    BY <1>3 DEF Pending
  <2> DEFINE k == Container("command", c, tid)
  <2>2. out' = <<k, d>>
    <3>1. out = <<k>>
      BY <2>1
    <3> HIDE DEF k
    <3> QED
      BY <3>1, <1>1, Short
  <2>3. out' = <<Container("command", c, tid'), d>>
    BY <2>2
  <2> QED
    BY <2>3, <1>1, <1>3 DEF Pending, DataBehind
<1> QED
  BY <1>2, <1>3

(* The data are on their way. *)
LEMMA SendDataOn ==
  ASSUME Scalars, Control, NEW t \in Threads, SendData(t), Exchange(t)
  PROVE  call'[t].tid # 0 /\ Exchange(t)'
<1>1. \/ call[t].op \in {"mkdir", "send"} /\ call[t].step = 2
      \/ call[t].op = "send" /\ call[t].step = 5
  BY Places DEF Control, SendData
<1>2. /\ call[t].op # "none" /\ call[t].tid # 0
      /\ call[t].step >= 2 /\ call[t].step # Length(call[t].op)
  BY <1>1 DEF Length, Control, Calls, Fitting
<1>3. tid \in Nat \ {0}
  BY <1>2, Numbers DEF Control, Calls, Fitting
<1>4. /\ UNCHANGED <<tid, in, dev>> /\ Advance(t)
      /\ out' = Append(out, Container("data", "none", tid))
  BY DEF SendData
<1>5. Pending(DataOut) \/ (Taking /\ in = <<>> /\ out = <<>>)
  BY <1>1 DEF Exchange
<1>6. DataBehind'
  BY <1>3, <1>4, <1>5, DataOnWire
<1>7. /\ call'[t].op = call[t].op /\ call'[t].step = call[t].step + 1
      /\ call'[t].tid = call[t].tid
  BY <1>2, <1>4, AdvanceEffect DEF Control
<1> QED
  BY <1>1, <1>2, <1>6, <1>7 DEF Exchange

(* Sending data keeps the invariant. *)
LEMMA SendDataStep ==
  ASSUME IInv, NEW t \in Threads, SendData(t)
  PROVE  IInv'
<1>1. \/ call[t].op \in {"mkdir", "send"} /\ call[t].step = 2
      \/ call[t].op = "send" /\ call[t].step = 5
  BY Places DEF IInv, Control, SendData
<1>2. /\ call[t].op # "none" /\ call[t].tid # 0
      /\ call[t].step >= 2 /\ call[t].step # Length(call[t].op)
  BY <1>1 DEF Length, IInv, Control, Calls, Fitting
<1>3. tid \in Nat \ {0}
  BY <1>2, Numbers DEF IInv, Control, Calls, Fitting
<1>4. UNCHANGED <<up, tid, dev, counts>> /\ mixed' \in BOOLEAN /\ in' = in /\ Advance(t)
      /\ out' = Append(out, Container("data", "none", tid))
  BY DEF SendData, IInv, Flags
<1>5. out' \in Seq(Containers(OutKinds, tid)) /\ in' \in Seq(Containers(InKinds, tid))
  <2>1. "data" \in OutKinds /\ "none" \in Codings /\ tid \in 1..tid
    BY <1>3 DEF OutKinds, Codings
  <2>2. Container("data", "none", tid) \in Containers(OutKinds, tid)
    BY <2>1, <1>3, ContainerIn
  <2> QED
    BY <1>4, <2>2, Closed DEF IInv, Data, Pipes
<1>6. ASSUME Undisturbed
      PROVE  call'[t].tid # 0 /\ Exchange(t)'
  <2>1. Exchange(t)
    BY <1>2, <1>6 DEF IInv, Data, Paired
  <2> QED
    BY <2>1, SendDataOn DEF IInv
<1> QED
  BY <1>2, <1>4, <1>5, <1>6, StepKeepsInvariant

------------------------------------------------------------------------------
(* Reads *)

(* What a read leaves of a pipe of one and of two containers. *)
LEMMA TakeInEffect ==
  ASSUME Pipes, Flags, NEW t \in Threads, TakeIn(t)
  PROVE  /\ in' \in Seq(Containers(InKinds, tid)) /\ mixed' \in BOOLEAN
         /\ \A x : in = <<x>> /\ x.kind # "rest" => in' = <<>>
         /\ \A x, y : in = <<x, y>> /\ x.kind # "rest" => in' = <<y>>
<1>1. in \in Seq(Containers(InKinds, tid)) /\ in # <<>>
  BY DEF Pipes, TakeIn
<1>2. in' = Tail(in) \/ \E k \in 1..(Len(in) + 1) : in' = SubSeq(in, k, Len(in))
  BY DEF TakeIn
<1>3. in' \in Seq(Containers(InKinds, tid))
  <2>1. Tail(in) \in Seq(Containers(InKinds, tid))
    BY <1>1, Closed
  <2>2. \A k \in 1..(Len(in) + 1) : SubSeq(in, k, Len(in)) \in Seq(Containers(InKinds, tid))
    BY <1>1, Closed
  <2> QED
    BY <1>2, <2>1, <2>2
<1>4. mixed' = (mixed \/ Head(in).tid # call[t].tid)
  BY DEF TakeIn
<1>5. mixed' \in BOOLEAN
  BY <1>4, Zenon
<1>6. ASSUME NEW x, in = <<x>>, x.kind # "rest"
      PROVE  in' = <<>>
  BY <1>6, Short DEF TakeIn
<1>7. ASSUME NEW x, NEW y, in = <<x, y>>, x.kind # "rest"
      PROVE  in' = <<y>>
  BY <1>7, Short DEF TakeIn
<1> QED
  BY <1>3, <1>5, <1>6, <1>7

(* What a read of data finds. *)
LEMMA DataInPlace ==
  ASSUME NEW t \in Threads, call[t].op \in {"open", "read", "get"}, call[t].step = 2,
         Exchange(t), in # <<>>
  PROVE  Refused \/ WithData
  BY DEF Exchange, Pending, Rejecting

(* A read that takes the only response settles the wire, *)
LEMMA Unanswered ==
  ASSUME Pipes, Flags, NEW t \in Threads, TakeIn(t), UNCHANGED <<tid, out, dev>>,
         Refused \/ Answered
  PROVE  Settled' /\ Is("response") /\ ~Is("data") /\ ~Is("rest")
<1>1. PICK r \in Containers({"response"}, tid) : in = <<r>>
  BY DEF Refused, Answered
<1>2. r.kind = "response" /\ in # <<>> /\ Head(in) = r
  BY <1>1, Short DEF Containers
<1>3. in' = <<>>
  BY <1>1, <1>2, TakeInEffect
<1> QED
  BY <1>2, <1>3 DEF Settled, Refused, Answered, Is

(* and one that takes data leaves the response. *)
LEMMA DataTaken ==
  ASSUME Pipes, Flags, NEW t \in Threads, TakeIn(t), UNCHANGED <<tid, out, dev>>,
         granted' = granted, WithData
  PROVE  Answered' /\ Is("data") /\ ~Is("response") /\ ~Is("rest")
<1>1. PICK d \in Containers({"data"}, tid), r \in Containers({"response"}, tid) :
        /\ in = <<d, r>>
        /\ r.tid = tid /\ (r.code = "Error" \/ tid \in granted)
  BY DEF WithData
<1>2. d.kind = "data" /\ in # <<>> /\ Head(in) = d
  BY <1>1, Short DEF Containers
<1>3. in' = <<r>>
  BY <1>1, <1>2, TakeInEffect
<1> QED
  BY <1>1, <1>2, <1>3 DEF Answered, WithData, Is

(* After receive_data the response is left to read, or the call has ended. *)
LEMMA ReceiveDataOn ==
  ASSUME Flags, Control, Pipes, NEW t \in Threads, ReceiveData(t)
  PROVE  /\ Refused => call'[t].tid = 0 /\ Settled'
         /\ WithData => call'[t].tid # 0 /\ Exchange(t)'
<1>1. call[t].op \in {"open", "read"} /\ call[t].step = 2
  BY Places DEF Control, ReceiveData
<1>2. /\ call[t].op # "none" /\ call[t].tid # 0
      /\ call[t].step >= 2 /\ call[t].step # Length(call[t].op)
  BY <1>1 DEF Length, Control, Calls, Fitting
<1>3. /\ UNCHANGED <<up, tid, out, dev, counts>>
      /\ TakeIn(t) /\ (Advance(t) \/ Throw(t))
  BY DEF ReceiveData
<1>4. Advance(t) => /\ call'[t].op = call[t].op /\ call'[t].step = call[t].step + 1
                    /\ call'[t].tid # 0 /\ granted' = granted
  BY <1>2, AdvanceEffect DEF Control
<1>5. Throw(t) => call'[t].tid = 0
  BY EndEffect DEF Throw, End, Control
<1>6. ASSUME Refused
      PROVE  call'[t].tid = 0 /\ Settled'
  <2>1. Settled' /\ Is("response") /\ ~Is("data") /\ ~Is("rest")
    BY <1>6, <1>3, Unanswered
  <2>2. Head(in).code = "Error"
    BY <1>6, Short DEF Refused
  <2>3. Throw(t)
    BY <2>1, <2>2 DEF ReceiveData
  <2> QED
    BY <2>1, <2>3, <1>5
<1>7. ASSUME WithData
      PROVE  call'[t].tid # 0 /\ Exchange(t)'
  <2>1. ~Is("response") /\ ~Is("rest")
    <3>1. PICK d \in Containers({"data"}, tid), r \in Containers({"response"}, tid) :
            in = <<d, r>>
      BY <1>7 DEF WithData
    <3> QED
      BY <3>1, Short DEF Is, Containers
  <2>2. Advance(t)
    BY <2>1 DEF ReceiveData
  <2>3. Answered'
    BY <1>7, <2>2, <1>3, <1>4, DataTaken
  <2>4. call'[t].step = 3 /\ call'[t].tid # 0 /\ call'[t].op \in {"open", "read"}
    BY <2>2, <1>1, <1>4
  <2> QED
    BY <2>3, <2>4 DEF Exchange
<1> QED
  BY <1>6, <1>7

(* receive_data, *)
LEMMA ReceiveDataStep ==
  ASSUME IInv, NEW t \in Threads, ReceiveData(t)
  PROVE  IInv'
<1>1. call[t].op \in {"open", "read"} /\ call[t].step = 2
  BY Places DEF IInv, Control, ReceiveData
<1>2. /\ call[t].op # "none" /\ call[t].tid # 0
      /\ call[t].step >= 2 /\ call[t].step # Length(call[t].op)
  BY <1>1 DEF Length, IInv, Control, Calls, Fitting
<1>3. /\ UNCHANGED <<up, tid, out, dev, counts>>
      /\ TakeIn(t) /\ in # <<>> /\ (Advance(t) \/ Throw(t))
  BY DEF ReceiveData, TakeIn
<1>4. /\ in' \in Seq(Containers(InKinds, tid)) /\ out' \in Seq(Containers(OutKinds, tid))
      /\ mixed' \in BOOLEAN
  BY <1>3, TakeInEffect DEF IInv, Data, Pipes
<1>5. ASSUME Undisturbed
      PROVE  IF call'[t].tid = 0 THEN Settled' ELSE Exchange(t)'
  <2>1. Exchange(t)
    BY <1>2, <1>5 DEF IInv, Data, Paired
  <2>2. Refused \/ WithData
    BY <2>1, <1>1, <1>3, DataInPlace
  <2> QED
    BY <2>2, ReceiveDataOn DEF IInv, Data
<1> QED
  BY <1>2, <1>3, <1>4, <1>5, StepKeepsInvariant

(* After receive_data_to_file the response is left to read, or nothing. *)
LEMMA ReceiveFileOn ==
  ASSUME Flags, Control, Pipes, NEW t \in Threads, ReceiveFile(t), Refused \/ WithData
  PROVE  /\ call'[t].tid # 0 /\ call'[t].step = 3 /\ call'[t].op = "get"
         /\ Exchange(t)'
         /\ Refused => Settled'
<1>1. call[t].op = "get" /\ call[t].step = 2
  BY Places DEF Control, ReceiveFile
<1>2. /\ call[t].op # "none" /\ call[t].tid # 0
      /\ call[t].step >= 2 /\ call[t].step # Length(call[t].op)
  BY <1>1 DEF Length, Control, Calls, Fitting
<1>3. /\ UNCHANGED <<up, tid, out, dev, counts>>
      /\ TakeIn(t) /\ (Is("rest") \/ Advance(t))
  BY DEF ReceiveFile
<1>4. ~Is("rest")
  <2>1. ASSUME NEW d \in Containers({"data"}, tid), NEW r \in Containers({"response"}, tid),
               in = <<d, r>>
        PROVE  ~Is("rest")
    BY <2>1, Short DEF Is, Containers
  <2>2. Refused => ~Is("rest")
    BY <1>3, Unanswered
  <2> QED
    BY <2>1, <2>2 DEF WithData
<1>5. /\ call'[t].op = call[t].op /\ call'[t].step = call[t].step + 1
      /\ call'[t].tid # 0 /\ granted' = granted
  BY <1>2, <1>3, <1>4, AdvanceEffect DEF Control
<1>6. Refused => Settled'
  BY <1>3, Unanswered
<1>7. WithData => Answered'
  BY <1>3, <1>5, DataTaken
<1>8. call'[t].step = 3 /\ call'[t].op = "get"
  BY <1>1, <1>5
<1> QED
  BY <1>5, <1>6, <1>7, <1>8 DEF Exchange

(* receive_data_to_file, *)
LEMMA ReceiveFileStep ==
  ASSUME IInv, NEW t \in Threads, ReceiveFile(t)
  PROVE  IInv'
<1>1. call[t].op = "get" /\ call[t].step = 2
  BY Places DEF IInv, Control, ReceiveFile
<1>2. /\ call[t].op # "none" /\ call[t].tid # 0
      /\ call[t].step >= 2 /\ call[t].step # Length(call[t].op)
  BY <1>1 DEF Length, IInv, Control, Calls, Fitting
<1>3. /\ UNCHANGED <<up, tid, out, dev, counts>>
      /\ TakeIn(t) /\ in # <<>> /\ (Advance(t) \/ Throw(t))
      /\ (Is("rest") \/ Advance(t))
  BY DEF ReceiveFile, TakeIn
<1>4. /\ in' \in Seq(Containers(InKinds, tid)) /\ out' \in Seq(Containers(OutKinds, tid))
      /\ mixed' \in BOOLEAN
  BY <1>3, TakeInEffect DEF IInv, Data, Pipes
<1>5. ASSUME Undisturbed
      PROVE  call'[t].tid # 0 /\ Exchange(t)'
  <2>1. Exchange(t)
    BY <1>2, <1>5 DEF IInv, Data, Paired
  <2>2. Refused \/ WithData
    BY <2>1, <1>1, <1>3, DataInPlace
  <2> QED
    BY <2>2, ReceiveFileOn DEF IInv, Data, Exchange
<1> QED
  BY <1>2, <1>3, <1>4, <1>5, StepKeepsInvariant

(* A call about to read a response finds the one to its command, or nothing.   *)
LEMMA ResponsePlace ==
  ASSUME Control, NEW t \in Threads, At(t, "receive_response"), Exchange(t), in # <<>>
  PROVE  Answered
<1>1. \/ call[t].op \in {"open", "read", "get", "mkdir", "send"} /\ call[t].step = 3
      \/ call[t].op \in {"close", "delete"} /\ call[t].step = 2
      \/ call[t].op = "open" /\ call[t].step = 5
      \/ call[t].op = "send" /\ call[t].step = 6
  BY Places DEF Control
<1> QED
  BY <1>1 DEF Exchange, Pending, Settled, DataBehind

(* After receive_response nothing is under way, and the call has ended or goes on with its *)
(* next command.                                                                           *)
LEMMA ReceiveResponseOn ==
  ASSUME Flags, Control, Pipes, NEW t \in Threads, ReceiveResponse(t), Answered
  PROVE  /\ Settled' /\ (call'[t].tid = 0 \/ Exchange(t)')
         /\ call[t].tid = tid =>
              \/ Throw(t) \/ call[t].step # Length(call[t].op)
              \/ call[t].op = "close" \/ call[t].tid \in granted
<1>1. \/ call[t].op \in {"open", "read", "get", "mkdir", "send"} /\ call[t].step = 3
      \/ call[t].op \in {"close", "delete"} /\ call[t].step = 2
      \/ call[t].op = "open" /\ call[t].step = 5
      \/ call[t].op = "send" /\ call[t].step = 6
  BY Places DEF Control, ReceiveResponse
<1>2. call[t].op # "none"
  BY <1>1
<1>3. UNCHANGED <<up, tid, out, dev, counts>> /\ (Advance(t) \/ Throw(t))
  BY DEF ReceiveResponse
<1>4. PICK r \in Containers({"response"}, tid) :
        /\ in = <<r>>
        /\ r.tid = tid /\ (r.code = "Error" \/ tid \in granted)
  BY DEF Answered
<1>5. Head(in) = r /\ r.kind = "response" /\ Is("response") /\ ~Is("data") /\ ~Is("rest")
  BY <1>4, Short DEF Containers, Is
<1>6. TakeIn(t)
  BY <1>5 DEF ReceiveResponse
<1>7. Settled'
  BY <1>6, <1>3, Unanswered
<1>8. Throw(t) \/ (Advance(t) /\ Accepts(t, r.code))
  BY <1>5 DEF ReceiveResponse
<1>9. call[t].tid = tid /\ Accepts(t, r.code) => call[t].op = "close" \/ call[t].tid \in granted
  BY <1>4 DEF Accepts
<1>10. call'[t].tid = 0 \/ Exchange(t)'
  <2>1. CASE Throw(t)
    BY <2>1, EndEffect DEF Throw, End, Control
  <2>2. CASE Advance(t) /\ call[t].step = Length(call[t].op)
    BY <2>2, <1>2, AdvanceEffect DEF Control
  <2>3. CASE Advance(t) /\ call[t].step # Length(call[t].op)
    <3>1. call'[t].step = call[t].step + 1 /\ call'[t].op = call[t].op
      BY <2>3, <1>2, AdvanceEffect DEF Control
    <3>2. call[t].step = 3
      BY <1>1, <2>3 DEF Length
    <3> QED
      BY <3>1, <3>2, <1>7 DEF Exchange
  <2> QED
    BY <1>3, <2>1, <2>2, <2>3
<1> QED
  BY <1>7, <1>8, <1>9, <1>10

(* receive_response, *)
LEMMA ReceiveResponseStep ==
  ASSUME IInv, NEW t \in Threads, ReceiveResponse(t)
  PROVE  IInv'
<1>1. \/ call[t].op \in {"open", "read", "get", "mkdir", "send"} /\ call[t].step = 3
      \/ call[t].op \in {"close", "delete"} /\ call[t].step = 2
      \/ call[t].op = "open" /\ call[t].step = 5
      \/ call[t].op = "send" /\ call[t].step = 6
  BY Places DEF IInv, Control, ReceiveResponse
<1>2. call[t].op # "none" /\ call[t].step >= 2 /\ call[t].tid # 0
  BY <1>1 DEF IInv, Control, Calls, Fitting
<1>3. UNCHANGED <<up, tid, out, dev, counts>> /\ in # <<>> /\ (Advance(t) \/ Throw(t))
  BY DEF ReceiveResponse, TakeIn, Is
<1>4. /\ in' \in Seq(Containers(InKinds, tid)) /\ out' \in Seq(Containers(OutKinds, tid))
      /\ mixed' \in BOOLEAN
  <2>1. CASE TakeIn(t)
    BY <2>1, <1>3, TakeInEffect DEF IInv, Data, Pipes
  <2>2. CASE /\ Is("data")
             /\ in' = <<Container("rest", "none", Head(in).tid)>> \o Tail(in)
             /\ mixed' = TRUE
    <3>1. in \in Seq(Containers(InKinds, tid)) /\ tid \in Nat
      BY Numbers DEF IInv, Data, Pipes
    <3>2. Head(in) \in Containers(InKinds, tid) /\ Tail(in) \in Seq(Containers(InKinds, tid))
      BY <3>1, <1>3, Closed
    <3>3. Head(in).tid \in 1..tid /\ "rest" \in InKinds /\ "none" \in Codings
      BY <3>2 DEF Containers, InKinds, Codings
    <3>4. Container("rest", "none", Head(in).tid) \in Containers(InKinds, tid)
      BY <3>1, <3>3, ContainerIn
    <3>5. in' \in Seq(Containers(InKinds, tid))
      BY <2>2, <3>2, <3>4, Closed
    <3> QED
      BY <2>2, <3>5, <1>3 DEF IInv, Data, Pipes
  <2> QED
    BY <2>1, <2>2 DEF ReceiveResponse
<1>5. ASSUME Undisturbed
      PROVE  /\ IF call'[t].tid = 0 THEN Settled' ELSE Exchange(t)'
             /\ \/ Throw(t) \/ call[t].step # Length(call[t].op)
                \/ call[t].op = "close" \/ call[t].tid \in granted
  <2>1. Exchange(t)
    BY <1>2, <1>5 DEF IInv, Data, Paired
  <2>2. Answered
    BY <2>1, <1>3, ResponsePlace DEF ReceiveResponse, IInv
  <2>3. call[t].tid = tid
    BY <1>2, <1>5, OnTheWire DEF IInv, Undisturbed
  <2> QED
    BY <2>2, <2>3, ReceiveResponseOn DEF IInv, Data
<1> QED
  BY <1>2, <1>3, <1>4, <1>5, StepKeepsInvariant

(* A read times out where nothing is under way. *)
LEMMA TimesOutOn ==
  ASSUME Control, NEW t \in Threads, TimesOut(t), Exchange(t)
  PROVE  Settled'
<1>1. /\ call[t].op # "none" /\ call[t].step \in {2, 3, 5, 6}
      /\ call[t].step = 2 => call[t].op \in {"open", "read", "get", "close", "delete"}
      /\ call[t].step = 5 => call[t].op = "open"
      /\ call[t].step = 3 => call[t].op \in {"open", "read", "get", "mkdir", "send"}
  BY Places DEF Control, TimesOut, Reading
<1>2. UNCHANGED <<in, out, dev>> /\ in = <<>> /\ out = <<>>
  BY DEF TimesOut, NothingComes, pipes
<1>3. \A x : <<x>> # <<>>
  BY Short
<1>4. \A x, y : <<x, y>> # <<>>
  BY Short
<1>5. \A C : ~Pending(C)
  BY <1>2, <1>3 DEF Pending
<1>6. ~Refused /\ ~WithData /\ ~Answered /\ ~DataBehind /\ ~Rejecting
  BY <1>2, <1>3, <1>4 DEF Refused, WithData, Answered, DataBehind, Rejecting
<1>7. Settled
  BY <1>1, <1>5, <1>6 DEF Exchange
<1> QED
  BY <1>7, <1>2 DEF Settled

(* and a read that times out keep the invariant. *)
LEMMA TimesOutStep ==
  ASSUME IInv, NEW t \in Threads, TimesOut(t)
  PROVE  IInv'
<1>1. /\ call[t].op # "none" /\ call[t].step \in {2, 3, 5, 6}
      /\ call[t].step = 2 => call[t].op \in {"open", "read", "get", "close", "delete"}
      /\ call[t].step = 5 => call[t].op = "open"
      /\ call[t].step = 3 => call[t].op \in {"open", "read", "get", "mkdir", "send"}
  BY Places DEF IInv, Control, TimesOut, Reading
<1>2. call[t].step >= 2 /\ call[t].tid # 0
  BY <1>1 DEF IInv, Control, Calls, Fitting
<1>3. UNCHANGED <<up, tid, in, out, dev, counts, mixed>> /\ in = <<>> /\ out = <<>> /\ Throw(t)
  BY DEF TimesOut, NothingComes, pipes
<1>4. /\ in' \in Seq(Containers(InKinds, tid)) /\ out' \in Seq(Containers(OutKinds, tid))
      /\ mixed' \in BOOLEAN
  BY <1>3 DEF IInv, Data, Pipes, Flags
<1>5. call'[t].tid = 0
  BY <1>3, EndEffect DEF Throw, End, IInv, Control
<1>6. ASSUME Undisturbed
      PROVE  Settled'
  <2>1. Exchange(t)
    BY <1>2, <1>6 DEF IInv, Data, Paired
  <2> QED
    BY <2>1, TimesOutOn DEF IInv
<1> QED
  BY <1>1, <1>2, <1>3, <1>4, <1>5, <1>6, StepKeepsInvariant

------------------------------------------------------------------------------
(* Faults and cuts *)

(* After a fault or a cut the invariant speaks of the users and the types only. *)
LEMMA DisturbedStep ==
  ASSUME Scalars', Flags', Control', Pipes', ~Quiet'
  PROVE  IInv'
<1>1. ~Undisturbed'
  BY DEF Undisturbed, Quiet
<1> QED
  BY <1>1 DEF IInv, Data, Paired, Between, Truth

(* What is left of the data container at the head of a pipe. *)
LEMMA RestInPipe ==
  ASSUME Pipes, tid \in Nat, in # <<>>
  PROVE  <<Container("rest", "none", Head(in).tid)>> \o Tail(in)
           \in Seq(Containers(InKinds, tid))
<1>1. in \in Seq(Containers(InKinds, tid))
  BY DEF Pipes
<1>2. Head(in) \in Containers(InKinds, tid) /\ Tail(in) \in Seq(Containers(InKinds, tid))
  BY <1>1, Closed
<1>3. Head(in).tid \in 1..tid /\ "rest" \in InKinds /\ "none" \in Codings
  BY <1>2 DEF Containers, InKinds, Codings
<1>4. Container("rest", "none", Head(in).tid) \in Containers(InKinds, tid)
  BY <1>3, ContainerIn
<1> QED
  BY <1>2, <1>4, Closed

(* What a call that sends data has put into the pipe. *)
LEMMA PartInPipe ==
  ASSUME Scalars, Control, Pipes, NEW t \in Threads, At(t, "send_data") \/ At(t, "send_file")
  PROVE  /\ Container("part", "none", tid) \in Containers({"part"}, tid)
         /\ Append(out, Container("part", "none", tid)) \in Seq(Containers(OutKinds, tid))
         /\ Append(out, Container("data", "none", tid)) \in Seq(Containers(OutKinds, tid))
<1>1. call[t].step \in {2, 5}
  BY Places DEF Control
<1>2. tid \in Nat /\ tid \in 1..tid
  BY <1>1, Numbers DEF Control, Calls, Fitting
<1>3. "none" \in Codings /\ "part" \in OutKinds /\ "data" \in OutKinds /\ "part" \in {"part"}
  BY DEF Codings, OutKinds
<1>4. /\ Container("part", "none", tid) \in Containers({"part"}, tid)
      /\ Container("part", "none", tid) \in Containers(OutKinds, tid)
      /\ Container("data", "none", tid) \in Containers(OutKinds, tid)
  BY <1>2, <1>3, ContainerIn
<1>5. out \in Seq(Containers(OutKinds, tid))
  BY DEF Pipes
<1> QED
  BY <1>4, <1>5, Closed

(* Bulk calls that fail, *)
LEMMA FailsStep ==
  ASSUME IInv, NEW t \in Threads, Fails(t)
  PROVE  IInv'
<1>1. /\ UNCHANGED <<in, dev, cut, quits, retries, left, crossed, mixed>>
      /\ End(t, FALSE) /\ since' = (cut # "none")
  BY DEF Fails, restarts, Throw
<1>2. faults' \in Nat /\ faults' # 0
  BY Numbers DEF Fails, IInv
<1>3. tid \in Nat /\ tid' \in Nat /\ tid' >= tid
  <2>1. tid' = tid \/ tid' = tid + 1
    BY DEF Fails
  <2> QED
    BY <2>1, Numbers DEF IInv
<1>4. ~Quiet'
  BY <1>2 DEF Quiet
<1>5. call[t].op # "none" /\ (call[t].op \in Operations => lock \in {Nobody, t})
  <2>1. call[t].op # "none"
    BY DEF Fails, IInv, Control, Calls, Fitting, Idle, Records
  <2> QED
    BY <2>1 DEF Fails, Unlocked, Operations
<1>6. Control'
  BY <1>1, <1>3, <1>4, <1>5, EndKeepsControl DEF IInv
<1>7. /\ lock' \in Threads \cup {Nobody} /\ granted' \subseteq granted /\ lied' \in BOOLEAN
      /\ link' \in {"opening", "open", "failed", "closing", "gone", "lost"}
  BY <1>1, EndTypes DEF IInv
<1>8. Scalars' /\ Flags'
  <2>1. up' \in BOOLEAN
    BY DEF Fails, IInv, Flags
  <2>2. since' \in BOOLEAN
    BY <1>1, Zenon
  <2> QED
    BY <1>1, <1>2, <1>3, <1>7, <2>1, <2>2, Zenon DEF IInv, Scalars, Flags
<1>9. Pipes'
  <2>1. /\ in \in Seq(Containers(InKinds, tid')) /\ out \in Seq(Containers(OutKinds, tid'))
        /\ dev = Ready \/ dev \in [phase : {"receiving"}, code : DataOut, tid : 1..tid']
        /\ granted \subseteq 1..tid'
    BY <1>3, PipesGrow DEF IInv, Data
  <2>2. out' \in Seq(Containers(OutKinds, tid'))
    <3>1. CASE out' = out
      BY <3>1, <2>1
    <3>2. CASE /\ At(t, "send_data") \/ At(t, "send_file")
               /\ out' = Append(out, Container("part", "none", tid))
      <4>1. out' \in Seq(Containers(OutKinds, tid))
        BY <3>2, PartInPipe DEF IInv, Data
      <4>2. Containers(OutKinds, tid) \subseteq Containers(OutKinds, tid')
        BY <1>3, ContainersGrow
      <4> QED
        BY <4>1, <4>2, Wider
    <3> QED
      BY <3>1, <3>2 DEF Fails
  <2> QED
    BY <2>1, <2>2, <1>1, <1>7 DEF Pipes
<1> QED
  BY <1>4, <1>6, <1>8, <1>9, DisturbedStep

(* and transfers that are cut keep the invariant. *)
LEMMA CutStep ==
  ASSUME IInv, NEW t \in Threads, Cut(t)
  PROVE  IInv'
<1>1. /\ UNCHANGED <<up, tid, dev, faults, quits, retries, left, crossed, since, mixed>>
      /\ End(t, FALSE)
      /\ CutDownload(t) \/ CutUpload(t)
  BY DEF Cut, restarts
<1>2. cut' \in {"get", "send", "sent"}
  BY <1>1 DEF CutDownload, CutUpload
<1>3. tid \in Nat
  BY Numbers DEF IInv
<1>4. ~Quiet'
  BY <1>2 DEF Quiet
<1>5. call[t].op # "none"
  BY <1>1, Places DEF CutDownload, CutUpload, IInv, Control
<1>6. Control'
  <2>1. tid' \in Nat /\ tid' >= tid /\ tid' = tid
    BY <1>1, <1>3
  <2> QED
    BY <1>1, <2>1, <1>4, <1>5, EndKeepsControl DEF IInv
<1>7. /\ lock' \in Threads \cup {Nobody} /\ granted' \subseteq granted /\ lied' \in BOOLEAN
      /\ link' \in {"opening", "open", "failed", "closing", "gone", "lost"}
  BY <1>1, EndTypes DEF IInv
<1>8. Scalars' /\ Flags'
  <2>1. cut' \in {"none", "get", "send", "sent"}
    BY <1>2
  <2> QED
    BY <1>1, <1>7, <2>1, Zenon DEF IInv, Scalars, Flags
<1>9. Pipes'
  <2>1. in' \in Seq(Containers(InKinds, tid))
    <3>1. CASE in' = in
      BY <3>1 DEF IInv, Data, Pipes
    <3>2. CASE Is("data") /\ in' = <<Container("rest", "none", Head(in).tid)>> \o Tail(in)
      BY <3>2, <1>3, RestInPipe DEF IInv, Data, Is
    <3> QED
      BY <3>1, <3>2, <1>1 DEF CutDownload, CutUpload
  <2>2. out' \in Seq(Containers(OutKinds, tid))
    <3>1. CASE out' = out
      BY <3>1 DEF IInv, Data, Pipes
    <3>2. CASE /\ At(t, "send_file")
               /\ \/ out' = Append(out, Container("part", "none", tid))
                  \/ out' = Append(out, Container("data", "none", tid))
      BY <3>2, PartInPipe DEF IInv, Data
    <3> QED
      BY <3>1, <3>2, <1>1 DEF CutDownload, CutUpload
  <2> QED
    BY <2>1, <2>2, <1>1, <1>7 DEF Pipes, IInv, Data
<1> QED
  BY <1>4, <1>6, <1>8, <1>9, DisturbedStep

------------------------------------------------------------------------------
(* How calls, sessions and processes begin and end *)

(* So do the beginning of a call, *)
LEMMA AskStep ==
  ASSUME IInv, NEW t \in Threads, NEW op \in Offered, Ask(t, op)
  PROVE  IInv'
<1>1. UNCHANGED <<link, up, tid, lock, in, out, dev, granted, faults, cut, quits, retries,
                  left, crossed, since, mixed, lied>>
  BY DEF Ask, session, pipes, device, restarts
<1>2. Scalars' /\ Flags'
  BY <1>1 DEF IInv, Scalars, Flags
<1>3. Control'
  BY AskKeepsControl DEF IInv
<1>4. Pipes' /\ Truth'
  BY <1>1 DEF IInv, Data, Pipes, Truth, Quiet
<1>5. /\ call[t].tid = 0 /\ call'[t].tid = 0
      /\ \A u \in Threads : u # t => call'[u] = call[u]
  BY DEF Ask, Idle, IInv, Control, Calls
<1>6. Paired' /\ Between'
  <2> SUFFICES ASSUME Undisturbed
               PROVE  Paired' /\ Between'
    BY <1>1 DEF Paired, Between, Undisturbed
  <2>1. Settled => Settled'
    BY <1>1 DEF Settled
  <2>2. link = "open"
    BY DEF Ask
  <2>3. Between'
    BY <1>5, <2>1, <2>2 DEF IInv, Data, Between
  <2>4. ASSUME NEW u \in Threads, call'[u].tid # 0
        PROVE  Exchange(u)'
    <3>1. call'[u] = call[u] /\ Exchange(u)
      BY <1>5, <2>4 DEF IInv, Data, Paired
    <3> QED
      BY <3>1, <1>1 DEF Exchange, Settled, Pending, Refused, WithData, Rejecting, Answered,
         Taking, DataBehind
  <2> QED
    BY <2>3, <2>4 DEF Paired
<1> QED
  BY <1>2, <1>3, <1>4, <1>6 DEF IInv, Data

(* disconnect(), *)
LEMMA CloseStep ==
  ASSUME IInv, NEW t \in Threads, Close(t)
  PROVE  IInv'
<1>1. /\ UNCHANGED <<tid, lock, in, out, dev, granted, faults, cut, quits, retries, left,
                     since, mixed, lied>>
      /\ up' = FALSE /\ link' \in {"closing", "lost"} /\ link \in {"open", "failed"}
      /\ crossed' = (crossed \/ \E u \in Threads : call[u] # Idle)
  BY DEF Close, pipes, device
<1>2. Scalars' /\ Flags'
  <2>1. crossed' \in BOOLEAN
    BY <1>1, Zenon
  <2> QED
    BY <1>1, <2>1, Zenon DEF IInv, Scalars, Flags
<1>3. Control'
  BY CloseKeepsControl DEF IInv
<1>4. Pipes' /\ Truth'
  <2>1. ~crossed' => ~crossed
    BY <1>1, Zenon
  <2> QED
    BY <1>1, <2>1 DEF IInv, Data, Pipes, Truth, Quiet
<1>5. Paired' /\ Between'
  <2> SUFFICES ASSUME Undisturbed'
               PROVE  Paired' /\ Between'
    BY DEF Paired, Between
  <2>1. ~crossed /\ \A u \in Threads : call[u] = Idle
    <3>1. ~crossed'
      BY DEF Undisturbed
    <3> QED
      BY <1>1, <3>1, Zenon
  <2>2. Undisturbed
    BY <1>1, <2>1 DEF Undisturbed
  <2>3. Settled
    <3>1. \A u \in Threads : call[u].tid = 0
      BY <2>1 DEF Idle
    <3>2. link # "gone" /\ link # "opening"
      BY <1>1
    <3> QED
      BY <2>2, <3>1, <3>2 DEF IInv, Data, Between
  <2>4. Settled'
    BY <1>1, <2>3 DEF Settled
  <2>5. \A u \in Threads : call'[u].tid = 0
    BY <2>1 DEF Close, Idle, IInv, Control, Calls
  <2> QED
    BY <2>4, <2>5 DEF Paired, Between
<1> QED
  BY <1>2, <1>3, <1>4, <1>5 DEF IInv, Data

(* the next attempt to connect *)
LEMMA RetryStep ==
  ASSUME IInv, Retry
  PROVE  IInv'
<1>1. /\ UNCHANGED <<tid, lock, in, out, dev, granted, faults, cut, quits, left, crossed,
                     since, mixed, lied>>
      /\ up' = TRUE /\ link' = "opening" /\ link = "gone"
  BY DEF Retry, pipes, device
<1>2. Scalars' /\ Flags'
  BY <1>1, Zenon DEF IInv, Scalars, Flags
<1>3. Control'
  BY RetryKeepsControl DEF IInv
<1>4. Pipes' /\ Truth'
  BY <1>1 DEF IInv, Data, Pipes, Truth, Quiet
<1>5. /\ \A u \in Threads : call[u].tid = 0
      /\ \A u \in Threads : call'[u].tid = 0
  BY DEF Retry, Idle, IInv, Control, Calls
<1>6. Settled \/ (Interrupted /\ left = "in data")
  BY <1>5 DEF Retry, IInv, Data, Between
<1>7. Settled' \/ (Interrupted' /\ left' = "in data")
  BY <1>1, <1>6 DEF Settled, Interrupted
<1>8. Paired' /\ Between'
  BY <1>1, <1>5, <1>7 DEF Paired, Between
<1> QED
  BY <1>2, <1>3, <1>4, <1>8 DEF IInv, Data

(* and the end of the process. *)
LEMMA QuitStep ==
  ASSUME IInv, Quit
  PROVE  IInv'
<1>1. /\ UNCHANGED <<tid, dev, granted, faults, cut, crossed, since, mixed, lied>>
      /\ up' = FALSE /\ link' = "gone" /\ lock' = Nobody /\ retries' = 0
  BY DEF Quit, device
<1>2. \A u \in Threads : call'[u].tid = 0
  BY DEF Quit, Idle
<1>3. /\ left' \in {"in step", "in data", "answering"}
      /\ left' = "in step" => Settled
      /\ left' = "in data" => in = <<>> /\ out = <<>> /\ dev.phase = "receiving"
  BY DEF Quit, Settled
<1>4. \/ UNCHANGED <<in, out>>
      \/ /\ \E t \in Threads : At(t, "send_data") \/ At(t, "send_file")
         /\ out' = Append(out, Container("part", "none", tid)) /\ in' = in
      \/ /\ in # <<>> /\ in' = <<Container("rest", "none", Head(in).tid)>> \o Tail(in)
         /\ out' = out
  BY DEF Quit, Sending, Is, pipes
<1>5. Scalars' /\ Flags'
  BY <1>1, <1>3, Zenon DEF IInv, Scalars, Flags
<1>6. Control'
  BY QuitKeepsControl DEF IInv
<1>7. Pipes' /\ Truth'
  <2>1. in' \in Seq(Containers(InKinds, tid)) /\ out' \in Seq(Containers(OutKinds, tid))
    BY <1>4, RestInPipe, PartInPipe, Numbers DEF IInv, Data, Pipes
  <2> QED
    BY <1>1, <2>1 DEF IInv, Data, Pipes, Truth, Quiet
<1>8. Paired' /\ Between'
  <2> SUFFICES ASSUME Undisturbed'
               PROVE  Between'
    BY <1>2 DEF Paired, Between
  <2>1. Quiet /\ left' \in {"in step", "in data"}
    BY <1>1, <1>3 DEF Undisturbed, Quiet
  <2>2. CASE left' = "in step"
    <3>1. ASSUME NEW t \in Threads, At(t, "send_data") \/ At(t, "send_file")
          PROVE  FALSE
      <4>1. \/ call[t].op \in {"mkdir", "send"} /\ call[t].step = 2
            \/ call[t].op = "send" /\ call[t].step = 5
        BY <3>1, Places DEF IInv, Control
      <4>2. call[t].op # "none" /\ call[t].tid # 0
        BY <4>1 DEF IInv, Control, Calls, Fitting
      <4>3. Undisturbed
        BY <2>1, <4>2, QuietCalls DEF IInv
      <4>4. Exchange(t)
        BY <4>2, <4>3 DEF IInv, Data, Paired
      <4>5. Pending(DataOut) \/ Taking
        BY <4>1, <4>4 DEF Exchange
      <4>6. \A x : <<x>> # <<>>
        BY Short
      <4>7. out = <<>> /\ dev.phase # "receiving"
        <5>1. Settled
          BY <2>2, <1>3
        <5> QED
          BY <5>1 DEF Settled, Ready
      <4>8. ~Pending(DataOut)
        BY <4>6, <4>7 DEF Pending
      <4> QED
        BY <4>5, <4>7, <4>8 DEF Taking
    <3>2. Settled'
      BY <3>1, <2>2, <1>1, <1>3, <1>4 DEF Settled
    <3> QED
      BY <3>2 DEF Between
  <2>3. CASE left' = "in data"
    <3>1. in = <<>> /\ out = <<>> /\ dev.phase = "receiving"
      BY <2>3, <1>3
    <3>2. \/ UNCHANGED <<in, out>>
          \/ /\ Container("part", "none", tid) \in Containers({"part"}, tid)
             /\ out' = <<Container("part", "none", tid)>> /\ in' = in
      <4>1. CASE /\ \E t \in Threads : At(t, "send_data") \/ At(t, "send_file")
                 /\ out' = Append(out, Container("part", "none", tid)) /\ in' = in
        <5>1. out' = Append(<<>>, Container("part", "none", tid))
          BY <4>1, <3>1
        <5>2. out' = <<Container("part", "none", tid)>>
          BY <5>1, Short
        <5> QED
          BY <4>1, <5>2, PartInPipe DEF IInv, Data
      <4> QED
        BY <4>1, <1>4, <3>1
    <3>3. Interrupted'
      BY <1>1, <3>1, <3>2 DEF Interrupted
    <3> QED
      BY <2>3, <3>3, <1>1 DEF Between
  <2> QED
    BY <2>1, <2>2, <2>3
<1> QED
  BY <1>5, <1>6, <1>7, <1>8 DEF IInv, Data

(* The invariant holds when the first attempt to connect begins, *)
LEMMA InitInvariant == Init => IInv
<1> SUFFICES ASSUME Init
             PROVE  IInv
  OBVIOUS
<1> USE BoundsAssumption
<1>1. Scalars /\ Flags
  BY DEF Init, Scalars, Flags
<1>2. /\ call \in [Threads -> Records]
      /\ call["monitor"].op = "open" /\ call["monitor"].step = 1 /\ call["monitor"].tid = 0
      /\ \A t \in Threads : t # "monitor" => call[t].op = "none" /\ call[t].step = 0
      /\ \A t \in Threads : call[t].tid = 0
  <2> DEFINE opening == [op |-> "open", step |-> 1, tid |-> 0]
  <2>1. opening \in Records /\ Idle \in Records
    BY RecordOf DEF Idle
  <2>2. opening.op = "open" /\ opening.step = 1 /\ opening.tid = 0
    OBVIOUS
  <2>3. Idle.op = "none" /\ Idle.step = 0 /\ Idle.tid = 0
    BY DEF Idle
  <2>4. call = [t \in Threads |-> IF t = "monitor" THEN opening ELSE Idle]
    BY DEF Init
  <2> HIDE DEF opening
  <2> QED
    BY <2>1, <2>2, <2>3, <2>4 DEF Threads
<1>3. link = "opening" /\ ~crossed /\ lock = Nobody /\ tid = 0 /\ left = "in step" /\ ~lied
      /\ in = <<>> /\ out = <<>> /\ dev = Ready /\ granted = {}
  BY DEF Init
<1>4. Calls
  <2>1. 0 \in 0..tid
    <3>1. tid = 0
      BY <1>3
    <3> QED
      BY <3>1
  <2>2. 1 <= Length("open") /\ Length("none") = 0
    BY DEF Length
  <2> QED
    BY <1>2, <2>1, <2>2 DEF Calls, Fitting, Operations
<1>5. Locked /\ Latest /\ Aside
  BY <1>2, <1>3 DEF Locked, Latest, Aside, Threads
<1>6. Alone
  BY <1>2, <1>3 DEF Alone, Threads
<1>7. Pipes
  <2>1. \A S : <<>> \in Seq(S)
    OBVIOUS
  <2> QED
    BY <1>3, <2>1 DEF Pipes
<1>8. Paired /\ Between /\ Truth
  BY <1>2, <1>3 DEF Paired, Between, Truth, Settled
<1> QED
  BY <1>1, <1>4, <1>5, <1>6, <1>7, <1>8 DEF IInv, Control, Data

(* and where nothing changes. *)
LEMMA Stutter == IInv /\ UNCHANGED vars => IInv'
<1> SUFFICES ASSUME IInv, UNCHANGED vars
             PROVE  IInv'
  OBVIOUS
<1>1. /\ UNCHANGED <<link, up, tid, lock, call, in, out, dev, granted>>
      /\ UNCHANGED <<faults, cut, quits, retries, left, crossed, since, mixed, lied>>
  BY DEF vars, session, pipes, device, counts, restarts
<1>2. Scalars' /\ Flags'
  BY <1>1 DEF IInv, Scalars, Flags
<1>3. Control'
  BY <1>1 DEF IInv, Control, Calls, Fitting, Locked, Alone, Latest, Aside, Quiet
<1>4. Pipes' /\ Truth'
  BY <1>1 DEF IInv, Data, Pipes, Truth, Quiet
<1>5. (Settled => Settled') /\ (Interrupted => Interrupted')
  BY <1>1 DEF Settled, Interrupted
<1>6. Between'
  BY <1>1, <1>5 DEF IInv, Data, Between, Undisturbed
<1>7. Paired'
  BY <1>1 DEF IInv, Data, Paired, Undisturbed, Exchange, Settled, Pending, Refused, WithData,
     Rejecting, Answered, Taking, DataBehind
<1> QED
  BY <1>2, <1>3, <1>4, <1>6, <1>7 DEF IInv, Data

(* The invariant: the lock_guards of MTPOperations and the connection sequence of App     *)
(* keep the users of the session apart, and where nothing disturbs every operation finds   *)
(* in the pipes what its steps expect.                                                     *)
THEOREM Invariance == Spec => []IInv
<1>1. Init => IInv
  BY InitInvariant
<1>2. IInv /\ [Next]_vars => IInv'
  <2> SUFFICES ASSUME IInv, [Next]_vars
               PROVE  IInv'
    OBVIOUS
  <2>1. CASE Device
    BY <2>1, DeviceStep
  <2>2. CASE Quit
    BY <2>2, QuitStep
  <2>3. CASE Retry
    BY <2>3, RetryStep
  <2>4. ASSUME NEW t \in Threads, NEW op \in Offered, Ask(t, op)
        PROVE  IInv'
    BY <2>4, AskStep
  <2>5. ASSUME NEW t \in Threads, Close(t)
        PROVE  IInv'
    BY <2>5, CloseStep
  <2>6. ASSUME NEW t \in Threads, Goes(t)
        PROVE  IInv'
    BY <2>6, SendCommandStep, SendDataStep, ReceiveDataStep, ReceiveFileStep,
       ReceiveResponseStep, TimesOutStep DEF Goes
  <2>7. ASSUME NEW t \in Threads, Fails(t)
        PROVE  IInv'
    BY <2>7, FailsStep
  <2>8. ASSUME NEW t \in Threads, Cut(t)
        PROVE  IInv'
    BY <2>8, CutStep
  <2>9. CASE UNCHANGED vars
    BY <2>9, Stutter
  <2> QED
    BY <2>1, <2>2, <2>3, <2>4, <2>5, <2>6, <2>7, <2>8, <2>9 DEF Next
<1> QED
  BY <1>1, <1>2, PTL DEF Spec

------------------------------------------------------------------------------
(* What follows from the invariant *)

(* Every variable keeps its type, and mtx_ is held exactly by the operation that has sent  *)
(* a command and not returned, for any number of calls, faults, cuts and processes.        *)
THEOREM TypeCorrect == Spec => []TypeOK
<1>1. IInv => TypeOK
  <2> SUFFICES ASSUME IInv
               PROVE  TypeOK
    OBVIOUS
  <2>1. /\ link \in {"opening", "open", "failed", "closing", "gone", "lost"} /\ up \in BOOLEAN
        /\ tid \in Nat /\ lock \in Threads \cup {Nobody}
    BY Numbers, Zenon DEF IInv, Scalars, Flags
  <2>2. \A t \in Threads : call[t].step \in 0..6 /\ call[t].tid \in 0..tid
    BY CallTypes DEF IInv, Control, Calls, Fitting
  <2>3. \A t \in Threads :
          lock = t <=> call[t].op \notin {"none", "open", "close"} /\ call[t].tid # 0
    BY CallTypes DEF IInv, Control, Locked, Operations
  <2>4. cut \in {"none", "get", "send", "sent"} /\ left \in {"in step", "in data", "answering"}
    BY DEF IInv, Scalars
  <2>5. {since, crossed, mixed, lied} \subseteq BOOLEAN
    BY DEF IInv, Flags
  <2>6. \A k \in 1..Len(in) : in[k].kind \in {"data", "response", "rest"}
    <3>1. ASSUME NEW k \in 1..Len(in)
          PROVE  in[k] \in Containers(InKinds, tid)
      BY DEF IInv, Data, Pipes
    <3> QED
      BY <3>1 DEF Containers, InKinds
  <2>7. \A k \in 1..Len(out) : out[k].kind \in {"data", "command", "part"}
    <3>1. ASSUME NEW k \in 1..Len(out)
          PROVE  out[k] \in Containers(OutKinds, tid)
      BY DEF IInv, Data, Pipes
    <3> QED
      BY <3>1 DEF Containers, OutKinds
  <2>8. granted \subseteq 1..tid
    BY DEF IInv, Data, Pipes
  <2> QED
    BY <2>1, <2>2, <2>3, <2>4, <2>5, <2>6, <2>7, <2>8 DEF TypeOK
<1> QED
  BY <1>1, Invariance, PTL

(* No call is on the wire of an open session whose mutex is free. *)
LEMMA NobodyOnTheWire ==
  ASSUME Control, link = "open", lock = Nobody
  PROVE  \A t \in Threads : call[t].tid = 0
<1> SUFFICES ASSUME NEW t \in Threads, call[t].tid # 0
             PROVE  FALSE
  OBVIOUS
<1>1. call[t].op \in Operations \cup {"none", "open", "close"} /\ call[t].op # "none"
  BY CallTypes DEF Control, Calls, Fitting
<1>2. call[t].op \notin {"open", "close"}
  BY DEF Control, Alone
<1>3. call[t].op \notin Operations
  BY BoundsAssumption DEF Control, Locked, Threads
<1> QED
  BY <1>1, <1>2, <1>3

(* Where nothing fails and nothing is cut, the session is never left between two           *)
(* operations with an answer unread or a command unanswered, whatever the device refuses   *)
(* and however many operations, sessions and processes follow one another.                 *)
THEOREM StaysInStep == Spec => []OperationsStayInStep
<1>1. IInv => OperationsStayInStep
  <2> SUFFICES ASSUME IInv, Clean, AtRest
               PROVE  InStep
    BY DEF OperationsStayInStep
  <2>1. link = "open" /\ lock = Nobody /\ Undisturbed
    BY DEF Clean, AtRest
  <2>2. \A t \in Threads : call[t].tid = 0
    BY <2>1, NobodyOnTheWire DEF IInv
  <2>3. Settled
    BY <2>1, <2>2 DEF IInv, Data, Between
  <2> QED
    BY <2>3 DEF Settled, InStep
<1> QED
  BY <1>1, Invariance, PTL

(* ... and no operation of MTPOperations returns normally whose command the device did not *)
(* grant.                                                                                  *)
THEOREM NothingIsClaimed == Spec => []SuccessIsReal
<1>1. IInv => SuccessIsReal
  BY DEF IInv, Data, Truth, SuccessIsReal, Clean, Undisturbed, Quiet
<1> QED
  BY <1>1, Invariance, PTL

(* However often the program is quit between operations or inside an upload, the attempt   *)
(* to connect that follows leaves host and device in step.                                 *)
THEOREM NextProcessConnects == Spec => []RestartHeals
<1>1. IInv => RestartHeals
  <2> SUFFICES ASSUME IInv, Undisturbed, Tried
               PROVE  InStep
    BY DEF RestartHeals
  <2>1. link = "gone" /\ retries # 0 /\ \A t \in Threads : call[t].tid = 0
    BY DEF Tried, Idle
  <2>2. Settled
    BY <2>1 DEF IInv, Data, Between
  <2> QED
    BY <2>2 DEF Settled, InStep
<1> QED
  BY <1>1, Invariance, PTL

(* Between the announcement of an upload and its SendObject no other command reaches the   *)
(* device, whatever fails, is cut or disconnects: send_object holds mtx_, and the engine's *)
(* worker is joined before disconnect() sends CloseSession.                                *)
THEOREM NothingInBetween == Spec => PairUnbroken
<1>1. ASSUME IInv, NEW t \in Threads, At(t, "SendObject")
      PROVE  call[t].tid = tid
  <2>1. call[t].op = "send" /\ call[t].step = 4
    <3>1. "SendObject" \in Commands
      BY DEF Commands, DataOut
    <3> QED
      BY <1>1, <3>1, Places DEF IInv, Control, FirstCommand
  <2>2. t = "worker" /\ call[t].tid # 0
    BY <1>1, <2>1 DEF IInv, Control, Calls, Fitting, Operations
  <2>3. ~crossed
    BY <1>1, <2>1, <2>2 DEF IInv, Control, Alone
  <2> QED
    BY <1>1, <2>2, <2>3 DEF IInv, Control, Latest
<1>2. IInv /\ [Next]_vars =>
        [\A t \in Threads : (At(t, "SendObject") /\ call'[t].tid > tid)
                               => call[t].tid = tid]_vars
  BY <1>1
<1> QED
  BY <1>2, Invariance, PTL DEF Spec, PairUnbroken

------------------------------------------------------------------------------
(* An upload that was cut before its last chunk *)

(* The transfer that was cut is an upload, and nothing else disturbs. *)
Sliced == faults = 0 /\ quits = 0 /\ ~crossed /\ cut = "send"

(* What the host has sent since is behind an upload whose data do not come: *)
(* the device waits for them, or is yet to take the command.                *)
Dropping(own) ==
  /\ in = <<>>
  /\ \/ /\ dev.phase = "receiving"
        /\ out = own \/ \E p \in Containers({"part"}, tid) : out = <<p>> \o own
     \/ /\ dev = Ready
        /\ \E k \in Containers({"command"}, tid) :
             /\ k.code \in DataOut
             /\ \/ out = <<k>> \o own
                \/ \E p \in Containers({"part"}, tid) : out = <<k>> \o (<<p>> \o own)

(* At most data are on their way, for which no command waits. *)
Loose ==
  /\ dev = Ready
  /\ out = <<>> \/ \E d \in Containers({"data"}, tid) : out = <<d>>

(* The refusal is on its way to the host. *)
ErrorComes == \E r \in Containers({"response"}, tid) : in = <<r>> /\ r.code = "Error"
(* The call after the cut: its containers come for the rest of the data. *)
Facing(t) ==
  \/ /\ call[t].step = 2
     /\ \/ \E c \in Containers({"command"}, tid) : Dropping(<<c>>)
        \/ Refused
  \/ call[t].step = 3 /\ call[t].op = "get" /\ Settled
  \/ /\ call[t].step = 3 /\ call[t].op \in {"mkdir", "send"}
     /\ \/ \E c \in Containers({"command"}, tid), d \in Containers({"data"}, tid) :
             Dropping(<<c, d>>)
        \/ ErrorComes /\ Loose

(* What kind of transaction an operation begins with. *)
Class(op) ==
  CASE op \in {"open", "read", "get"} -> DataIn
    [] op \in {"close", "delete"} -> NoData
    [] OTHER -> DataOut

(* A later call comes behind the data of the refused one. *)
Strayed(t) ==
  /\ in = <<>> /\ dev = Ready
  /\ \E d \in Containers({"data"}, tid) :
       \/ /\ call[t].step = 2
          /\ \E c \in Class(call[t].op) : out = <<d>> \o <<Container("command", c, tid)>>
       \/ /\ call[t].step = 3 /\ call[t].op \in {"mkdir", "send"}
          /\ \E c \in DataOut, e \in Containers({"data"}, tid) :
               out = <<d>> \o <<Container("command", c, tid), e>>

(* What the wire has when no call is on it, *)
Apart == IF since THEN in = <<>> /\ Loose ELSE Dropping(<<>>)
(* and when one is. *)
During(t) == IF since THEN Exchange(t) \/ Strayed(t) ELSE Facing(t)

(* The invariant after a cut, inductive together with IInv. *)
CutInv ==
  /\ quits \in Nat
  /\ cut = "none" => ~since
  /\ cut # "none" => link # "opening"
  /\ Sliced /\ (\A t \in Threads : call[t].tid = 0) => Apart
  /\ Sliced => \A t \in Threads : call[t].tid # 0 => During(t)

(* A pipe with one container more at its head. *)
LEMMA Cons ==
  ASSUME NEW S, NEW q \in Seq(S), NEW x \in S
  PROVE  /\ <<x>> \o q # <<>> /\ Head(<<x>> \o q) = x /\ Tail(<<x>> \o q) = q
         /\ <<x>> \o q \in Seq(S) /\ <<x>> \o <<>> = <<x>>
<1>1. <<x>> \o q \in Seq(S) /\ Len(<<x>> \o q) = 1 + Len(q)
  OBVIOUS
<1>2. <<x>> \o q # <<>> /\ Head(<<x>> \o q) = x
  OBVIOUS
<1>3. Tail(<<x>> \o q) \in Seq(S) /\ Len(Tail(<<x>> \o q)) = Len(q)
  BY <1>1, <1>2
<1>4. \A i \in 1..Len(q) : Tail(<<x>> \o q)[i] = q[i]
  OBVIOUS
<1>5. Tail(<<x>> \o q) = q
  BY <1>3, <1>4, SeqEqual
<1>6. <<x>> \o <<>> = <<x>>
  OBVIOUS
<1> QED
  BY <1>1, <1>2, <1>5, <1>6

(* ... and one at its end. *)
LEMMA ConsAppend ==
  ASSUME NEW S, NEW q \in Seq(S), NEW x \in S, NEW y \in S
  PROVE  Append(<<x>> \o q, y) = <<x>> \o Append(q, y)
<1>1. Append(<<x>> \o q, y) \in Seq(S) /\ Len(Append(<<x>> \o q, y)) = Len(q) + 2
  OBVIOUS
<1>2. <<x>> \o Append(q, y) \in Seq(S) /\ Len(<<x>> \o Append(q, y)) = Len(q) + 2
  OBVIOUS
<1>3. \A i \in 1..(Len(q) + 2) : Append(<<x>> \o q, y)[i] = (<<x>> \o Append(q, y))[i]
  OBVIOUS
<1> QED
  BY <1>1, <1>2, <1>3, SeqEqual

(* An error of the device's. *)
LEMMA ErrorEffect ==
  ASSUME tid \in Nat, in = <<>>, NEW c \in Codings, NEW id \in 1..tid, tid' = tid,
         Answer(c, id, "Error", <<>>)
  PROVE  ErrorComes' /\ dev' = Ready
<1> DEFINE r == Container("response", "Error", id)
<1>1. r \in Containers({"response"}, tid) /\ r.code = "Error"
  <2>1. r \in Containers({"response"}, tid)
    BY ContainerIn DEF Codings
  <2> QED
    BY <2>1 DEF Container
<1>2. in' = <<>> \o <<>> \o <<r>> /\ dev' = Ready
  BY DEF Answer
<1> HIDE DEF r
<1>3. in' = <<r>>
  BY <1>2, Short
<1> QED
  BY <1>1, <1>2, <1>3 DEF ErrorComes

(* The device goes on towards what the host has sent, and refuses it. *)
LEMMA DeviceOnDropping ==
  ASSUME tid \in Nat, Pipes, Device, NEW own \in Seq(Containers(OutKinds, tid)), Dropping(own),
         own # <<>> => Head(own).kind = "command"
  PROVE  \/ Dropping(own)'
         \/ own # <<>> /\ ErrorComes' /\ dev' = Ready /\ out' = Tail(own)
<1> DEFINE C == Containers(OutKinds, tid)
<1>0. tid' = tid /\ out # <<>> /\ out' = Tail(out) /\ in = <<>>
  BY DEF Device, session, Dropping
<1>1. /\ \A p \in Containers({"part"}, tid) : p.kind = "part" /\ p \in C
      /\ \A k \in Containers({"command"}, tid) :
           k.kind = "command" /\ k \in C /\ k.tid \in 1..tid
  BY DEF Containers, OutKinds
<1>2. \A p \in Containers({"part"}, tid) :
         <<p>> \o own \in Seq(C) /\ Head(<<p>> \o own) = p /\ Tail(<<p>> \o own) = own
  BY <1>1, Cons
<1>3. CASE dev.phase = "receiving" /\ out = own
  <2>1. dev.code \in Codings /\ dev.tid \in 1..tid
    BY <1>3 DEF Pipes, Ready, Codings, Commands
  <2>2. Answer(dev.code, dev.tid, "Error", <<>>)
    BY <1>0, <1>3 DEF Device, Receive
  <2> QED
    BY <2>1, <2>2, <1>0, <1>3, ErrorEffect
<1>4. ASSUME dev.phase = "receiving", NEW p \in Containers({"part"}, tid), out = <<p>> \o own
      PROVE  Dropping(own)'
  <2>1. Head(out) = p /\ Tail(out) = own /\ p.kind = "part"
    BY <1>1, <1>2, <1>4
  <2>2. in' = in /\ dev' = dev
    BY <2>1, <1>4 DEF Device, Receive, device
  <2> QED
    BY <2>1, <2>2, <1>0, <1>4 DEF Dropping
<1>5. ASSUME dev = Ready, NEW k \in Containers({"command"}, tid), k.code \in DataOut,
             NEW q \in Seq(C), out = <<k>> \o q
      PROVE  out' = q /\ in' = <<>> /\ dev'.phase = "receiving"
  <2>1. Head(out) = k /\ Tail(out) = q /\ k.kind = "command"
    BY <1>1, <1>5, Cons
  <2>2. dev.phase # "receiving"
    BY <1>5 DEF Ready
  <2>3. Serve(k)
    BY <2>1, <2>2 DEF Device
  <2>4. k.code \notin NoData /\ k.code \notin DataIn
    BY <1>5 DEF DataIn, DataOut, NoData
  <2>5. dev' = [phase |-> "receiving", code |-> k.code, tid |-> k.tid] /\ in' = in
    BY <2>3, <2>4 DEF Serve
  <2> QED
    BY <2>1, <2>5, <1>0
<1>6. CASE dev = Ready /\ \E k \in Containers({"command"}, tid) :
             /\ k.code \in DataOut
             /\ \/ out = <<k>> \o own
                \/ \E p \in Containers({"part"}, tid) : out = <<k>> \o (<<p>> \o own)
  <2>1. PICK k \in Containers({"command"}, tid) :
             /\ k.code \in DataOut
             /\ \/ out = <<k>> \o own
                \/ \E p \in Containers({"part"}, tid) : out = <<k>> \o (<<p>> \o own)
    BY <1>6
  <2>2. CASE out = <<k>> \o own
    <3>1. out' = own /\ in' = <<>> /\ dev'.phase = "receiving"
      BY <1>5, <1>6, <2>1, <2>2
    <3> QED
      BY <3>1 DEF Dropping
  <2>3. CASE \E p \in Containers({"part"}, tid) : out = <<k>> \o (<<p>> \o own)
    <3>1. PICK p \in Containers({"part"}, tid) : out = <<k>> \o (<<p>> \o own)
      BY <2>3
    <3>2. out' = <<p>> \o own /\ in' = <<>> /\ dev'.phase = "receiving"
      BY <1>2, <1>5, <1>6, <2>1, <3>1
    <3> QED
      BY <3>2, <1>0 DEF Dropping
  <2> QED
    BY <2>1, <2>2, <2>3
<1> QED
  BY <1>3, <1>4, <1>6 DEF Dropping

(* ... which gets no further by more of the host's. *)
LEMMA DroppingGrows ==
  ASSUME tid \in Nat, tid' \in Nat, tid' >= tid, in' = in, dev' = dev,
         NEW own \in Seq(Containers(OutKinds, tid')), Dropping(own),
         NEW x \in Containers(OutKinds, tid'), out' = Append(out, x)
  PROVE  Dropping(Append(own, x))'
<1> DEFINE C == Containers(OutKinds, tid')
           own2 == Append(own, x)
<1>1. /\ Containers({"part"}, tid) \subseteq Containers({"part"}, tid')
      /\ Containers({"command"}, tid) \subseteq Containers({"command"}, tid')
      /\ Containers({"part"}, tid) \subseteq C
      /\ Containers({"command"}, tid) \subseteq C
  BY ContainersGrow DEF OutKinds
<1>2. ASSUME NEW p \in C
      PROVE  Append(<<p>> \o own, x) = <<p>> \o own2
  BY <1>2, ConsAppend
<1>3. ASSUME NEW p \in C, NEW k \in C
      PROVE  Append(<<k>> \o (<<p>> \o own), x) = <<k>> \o (<<p>> \o own2)
  <2>1. <<p>> \o own \in Seq(C)
    BY <1>3, Cons
  <2> QED
    BY <2>1, <1>2, <1>3, ConsAppend
<1>4. CASE /\ dev.phase = "receiving"
           /\ out = own \/ \E p \in Containers({"part"}, tid) : out = <<p>> \o own
  <2>1. out' = own2 \/ \E p \in Containers({"part"}, tid') : out' = <<p>> \o own2
    <3>1. ASSUME NEW p \in Containers({"part"}, tid), out = <<p>> \o own
          PROVE  p \in Containers({"part"}, tid') /\ out' = <<p>> \o own2
      <4>1. p \in C /\ p \in Containers({"part"}, tid')
        BY <1>1
      <4> QED
        BY <1>2, <3>1, <4>1
    <3>2. out = own => out' = own2
      OBVIOUS
    <3> HIDE DEF own2
    <3> QED
      BY <3>1, <3>2, <1>4
  <2> HIDE DEF own2
  <2>2. Dropping(own2)'
    BY <2>1, <1>4 DEF Dropping
  <2> QED
    BY <2>2 DEF own2
<1>5. CASE dev = Ready /\ \E k \in Containers({"command"}, tid) :
             /\ k.code \in DataOut
             /\ \/ out = <<k>> \o own
                \/ \E p \in Containers({"part"}, tid) : out = <<k>> \o (<<p>> \o own)
  <2>1. \E k \in Containers({"command"}, tid') :
             /\ k.code \in DataOut
             /\ \/ out' = <<k>> \o own2
                \/ \E p \in Containers({"part"}, tid') : out' = <<k>> \o (<<p>> \o own2)
    <3>1. PICK k \in Containers({"command"}, tid) :
             /\ k.code \in DataOut
             /\ \/ out = <<k>> \o own
                \/ \E p \in Containers({"part"}, tid) : out = <<k>> \o (<<p>> \o own)
      BY <1>5
    <3>2. k \in C /\ k \in Containers({"command"}, tid')
      BY <1>1
    <3>3. CASE out = <<k>> \o own
      <4>1. out' = <<k>> \o own2
        BY <1>2, <3>2, <3>3
      <4> QED
        BY <4>1, <3>1, <3>2
    <3>4. ASSUME NEW p \in Containers({"part"}, tid), out = <<k>> \o (<<p>> \o own)
          PROVE  p \in Containers({"part"}, tid') /\ out' = <<k>> \o (<<p>> \o own2)
      <4>1. p \in C /\ p \in Containers({"part"}, tid')
        BY <1>1
      <4> QED
        BY <1>3, <3>2, <3>4, <4>1
    <3> HIDE DEF own2, C
    <3> QED
      BY <3>1, <3>2, <3>3, <3>4
  <2> HIDE DEF own2
  <2>2. Dropping(own2)'
    BY <2>1, <1>5 DEF Dropping
  <2> QED
    BY <2>2 DEF own2
<1> QED
  BY <1>4, <1>5 DEF Dropping

(* The device drops data no command waits for, *)
LEMMA DeviceOnLoose ==
  ASSUME tid \in Nat, Device, Loose
  PROVE  in' = in /\ Loose'
<1>0. out # <<>> /\ out' = Tail(out)
  BY DEF Device
<1>1. PICK d \in Containers({"data"}, tid) : out = <<d>>
  BY <1>0 DEF Loose
<1>2. Head(out) = d /\ Tail(out) = <<>> /\ d.kind = "data" /\ dev = Ready
  BY <1>1, Short DEF Containers, Loose
<1>3. in' = in /\ dev' = dev
  BY <1>2 DEF Device, Ready, device
<1> QED
  BY <1>0, <1>2, <1>3 DEF Loose

(* and takes up the call that comes behind them. *)
LEMMA DeviceOnStrayed ==
  ASSUME tid \in Nat \ {0}, Device, NEW t \in Threads, Strayed(t)
  PROVE  Exchange(t)'
<1> DEFINE C == Containers(OutKinds, tid)
<1>0. out # <<>> /\ out' = Tail(out) /\ in = <<>> /\ dev = Ready /\ call' = call /\ tid' = tid
  BY DEF Device, Strayed, session
<1>1. ASSUME NEW d \in Containers({"data"}, tid), NEW q \in Seq(C), out = <<d>> \o q
      PROVE  out' = q /\ in' = <<>> /\ dev' = Ready
  <2>1. d.kind = "data" /\ d \in C
    BY DEF Containers, OutKinds
  <2>2. Head(out) = d /\ Tail(out) = q
    BY <2>1, <1>1, Cons
  <2>3. in' = in /\ dev' = dev
    BY <1>0, <2>1, <2>2 DEF Device, Ready, device
  <2> QED
    BY <1>0, <2>2, <2>3
<1>2. ASSUME NEW c \in Commands
      PROVE  Container("command", c, tid) \in C
  <2>1. c \in Codings /\ "command" \in OutKinds /\ tid \in 1..tid
    BY DEF Codings, OutKinds
  <2> QED
    BY <2>1, ContainerIn
<1>3. Containers({"data"}, tid) \subseteq C
  BY ContainersGrow DEF OutKinds
<1>4. PICK d \in Containers({"data"}, tid) :
       \/ /\ call[t].step = 2
          /\ \E c \in Class(call[t].op) : out = <<d>> \o <<Container("command", c, tid)>>
       \/ /\ call[t].step = 3 /\ call[t].op \in {"mkdir", "send"}
          /\ \E c \in DataOut, e \in Containers({"data"}, tid) :
               out = <<d>> \o <<Container("command", c, tid), e>>
  BY DEF Strayed
<1>5. CASE /\ call[t].step = 2
           /\ \E c \in Class(call[t].op) : out = <<d>> \o <<Container("command", c, tid)>>
  <2>1. PICK c \in Class(call[t].op) : out = <<d>> \o <<Container("command", c, tid)>>
    BY <1>5
  <2>2. c \in Commands
    BY DEF Class, Commands
  <2> DEFINE k == Container("command", c, tid)
  <2>3. <<k>> \in Seq(C)
    <3>1. k \in C
      BY <2>2, <1>2
    <3> HIDE DEF k, C
    <3> QED
      BY <3>1
  <2>4. out' = <<Container("command", c, tid)>> /\ in' = <<>> /\ dev' = Ready
    BY <2>1, <2>3, <1>1
  <2>5. /\ call[t].op \in {"open", "read", "get"} => Pending(DataIn)'
        /\ call[t].op \in {"close", "delete"} => Pending(NoData)'
        /\ call[t].op \in {"mkdir", "send"} => Pending(DataOut)'
    BY <2>4, <1>0 DEF Pending, Class
  <2>6. call'[t].step = 2 /\ call'[t].op = call[t].op
    BY <1>0, <1>5
  <2> QED
    BY <2>5, <2>6 DEF Exchange
<1>6. CASE /\ call[t].step = 3 /\ call[t].op \in {"mkdir", "send"}
           /\ \E c \in DataOut, e \in Containers({"data"}, tid) :
                out = <<d>> \o <<Container("command", c, tid), e>>
  <2>1. PICK c \in DataOut, e \in Containers({"data"}, tid) :
          out = <<d>> \o <<Container("command", c, tid), e>>
    BY <1>6
  <2>2. c \in Commands
    BY DEF Commands
  <2> DEFINE k == Container("command", c, tid)
  <2>3. <<k, e>> \in Seq(C)
    <3>1. k \in C /\ e \in C
      BY <2>2, <1>2, <1>3
    <3> HIDE DEF k, C
    <3> QED
      BY <3>1
  <2>4. out' = <<Container("command", c, tid), e>> /\ in' = <<>> /\ dev' = Ready
    BY <2>1, <2>3, <1>1
  <2>5. DataBehind'
    BY <2>4, <1>0 DEF DataBehind
  <2> QED
    BY <2>5, <1>0, <1>6 DEF Exchange
<1> QED
  BY <1>4, <1>5, <1>6

(* The device's steps, *)
LEMMA DeviceSliced ==
  ASSUME IInv, CutInv, Device
  PROVE  CutInv'
<1>1. /\ UNCHANGED <<link, tid, call, faults, cut, quits, crossed, since>>
      /\ out # <<>>
  BY DEF Device, session, counts, restarts
<1>2. tid \in Nat /\ tid' = tid
  BY <1>1, Numbers DEF IInv
<1>3. Apart => Apart'
  <2>1. CASE since
    <3>1. Apart => in' = <<>> /\ Loose'
      BY <2>1, <1>2, DeviceOnLoose DEF Apart
    <3> QED
      BY <3>1, <2>1, <1>1, Zenon DEF Apart
  <2>2. CASE ~since
    <3>1. <<>> \in Seq(Containers(OutKinds, tid))
      OBVIOUS
    <3>2. Dropping(<<>>) => Dropping(<<>>)'
      BY <3>1, <1>2, DeviceOnDropping DEF IInv, Data
    <3> QED
      BY <3>2, <2>2, <1>1, Zenon DEF Apart
  <2> QED
    BY <2>1, <2>2
<1>4. ASSUME Sliced, NEW t \in Threads, call[t].tid # 0
      PROVE  During(t)'
  <2>1. During(t) /\ tid \in Nat \ {0}
    BY <1>4, OnTheWire DEF CutInv, IInv, Sliced
  <2>2. CASE since
    <3>1. Exchange(t) \/ Strayed(t)
      BY <2>1, <2>2 DEF During
    <3>2. Exchange(t)'
      BY <2>1, <3>1, DeviceOnExchange, DeviceOnStrayed DEF IInv, Data
    <3> QED
      BY <3>2, <2>2, <1>1, Zenon DEF During
  <2>3. CASE ~since
    <3>0. Facing(t)
      BY <2>1, <2>3 DEF During
    <3>1. ASSUME NEW c \in Containers({"command"}, tid), Dropping(<<c>>)
          PROVE  Dropping(<<c>>)' \/ Refused'
      <4>1. c.kind = "command" /\ c \in Containers(OutKinds, tid)
        BY DEF Containers, OutKinds
      <4>2. /\ <<c>> \in Seq(Containers(OutKinds, tid))
            /\ Head(<<c>>) = c /\ Tail(<<c>>) = <<>>
        BY <4>1, Short
      <4>3. Dropping(<<c>>)' \/ (ErrorComes' /\ dev' = Ready /\ out' = <<>>)
        BY <3>1, <4>1, <4>2, <1>2, DeviceOnDropping DEF IInv, Data
      <4> QED
        BY <4>3 DEF ErrorComes, Refused
    <3>2. ASSUME NEW c \in Containers({"command"}, tid), NEW d \in Containers({"data"}, tid),
                 Dropping(<<c, d>>)
          PROVE  Dropping(<<c, d>>)' \/ (ErrorComes' /\ Loose')
      <4>1. c.kind = "command" /\ c \in Containers(OutKinds, tid) /\ d \in Containers(OutKinds, tid)
        BY DEF Containers, OutKinds
      <4>2. /\ <<c, d>> \in Seq(Containers(OutKinds, tid))
            /\ Head(<<c, d>>) = c /\ Tail(<<c, d>>) = <<d>>
        BY <4>1, Short
      <4>3. Dropping(<<c, d>>)' \/ (ErrorComes' /\ dev' = Ready /\ out' = <<d>>)
        BY <3>2, <4>1, <4>2, <1>2, DeviceOnDropping DEF IInv, Data
      <4> QED
        BY <4>3, <1>2 DEF Loose
    <3>3. ErrorComes /\ Loose => ErrorComes' /\ Loose'
      BY <1>2, DeviceOnLoose DEF ErrorComes
    <3>4. ~Settled /\ ~Refused
      BY <1>1 DEF Settled, Refused
    <3>5. Facing(t)'
      BY <3>0, <3>1, <3>2, <3>3, <3>4, <1>1 DEF Facing
    <3> QED
      BY <3>5, <2>3, <1>1, Zenon DEF During
  <2> QED
    BY <2>2, <2>3
<1>5. Sliced' <=> Sliced
  BY <1>1 DEF Sliced
<1> QED
  BY <1>1, <1>3, <1>4, <1>5 DEF CutInv

(* Where the rest of a call's steps leave the wire. *)
LEMMA SlicedStep ==
  ASSUME IInv, CutInv, NEW t \in Threads, call[t].op # "none", call[t].step >= 2,
         Advance(t) \/ Throw(t), UNCHANGED counts,
         Sliced => IF call'[t].tid = 0 THEN in' = <<>> /\ Loose'
                   ELSE IF since THEN Exchange(t)' \/ Strayed(t)' ELSE Facing(t)'
  PROVE  CutInv'
<1>1. UNCHANGED <<faults, cut, quits, crossed>>
  BY DEF counts, restarts
<1>2. Sliced' <=> Sliced
  BY <1>1 DEF Sliced
<1>3. call[t].tid # 0
  BY DEF IInv, Control, Calls, Fitting
<1>4. Len(Script(call[t].op)) = Length(call[t].op)
  BY Places DEF IInv, Control
<1>5. /\ \A u \in Threads : u # t => call'[u] = call[u]
      /\ \/ /\ call'[t].tid = 0 /\ since' = (cut # "none")
            /\ \E ok \in BOOLEAN : End(t, ok)
         \/ /\ call'[t].tid # 0 /\ UNCHANGED <<since, link>>
  <2>1. CASE Throw(t)
    BY <2>1, EndEffect DEF Throw, End, IInv, Control
  <2>2. CASE Advance(t) /\ call[t].step = Length(call[t].op)
    <3>1. End(t, TRUE) /\ since' = (cut # "none")
      BY <2>2, <1>4, Zenon DEF Advance
    <3>2. call'[t].tid = 0 /\ \A u \in Threads : u # t => call'[u] = call[u]
      BY <3>1, EndEffect DEF End, IInv, Control
    <3> QED
      BY <3>1, <3>2
  <2>3. CASE Advance(t) /\ call[t].step # Length(call[t].op)
    <3>1. UNCHANGED <<since, link>>
      BY <2>3, <1>4 DEF Advance
    <3>2. call'[t].tid = call[t].tid /\ \A u \in Threads : u # t => call'[u] = call[u]
      BY <2>3, AdvanceEffect DEF IInv, Control
    <3> QED
      BY <3>1, <3>2, <1>3
  <2> QED
    BY <2>1, <2>2, <2>3
<1>6. cut' = "none" => ~since'
  <2>1. cut = "none" => ~since
    BY DEF CutInv
  <2> QED
    BY <2>1, <1>1, <1>5, Zenon
<1>7. cut' # "none" => link' # "opening"
  <2>1. cut # "none" => link # "opening"
    BY DEF CutInv
  <2>2. (\E ok \in BOOLEAN : End(t, ok)) => link' = link \/ link' # "opening"
    BY DEF End
  <2> QED
    BY <2>1, <2>2, <1>1, <1>5
<1>8. ASSUME Sliced
      PROVE  /\ (\A u \in Threads : call'[u].tid = 0) => Apart'
             /\ \A u \in Threads : call'[u].tid # 0 => During(u)'
  <2>1. \A u \in Threads : u # t => call'[u].tid = 0
    BY <1>3, <1>5, <1>8, OnTheWire DEF IInv, Sliced
  <2>2. CASE call'[t].tid = 0
    <3>1. since' /\ in' = <<>> /\ Loose'
      BY <2>2, <1>5, <1>8 DEF Sliced
    <3>2. Apart'
      BY <3>1, Zenon DEF Apart
    <3> QED
      BY <3>2, <2>1, <2>2
  <2>3. CASE call'[t].tid # 0
    <3>1. (since' <=> since) /\ (IF since THEN Exchange(t)' \/ Strayed(t)' ELSE Facing(t)')
      BY <2>3, <1>5, <1>8
    <3>2. During(t)'
      BY <3>1, Zenon DEF During
    <3> QED
      BY <3>2, <2>1, <2>3
  <2> QED
    BY <2>2, <2>3
<1>9. quits' \in Nat
  BY <1>1 DEF CutInv
<1> QED
  BY <1>2, <1>6, <1>7, <1>8, <1>9 DEF CutInv

(* Two containers, and one more. *)
LEMMA Pair ==
  ASSUME NEW x, NEW y, NEW z
  PROVE  <<x>> \o <<y>> = <<x, y>> /\ Append(<<x>> \o <<y>>, z) = <<x>> \o <<y, z>>
<1>1. <<x>> \o <<y>> = <<x, y>>
  <2>1. <<>> \o <<x>> \o <<y>> = <<x, y>>
    BY Short
  <2>2. <<>> \o <<x>> = <<x>>
    OBVIOUS
  <2> QED
    BY <2>1, <2>2
<1>2. Append(<<x>> \o <<y>>, z) = <<x>> \o Append(<<y>>, z)
  <2>1. <<y>> \in Seq({x, y, z})
    OBVIOUS
  <2> QED
    BY <2>1, ConsAppend
<1>3. Append(<<y>>, z) = <<y, z>>
  BY Short
<1> QED
  BY <1>1, <1>2, <1>3

(* commands, *)
LEMMA SendCommandSliced ==
  ASSUME IInv, CutInv, NEW t \in Threads, SendCommand(t)
  PROVE  CutInv'
<1>0. tid \in Nat /\ tid' = tid + 1 /\ tid' \in Nat /\ tid' >= tid
  BY Numbers DEF IInv, SendCommand
<1>1. UNCHANGED <<link, in, dev, faults, cut, quits, crossed, since>>
  BY DEF SendCommand, device, counts, restarts
<1>2. PICK c \in Commands : At(t, c) /\ out' = Append(out, Container("command", c, tid'))
  BY <1>0 DEF SendCommand
<1>3. /\ call[t].op \in Operations \cup {"open", "close"} /\ call[t].step \in {1, 4}
      /\ call'[t].op = call[t].op /\ call'[t].step = call[t].step + 1 /\ call'[t].tid # 0
      /\ \A u \in Threads : u # t => call'[u] = call[u]
  BY CommandStarts DEF IInv
<1>4. (Sliced' <=> Sliced) /\ quits' \in Nat /\ (cut' # "none" => link' # "opening")
  BY <1>1 DEF Sliced, CutInv
<1>5. (since' <=> since) /\ (cut' = "none" => ~since')
  BY <1>1, Zenon DEF CutInv
<1> DEFINE C == Containers(OutKinds, tid')
<1>6. PICK k \in C : /\ k = Container("command", c, tid') /\ k \in Containers({"command"}, tid')
                     /\ out' = Append(out, k)
  <2>1. c \in Codings /\ "command" \in OutKinds /\ tid' \in 1..tid'
    BY <1>0 DEF Codings, OutKinds
  <2> QED
    BY <2>1, <1>0, <1>2, ContainerIn
<1>7. ASSUME Sliced
      PROVE  During(t)' /\ \A u \in Threads : u # t => call'[u].tid = 0
  <2>1. \A u \in Threads : u # t => call[u].tid = 0
    BY <1>7, CommandAlone DEF IInv, Sliced
  <2>2. Settled => Exchange(t)'
    BY CommandOnSettled DEF IInv, Data
  <2>3. CASE call[t].step = 1
    <3>1. Apart
      BY <2>1, <2>3, <1>7 DEF CutInv, IInv, Control, Calls, Fitting
    <3>2. call'[t].step = 2
      BY <2>3, <1>3
    <3>3. CASE since
      <4>1. in = <<>> /\ Loose
        BY <3>1, <3>3 DEF Apart
      <4>2. Exchange(t)' \/ Strayed(t)'
        <5>1. CASE out = <<>>
          BY <4>1, <5>1, <2>2 DEF Loose, Settled
        <5>2. CASE \E d \in Containers({"data"}, tid) : out = <<d>>
          <6>1. PICK d \in Containers({"data"}, tid) : out = <<d>>
            BY <5>2
          <6>2. d \in Containers({"data"}, tid')
            BY <1>0, ContainersGrow
          <6>3. out' = <<d>> \o <<k>>
            <7>1. out' = <<d, k>>
              BY <6>1, <1>6, Short
            <7> QED
              BY <7>1, Pair
          <6>4. c \in Class(call[t].op)
            <7>1. c = FirstCommand(call[t].op)
              BY <1>2, <2>3, Places DEF IInv, Control
            <7> QED
              BY <7>1, <1>3 DEF FirstCommand, Class, DataIn, DataOut, NoData, Operations
          <6>5. out' = <<d>> \o <<Container("command", c, tid')>>
            BY <6>3, <1>6
          <6> QED
            BY <6>2, <6>4, <6>5, <4>1, <1>1, <1>3, <3>2 DEF Strayed, Loose
        <5> QED
          BY <4>1, <5>1, <5>2 DEF Loose
      <4>5. During(t)'
        BY <4>2, <3>3, <1>5, Zenon DEF During
      <4> QED
        BY <4>5, <2>1, <1>3
    <3>4. CASE ~since
      <4>1. Dropping(<<>>)
        BY <3>1, <3>4 DEF Apart
      <4>2. Dropping(<<k>>)'
        <5>1. <<>> \in Seq(C) /\ Append(<<>>, k) = <<k>>
          BY Short
        <5>2. Dropping(Append(<<>>, k))'
          BY <4>1, <5>1, <1>0, <1>1, <1>6, DroppingGrows
        <5> QED
          BY <5>1, <5>2
      <4>3. Facing(t)'
        BY <4>2, <3>2, <1>6 DEF Facing
      <4>5. During(t)'
        BY <4>3, <3>4, <1>5, Zenon DEF During
      <4> QED
        BY <4>5, <2>1, <1>3
    <3> QED
      BY <2>1, <1>3, <3>3, <3>4
  <2>4. CASE call[t].step = 4
    <3>1. During(t)
      BY <2>4, <1>7 DEF CutInv, IInv, Control, Calls, Fitting
    <3>2. since /\ Exchange(t)
      BY <3>1, <2>4 DEF During, Facing, Strayed
    <3>3. Exchange(t)'
      BY <3>2, <2>2, <2>4 DEF Exchange
    <3>4. During(t)'
      BY <3>2, <3>3, <1>1, Zenon DEF During
    <3> QED
      BY <2>1, <1>3, <3>4
  <2> QED
    BY <1>3, <2>3, <2>4
<1> QED
  BY <1>3, <1>4, <1>5, <1>7 DEF CutInv

(* data, *)
LEMMA SendDataSliced ==
  ASSUME IInv, CutInv, NEW t \in Threads, SendData(t)
  PROVE  CutInv'
<1>1. \/ call[t].op \in {"mkdir", "send"} /\ call[t].step = 2
      \/ call[t].op = "send" /\ call[t].step = 5
  BY Places DEF IInv, Control, SendData
<1>2. /\ call[t].op # "none" /\ call[t].tid # 0
      /\ call[t].step >= 2 /\ call[t].step # Length(call[t].op)
  BY <1>1 DEF Length, IInv, Control, Calls, Fitting
<1>3. tid \in Nat \ {0} /\ tid' = tid /\ tid \in Nat
  BY <1>2, Numbers DEF IInv, Control, Calls, Fitting, SendData
<1>4. /\ UNCHANGED counts /\ UNCHANGED <<in, dev>> /\ Advance(t)
      /\ out' = Append(out, Container("data", "none", tid))
  BY DEF SendData
<1>5. /\ call'[t].op = call[t].op /\ call'[t].step = call[t].step + 1
      /\ call'[t].tid # 0
  BY <1>2, <1>4, AdvanceEffect DEF IInv, Control
<1> DEFINE C == Containers(OutKinds, tid)
<1>6. PICK e \in C : e \in Containers({"data"}, tid) /\ out' = Append(out, e)
  <2>1. "none" \in Codings /\ "data" \in OutKinds /\ tid \in 1..tid
    BY <1>3 DEF Codings, OutKinds
  <2> QED
    BY <2>1, <1>3, <1>4, ContainerIn
<1>7. ASSUME Sliced
      PROVE  IF since THEN Exchange(t)' \/ Strayed(t)' ELSE Facing(t)'
  <2>1. During(t)
    BY <1>2, <1>7 DEF CutInv
  <2>2. Exchange(t) => Exchange(t)'
    BY SendDataOn DEF IInv
  <2>3. Strayed(t) => Strayed(t)'
    <3> SUFFICES ASSUME Strayed(t)
                 PROVE  Strayed(t)'
      OBVIOUS
    <3>1. call[t].step = 2 /\ call[t].op \in {"mkdir", "send"} /\ call'[t].step = 3
      BY <1>1, <1>5 DEF Strayed
    <3>2. PICK d \in Containers({"data"}, tid), c \in DataOut :
            out = <<d>> \o <<Container("command", c, tid)>>
      BY <3>1 DEF Strayed, Class
    <3>3. out' = <<d>> \o <<Container("command", c, tid), e>>
      BY <3>2, <1>6, Pair
    <3> QED
      BY <3>1, <3>3, <1>3, <1>4, <1>5, <1>6 DEF Strayed
  <2>4. Facing(t) => Facing(t)'
    <3> SUFFICES ASSUME Facing(t)
                 PROVE  Facing(t)'
      OBVIOUS
    <3>1. call[t].step = 2 /\ call[t].op \in {"mkdir", "send"} /\ call'[t].step = 3
      BY <1>1, <1>5 DEF Facing
    <3>2. CASE Refused
      <4>1. out' = <<e>> /\ in' = in /\ dev' = Ready
        BY <3>2, <1>4, <1>6, Short DEF Refused
      <4>2. ErrorComes' /\ Loose'
        BY <4>1, <3>2, <1>3, <1>6 DEF Refused, ErrorComes, Loose
      <4> QED
        BY <4>2, <3>1, <1>5 DEF Facing
    <3>3. CASE \E c \in Containers({"command"}, tid) : Dropping(<<c>>)
      <4>1. PICK c \in Containers({"command"}, tid) : Dropping(<<c>>)
        BY <3>3
      <4>2. c \in C
        BY ContainersGrow, <1>3 DEF OutKinds
      <4>3. Dropping(<<c, e>>)'
        <5>1. <<c>> \in Seq(C) /\ Append(<<c>>, e) = <<c, e>>
          BY <4>2, Short
        <5>2. Dropping(Append(<<c>>, e))'
          <6>1. /\ <<c>> \in Seq(Containers(OutKinds, tid'))
                /\ e \in Containers(OutKinds, tid')
            BY <5>1, <1>3, <1>6
          <6>2. tid' \in Nat /\ tid' >= tid /\ in' = in /\ dev' = dev
            BY <1>3, <1>4
          <6> QED
            BY <4>1, <6>1, <6>2, <1>3, <1>6, DroppingGrows
        <5> QED
          BY <5>1, <5>2
      <4> QED
        BY <4>3, <3>1, <1>3, <1>5, <1>6 DEF Facing
    <3> QED
      BY <3>1, <3>2, <3>3 DEF Facing
  <2> QED
    BY <2>1, <2>2, <2>3, <2>4 DEF During
<1> QED
  BY <1>2, <1>4, <1>5, <1>7, SlicedStep

(* Something the host has sent is still on its way. *)
LEMMA DroppingSends ==
  ASSUME NEW own \in Seq(Containers(OutKinds, tid)), own # <<>>, Dropping(own)
  PROVE  in = <<>> /\ out # <<>>
<1>1. ASSUME NEW x, NEW q \in Seq(Containers(OutKinds, tid))
      PROVE  <<x>> \o q # <<>>
  OBVIOUS
<1>2. \A p \in Containers({"part"}, tid) : <<p>> \o own # <<>>
  BY <1>1
<1>3. \A k \in Containers({"command"}, tid) : <<k>> \o own # <<>>
  BY <1>1
<1>4. \A k \in Containers({"command"}, tid), p \in Containers({"part"}, tid) :
         <<k>> \o (<<p>> \o own) # <<>>
  <2>1. ASSUME NEW p \in Containers({"part"}, tid)
        PROVE  <<p>> \o own \in Seq(Containers(OutKinds, tid))
    <3>1. p \in Containers(OutKinds, tid)
      BY DEF Containers, OutKinds
    <3> QED
      BY <3>1
  <2> QED
    BY <2>1, <1>1
<1> QED
  BY <1>2, <1>3, <1>4 DEF Dropping

(* What a call that comes to a read after the cut may find: an answer to its own command, *)
(* or the refusal of the data that were cut.                                              *)
LEMMA SlicedRead ==
  ASSUME IInv, CutInv, Sliced, NEW t \in Threads, call[t].tid # 0, in # <<>>
  PROVE  /\ call[t].op # "open"
         /\ since => Exchange(t)
         /\ ~since => \/ call[t].step = 2 /\ Refused
                      \/ /\ call[t].step = 3 /\ call[t].op \in {"mkdir", "send"}
                         /\ ErrorComes /\ Loose
<1>1. During(t)
  BY DEF CutInv
<1>2. call[t].op # "open"
  BY DEF CutInv, Sliced, IInv, Control, Alone
<1>3. since => Exchange(t)
  <2> HAVE since
  <2>1. Exchange(t) \/ Strayed(t)
    BY <1>1, Zenon DEF During
  <2> QED
    BY <2>1 DEF Strayed
<1>4. ~since => Facing(t)
  BY <1>1, Zenon DEF During
<1>5. ~Settled /\ \A own : ~Dropping(own)
  BY DEF Settled, Dropping
<1> QED
  BY <1>2, <1>3, <1>4, <1>5 DEF Facing

(* receive_data, *)
LEMMA ReceiveDataSliced ==
  ASSUME IInv, CutInv, NEW t \in Threads, ReceiveData(t)
  PROVE  CutInv'
<1>1. call[t].op \in {"open", "read"} /\ call[t].step = 2
  BY Places DEF IInv, Control, ReceiveData
<1>2. call[t].op # "none" /\ call[t].tid # 0
  BY <1>1 DEF IInv, Control, Calls, Fitting
<1>3. UNCHANGED counts /\ (Advance(t) \/ Throw(t)) /\ in # <<>>
  BY DEF ReceiveData, TakeIn
<1>4. ASSUME Sliced
      PROVE  IF call'[t].tid = 0 THEN in' = <<>> /\ Loose'
             ELSE IF since THEN Exchange(t)' \/ Strayed(t)' ELSE Facing(t)'
  <2>1. Refused \/ (since /\ WithData)
    BY <1>1, <1>2, <1>3, <1>4, SlicedRead, DataInPlace
  <2>2. Settled' => in' = <<>> /\ Loose'
    BY DEF Settled, Loose
  <2> QED
    BY <2>1, <2>2, ReceiveDataOn DEF IInv, Data
<1> QED
  BY <1>1, <1>2, <1>3, <1>4, SlicedStep

(* receive_data_to_file, *)
LEMMA ReceiveFileSliced ==
  ASSUME IInv, CutInv, NEW t \in Threads, ReceiveFile(t)
  PROVE  CutInv'
<1>1. call[t].op = "get" /\ call[t].step = 2
  BY Places DEF IInv, Control, ReceiveFile
<1>2. call[t].op # "none" /\ call[t].tid # 0
  BY <1>1 DEF IInv, Control, Calls, Fitting
<1>3. UNCHANGED counts /\ (Advance(t) \/ Throw(t)) /\ in # <<>>
  BY DEF ReceiveFile, TakeIn
<1>4. ASSUME Sliced
      PROVE  IF call'[t].tid = 0 THEN in' = <<>> /\ Loose'
             ELSE IF since THEN Exchange(t)' \/ Strayed(t)' ELSE Facing(t)'
  <2>1. Refused \/ (since /\ WithData)
    BY <1>1, <1>2, <1>3, <1>4, SlicedRead, DataInPlace
  <2>2. /\ call'[t].tid # 0 /\ call'[t].step = 3 /\ call'[t].op = "get"
        /\ Exchange(t)' /\ (Refused => Settled')
    BY <2>1, ReceiveFileOn DEF IInv, Data
  <2>3. ~since => Facing(t)'
    BY <2>1, <2>2 DEF Facing
  <2> QED
    BY <2>2, <2>3
<1> QED
  BY <1>1, <1>2, <1>3, <1>4, SlicedStep

(* receive_response, *)
LEMMA ReceiveResponseSliced ==
  ASSUME IInv, CutInv, NEW t \in Threads, ReceiveResponse(t)
  PROVE  CutInv'
<1>1. \/ call[t].op \in {"open", "read", "get", "mkdir", "send"} /\ call[t].step = 3
      \/ call[t].op \in {"close", "delete"} /\ call[t].step = 2
      \/ call[t].op = "open" /\ call[t].step = 5
      \/ call[t].op = "send" /\ call[t].step = 6
  BY Places DEF IInv, Control, ReceiveResponse
<1>2. call[t].op # "none" /\ call[t].step >= 2 /\ call[t].tid # 0
  BY <1>1 DEF IInv, Control, Calls, Fitting
<1>3. /\ UNCHANGED <<counts, tid, out, dev>> /\ in # <<>>
      /\ Advance(t) \/ Throw(t)
  BY DEF ReceiveResponse, TakeIn, Is
<1>4. ASSUME Sliced
      PROVE  IF call'[t].tid = 0 THEN in' = <<>> /\ Loose'
             ELSE IF since THEN Exchange(t)' \/ Strayed(t)' ELSE Facing(t)'
  <2>1. CASE since
    <3>1. Answered
      BY <2>1, <1>2, <1>3, <1>4, SlicedRead, ResponsePlace DEF ReceiveResponse, IInv
    <3>2. Settled' /\ (call'[t].tid = 0 \/ Exchange(t)')
      BY <3>1, ReceiveResponseOn DEF IInv, Data
    <3> QED
      BY <3>2, <2>1 DEF Settled, Loose
  <2>2. CASE ~since
    <3>1. /\ ErrorComes /\ Loose
          /\ call[t].step = Length(call[t].op) \/ call[t].op \notin {"open", "close"}
      <4>1. Refused => ErrorComes /\ Loose
        BY DEF Refused, ErrorComes, Loose
      <4>2. ErrorComes /\ Loose
        BY <4>1, <2>2, <1>2, <1>3, <1>4, SlicedRead
      <4>3. call[t].op # "open"
        BY <1>2, <1>3, <1>4, SlicedRead
      <4> QED
        BY <4>2, <4>3, <1>1 DEF Length
    <3>2. PICK r \in Containers({"response"}, tid) : in = <<r>> /\ r.code = "Error"
      BY <3>1 DEF ErrorComes
    <3>3. Head(in) = r /\ r.kind = "response" /\ Is("response") /\ ~Is("data") /\ ~Is("rest")
      BY <3>2, Short DEF Containers, Is
    <3>4. TakeIn(t)
      BY <3>3 DEF ReceiveResponse
    <3>5. in' = <<>>
      BY <3>2, <3>3, <3>4, TakeInEffect DEF IInv, Data
    <3>6. Loose'
      BY <3>1, <1>3 DEF Loose
    <3>7. call'[t].tid = 0
      <4>1. Throw(t) \/ (Advance(t) /\ call[t].op = "close")
        BY <3>2, <3>3 DEF ReceiveResponse, Accepts
      <4>2. Throw(t) => call'[t].tid = 0
        BY EndEffect DEF Throw, End, IInv, Control
      <4>3. Advance(t) /\ call[t].step = Length(call[t].op) => call'[t].tid = 0
        BY <1>2, AdvanceEffect DEF IInv, Control
      <4> QED
        BY <4>1, <4>2, <4>3, <3>1
    <3> QED
      BY <3>5, <3>6, <3>7
  <2> QED
    BY <2>1, <2>2
<1> QED
  BY <1>2, <1>3, <1>4, SlicedStep

(* a read that times out *)
LEMMA TimesOutSliced ==
  ASSUME IInv, CutInv, NEW t \in Threads, TimesOut(t)
  PROVE  CutInv'
<1>1. call[t].op # "none" /\ call[t].step \in {2, 3, 5, 6}
  BY Places DEF IInv, Control, TimesOut, Reading
<1>2. call[t].step >= 2 /\ call[t].tid # 0
  BY <1>1 DEF IInv, Control, Calls, Fitting
<1>3. /\ UNCHANGED <<counts, tid, in, out, dev>> /\ in = <<>> /\ out = <<>> /\ Throw(t)
  BY DEF TimesOut, NothingComes, pipes
<1>4. call'[t].tid = 0
  BY <1>3, EndEffect DEF Throw, End, IInv, Control
<1>5. ASSUME Sliced
      PROVE  in' = <<>> /\ Loose'
  <2>1. During(t)
    BY <1>2, <1>5 DEF CutInv
  <2>2. CASE since
    <3>1. ~Strayed(t)
      <4>1. ASSUME NEW d, NEW x
            PROVE  <<d>> \o <<x>> # <<>>
        BY Pair, Short
      <4>2. ASSUME NEW d, NEW x, NEW y
            PROVE  <<d>> \o <<x, y>> # <<>>
        OBVIOUS
      <4> QED
        BY <4>1, <4>2, <1>3 DEF Strayed
    <3>2. Exchange(t)
      BY <3>1, <2>1, <2>2, Zenon DEF During
    <3>3. Settled'
      BY <3>2, TimesOutOn DEF IInv
    <3> QED
      BY <3>3 DEF Settled, Loose
  <2>3. CASE ~since
    <3>1. Facing(t)
      BY <2>1, <2>3, Zenon DEF During
    <3>2. \A x, y : <<x>> # <<>> /\ <<x, y>> # <<>>
      BY Short
    <3>3. ASSUME NEW c \in Containers({"command"}, tid)
          PROVE  ~Dropping(<<c>>)
      <4>1. c \in Containers(OutKinds, tid)
        BY DEF Containers, OutKinds
      <4>2. <<c>> \in Seq(Containers(OutKinds, tid))
        BY <4>1
      <4> QED
        BY <4>2, <3>2, <1>3, DroppingSends
    <3>4. ASSUME NEW c \in Containers({"command"}, tid), NEW d \in Containers({"data"}, tid)
          PROVE  ~Dropping(<<c, d>>)
      <4>1. c \in Containers(OutKinds, tid) /\ d \in Containers(OutKinds, tid)
        BY DEF Containers, OutKinds
      <4>2. <<c, d>> \in Seq(Containers(OutKinds, tid))
        BY <4>1
      <4> QED
        BY <4>2, <3>2, <1>3, DroppingSends
    <3>5. ~Refused /\ ~ErrorComes
      BY <3>2, <1>3 DEF Refused, ErrorComes
    <3>6. Settled
      BY <3>1, <3>3, <3>4, <3>5 DEF Facing
    <3> QED
      BY <3>6, <1>3 DEF Settled, Loose
  <2> QED
    BY <2>2, <2>3
<1> QED
  BY <1>1, <1>2, <1>3, <1>4, <1>5, SlicedStep

(* and a bulk call that fails keep what the wire holds after the cut. *)
LEMMA FailsSliced ==
  ASSUME IInv, CutInv, NEW t \in Threads, Fails(t)
  PROVE  CutInv'
<1>1. UNCHANGED <<cut, quits>> /\ End(t, FALSE) /\ since' = (cut # "none")
  BY DEF Fails, restarts, Throw
<1>2. ~Sliced'
  <2>1. faults' # 0
    BY Numbers DEF Fails, IInv
  <2> QED
    BY <2>1 DEF Sliced
<1>3. cut' = "none" => ~since'
  BY <1>1, Zenon
<1>4. link' = link \/ link' # "opening"
  BY <1>1 DEF End
<1> QED
  BY <1>1, <1>2, <1>3, <1>4 DEF CutInv

(* The cut itself leaves the device inside the data, or yet to take their command. *)
LEMMA CutSliced ==
  ASSUME IInv, CutInv, NEW t \in Threads, Cut(t)
  PROVE  CutInv'
<1>1. /\ UNCHANGED <<tid, dev, faults, quits, crossed, since>> /\ cut = "none"
      /\ End(t, FALSE)
      /\ CutDownload(t) \/ CutUpload(t)
  BY DEF Cut, restarts
<1>2. /\ call[t].op \in {"get", "send"} /\ call[t].tid # 0
      /\ CutUpload(t) => call[t].op = "send" /\ call[t].step = 5
  <2>1. /\ \/ call[t].op = "get" /\ call[t].step = 2
           \/ call[t].op = "send" /\ call[t].step = 5
        /\ CutUpload(t) => call[t].op = "send" /\ call[t].step = 5
    BY <1>1, Places DEF CutDownload, CutUpload, IInv, Control
  <2> QED
    BY <2>1 DEF IInv, Control, Calls, Fitting
<1>3. link' # "opening"
  <2>1. t = "worker"
    BY <1>2 DEF IInv, Control, Calls, Fitting, Operations
  <2>2. link = "open"
    BY <1>2, <2>1 DEF IInv, Control, Alone
  <2>3. link' = link
    BY <1>1, <1>2 DEF End
  <2> QED
    BY <2>2, <2>3
<1>4. cut' # "none"
  BY <1>1 DEF CutDownload, CutUpload
<1>5. call'[t].tid = 0 /\ \A u \in Threads : u # t => call'[u] = call[u]
  BY <1>1, EndEffect DEF End, IInv, Control
<1>6. ASSUME Sliced'
      PROVE  Apart' /\ \A u \in Threads : call'[u].tid = 0
  <2>1. Quiet
    BY <1>1, <1>6 DEF Sliced, Quiet
  <2>2. \A u \in Threads : call'[u].tid = 0
    BY <2>1, <1>2, <1>5, OnTheWire DEF Quiet, IInv
  <2>3. Undisturbed
    BY <2>1, <1>2, QuietCalls DEF IInv
  <2>4. CutUpload(t) /\ cut' = "send"
    BY <1>1, <1>6 DEF Sliced, CutDownload
  <2>5. Exchange(t) /\ call[t].op = "send" /\ call[t].step = 5
    BY <2>3, <2>4, <1>2 DEF IInv, Data, Paired
  <2>6. Pending(DataOut) \/ (Taking /\ in = <<>> /\ out = <<>>)
    BY <2>5 DEF Exchange
  <2>7. tid \in Nat \ {0}
    BY <2>1, <1>2, OnTheWire DEF Quiet, IInv
  <2>8. PICK p \in Containers({"part"}, tid) :
          in' = in /\ (out' = out \/ out' = Append(out, p))
    <3>1. Container("part", "none", tid) \in Containers({"part"}, tid)
      BY <2>4, PartInPipe DEF CutUpload, IInv, Data
    <3> QED
      BY <3>1, <2>4 DEF CutUpload
  <2>9. \A x, y : /\ <<x>> \o <<>> = <<x>> /\ Append(<<>>, x) = <<x>>
                  /\ Append(<<x>>, y) = <<x>> \o (<<y>> \o <<>>)
    <3>1. \A x : <<x>> \o <<>> = <<x>>
      OBVIOUS
    <3>2. ASSUME NEW x, NEW y
          PROVE  Append(<<x>>, y) = <<x>> \o <<y>>
      <4>1. <<x>> \o <<y>> = <<x, y>>
        BY Pair
      <4> QED
        BY <4>1, Short
    <3>3. \A x : Append(<<>>, x) = <<x>>
      BY Short
    <3>4. ASSUME NEW x, NEW y
          PROVE  Append(<<x>>, y) = <<x>> \o (<<y>> \o <<>>)
      <4>1. <<y>> \o <<>> = <<y>>
        BY <3>1
      <4> QED
        BY <4>1, <3>2
    <3> QED
      BY <3>1, <3>3, <3>4
  <2>10. Dropping(<<>>)'
    <3>1. CASE Taking /\ in = <<>> /\ out = <<>>
      <4>1. out' = <<>> \/ out' = <<p>> \o <<>>
        BY <3>1, <2>8, <2>9
      <4>2. in' = <<>> /\ dev'.phase = "receiving" /\ p \in Containers({"part"}, tid')
        BY <3>1, <2>8, <1>1 DEF Taking
      <4> QED
        BY <4>1, <4>2 DEF Dropping
    <3>2. CASE Pending(DataOut)
      <4>1. PICK c \in DataOut : out = <<Container("command", c, tid)>>
        BY <3>2 DEF Pending
      <4>2. PICK k \in Containers({"command"}, tid) :
              k = Container("command", c, tid) /\ k.code \in DataOut
        <5>1. c \in Codings /\ tid \in 1..tid /\ tid \in Nat
          BY <2>7 DEF Codings, Commands
        <5>2. Container("command", c, tid) \in Containers({"command"}, tid)
          BY <5>1, ContainerIn
        <5>3. Container("command", c, tid).code = c
          BY DEF Container
        <5> QED
          BY <5>2, <5>3
      <4>3. out' = <<k>> \o <<>> \/ out' = <<k>> \o (<<p>> \o <<>>)
        BY <4>1, <4>2, <2>8, <2>9
      <4>4. in' = <<>> /\ dev' = Ready /\ tid' = tid
        BY <3>2, <2>8, <1>1 DEF Pending
      <4> QED
        BY <4>2, <4>3, <4>4 DEF Dropping
    <3> QED
      BY <3>1, <3>2, <2>6
  <2>11. ~since'
    <3>1. ~since
      BY <1>1, Zenon DEF CutInv
    <3> QED
      BY <3>1, <1>1, Zenon
  <2>12. Apart'
    BY <2>10, <2>11, Zenon DEF Apart
  <2> QED
    BY <2>2, <2>12
<1>7. quits' \in Nat
  BY <1>1 DEF CutInv
<1> QED
  BY <1>3, <1>4, <1>6, <1>7 DEF CutInv

(* What is on the wire stays there. *)
LEMMA SlicedFrame ==
  ASSUME UNCHANGED <<in, out, dev, tid, granted, link, since>>
  PROVE  /\ Apart => Apart'
         /\ \A t \in Threads : call'[t] = call[t] /\ During(t) => During(t)'
<1>1. (since' <=> since) /\ (Loose => Loose')
  BY DEF Loose
<1>2. Dropping(<<>>) => Dropping(<<>>)'
  BY DEF Dropping
<1>3. Apart => Apart'
  <2>1. in = <<>> => in' = <<>>
    OBVIOUS
  <2> QED
    BY <1>1, <1>2, <2>1, Zenon DEF Apart
<1>4. ASSUME NEW t \in Threads, call'[t] = call[t]
      PROVE  During(t) => During(t)'
  <2>1. Exchange(t) => Exchange(t)'
    BY <1>4 DEF Exchange, Settled, Pending, Refused, WithData, Rejecting, Answered, Taking,
       DataBehind
  <2>2. Strayed(t) => Strayed(t)'
    BY <1>4 DEF Strayed
  <2>3. Facing(t) => Facing(t)'
    <3>1. \A own : Dropping(own) => in' = in /\ out' = out /\ dev' = dev /\ tid' = tid
      OBVIOUS
    <3>2. ASSUME NEW c \in Containers({"command"}, tid), Dropping(<<c>>)
          PROVE  Dropping(<<c>>)'
      BY <3>2 DEF Dropping
    <3>3. ASSUME NEW c \in Containers({"command"}, tid), NEW d \in Containers({"data"}, tid),
                 Dropping(<<c, d>>)
          PROVE  Dropping(<<c, d>>)'
      BY <3>3 DEF Dropping
    <3>4. (Refused => Refused') /\ (Settled => Settled') /\ (ErrorComes => ErrorComes')
      BY DEF Refused, Settled, ErrorComes
    <3>5. tid' = tid
      OBVIOUS
    <3> QED
      BY <1>1, <1>4, <3>2, <3>3, <3>4, <3>5 DEF Facing
  <2> QED
    BY <1>1, <2>1, <2>2, <2>3, Zenon DEF During
<1> QED
  BY <1>3, <1>4

(* So do the beginning of a call, *)
LEMMA AskSliced ==
  ASSUME IInv, CutInv, NEW t \in Threads, NEW op \in Offered, Ask(t, op)
  PROVE  CutInv'
<1>1. UNCHANGED <<link, tid, in, out, dev, granted, faults, cut, quits, crossed, since>>
  BY DEF Ask, session, pipes, device, restarts
<1>2. /\ call[t].tid = 0 /\ call'[t].tid = 0
      /\ \A u \in Threads : u # t => call'[u] = call[u]
  BY DEF Ask, Idle, IInv, Control, Calls
<1>3. Sliced' <=> Sliced
  BY <1>1 DEF Sliced
<1>4. /\ Apart => Apart'
      /\ \A u \in Threads : call'[u] = call[u] /\ During(u) => During(u)'
  BY <1>1, SlicedFrame
<1>5. (\A u \in Threads : call'[u].tid = 0) => \A u \in Threads : call[u].tid = 0
  BY <1>2
<1>6. Sliced' /\ (\A u \in Threads : call'[u].tid = 0) => Apart'
  BY <1>3, <1>4, <1>5 DEF CutInv
<1>7. Sliced' => \A u \in Threads : call'[u].tid # 0 => During(u)'
  BY <1>2, <1>3, <1>4 DEF CutInv
<1>8. cut' = "none" => ~since'
  BY <1>1, Zenon DEF CutInv
<1> QED
  BY <1>1, <1>6, <1>7, <1>8 DEF CutInv

(* disconnect(), *)
LEMMA CloseSliced ==
  ASSUME IInv, CutInv, NEW t \in Threads, Close(t)
  PROVE  CutInv'
<1>1. /\ UNCHANGED <<tid, in, out, dev, faults, cut, quits, since>>
      /\ link' \in {"closing", "lost"}
      /\ crossed' = (crossed \/ \E u \in Threads : call[u] # Idle)
  BY DEF Close, pipes, device
<1>2. ASSUME Sliced'
      PROVE  Apart' /\ \A u \in Threads : call'[u].tid = 0
  <2>1. ~crossed /\ \A u \in Threads : call[u] = Idle
    <3>1. ~crossed'
      BY <1>2 DEF Sliced
    <3> QED
      BY <1>1, <3>1, Zenon
  <2>2. Sliced
    BY <1>1, <1>2, <2>1 DEF Sliced
  <2>3. \A u \in Threads : call[u].tid = 0 /\ call'[u].tid = 0
    BY <2>1 DEF Close, Idle, IInv, Control, Calls
  <2>4. Apart
    BY <2>2, <2>3 DEF CutInv
  <2>5. Apart'
    <3>1. (since' <=> since) /\ (Loose => Loose')
      BY <1>1 DEF Loose
    <3>2. Dropping(<<>>) => Dropping(<<>>)'
      BY <1>1 DEF Dropping
    <3>3. in' = in
      BY <1>1
    <3> QED
      BY <2>4, <3>1, <3>2, <3>3, Zenon DEF Apart
  <2> QED
    BY <2>3, <2>5
<1>3. cut' = "none" => ~since'
  BY <1>1, Zenon DEF CutInv
<1>4. quits' \in Nat /\ link' # "opening"
  BY <1>1 DEF CutInv
<1> QED
  BY <1>2, <1>3, <1>4 DEF CutInv

(* the next attempt to connect, *)
LEMMA RetrySliced ==
  ASSUME CutInv, Retry
  PROVE  CutInv'
<1>1. UNCHANGED <<cut, quits, since>> /\ cut = "none"
  BY DEF Retry, Undisturbed
<1>2. ~since'
  BY <1>1, Zenon DEF CutInv
<1> QED
  BY <1>1, <1>2 DEF CutInv, Sliced

(* the end of the process, *)
LEMMA QuitSliced ==
  ASSUME CutInv, Quit
  PROVE  CutInv'
<1>1. UNCHANGED <<cut, since>> /\ quits' = quits + 1 /\ link' = "gone"
  BY DEF Quit
<1>2. quits' \in Nat /\ quits' # 0
  BY <1>1 DEF CutInv
<1>3. cut' = "none" => ~since'
  BY <1>1, Zenon DEF CutInv
<1> QED
  BY <1>1, <1>2, <1>3 DEF CutInv, Sliced

(* and where nothing changes. *)
LEMMA StutterSliced ==
  ASSUME CutInv, UNCHANGED vars
  PROVE  CutInv'
<1>1. /\ UNCHANGED <<link, tid, call, in, out, dev, granted>>
      /\ UNCHANGED <<faults, cut, quits, crossed, since>>
  BY DEF vars, session, pipes, device, counts, restarts
<1>2. Sliced' <=> Sliced
  BY <1>1 DEF Sliced
<1>3. (Apart => Apart') /\ \A u \in Threads : During(u) => During(u)'
  BY <1>1, SlicedFrame
<1>4. cut' = "none" => ~since'
  BY <1>1, Zenon DEF CutInv
<1> QED
  BY <1>1, <1>2, <1>3, <1>4 DEF CutInv

(* What the wire holds after an upload was cut, until it is in step again. *)
THEOREM CutInvariance == Spec => []CutInv
<1>1. Init => CutInv
  <2> SUFFICES ASSUME Init
               PROVE  CutInv
    OBVIOUS
  <2>1. quits = 0 /\ cut = "none"
    BY DEF Init
  <2>2. ~since
    BY Zenon DEF Init
  <2> QED
    BY <2>1, <2>2 DEF CutInv, Sliced
<1>2. IInv /\ CutInv /\ [Next]_vars => CutInv'
  <2> SUFFICES ASSUME IInv, CutInv, [Next]_vars
               PROVE  CutInv'
    OBVIOUS
  <2>1. CASE Device
    BY <2>1, DeviceSliced
  <2>2. CASE Quit
    BY <2>2, QuitSliced
  <2>3. CASE Retry
    BY <2>3, RetrySliced
  <2>4. ASSUME NEW t \in Threads, NEW op \in Offered, Ask(t, op)
        PROVE  CutInv'
    BY <2>4, AskSliced
  <2>5. ASSUME NEW t \in Threads, Close(t)
        PROVE  CutInv'
    BY <2>5, CloseSliced
  <2>6. ASSUME NEW t \in Threads, Goes(t)
        PROVE  CutInv'
    BY <2>6, SendCommandSliced, SendDataSliced, ReceiveDataSliced, ReceiveFileSliced,
       ReceiveResponseSliced, TimesOutSliced DEF Goes
  <2>7. ASSUME NEW t \in Threads, Fails(t)
        PROVE  CutInv'
    BY <2>7, FailsSliced
  <2>8. ASSUME NEW t \in Threads, Cut(t)
        PROVE  CutInv'
    BY <2>8, CutSliced
  <2>9. CASE UNCHANGED vars
    BY <2>9, StutterSliced
  <2> QED
    BY <2>1, <2>2, <2>3, <2>4, <2>5, <2>6, <2>7, <2>8, <2>9 DEF Next
<1> QED
  BY <1>1, <1>2, Invariance, PTL DEF Spec

(* An upload cut before its last chunk costs one call: when the next has ended, refused,   *)
(* host and device are in step again, whatever that call was and whatever follows it.      *)
THEOREM CutHeals == Spec => []CutUploadHeals
<1>1. IInv /\ CutInv => CutUploadHeals
  <2> SUFFICES ASSUME IInv, CutInv, AtRest, faults = 0, quits = 0, ~crossed, cut = "send", since
               PROVE  InStep
    BY DEF CutUploadHeals
  <2>1. Sliced /\ link = "open" /\ lock = Nobody
    BY DEF AtRest, Sliced
  <2>2. \A t \in Threads : call[t].tid = 0
    BY <2>1, NobodyOnTheWire DEF IInv
  <2>3. in = <<>> /\ Loose
    <3>1. Apart
      BY <2>1, <2>2 DEF CutInv
    <3> QED
      BY <3>1, Zenon DEF Apart
  <2>4. \A k \in 1..Len(out) : out[k].kind = "data"
    <3>1. ASSUME NEW d \in Containers({"data"}, tid), out = <<d>>
          PROVE  \A k \in 1..Len(out) : out[k].kind = "data"
      BY <3>1 DEF Containers
    <3> QED
      BY <2>3, <3>1 DEF Loose
  <2> QED
    BY <2>3, <2>4 DEF InStep, Loose
<1> QED
  BY <1>1, Invariance, CutInvariance, PTL

=============================================================================
