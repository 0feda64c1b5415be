--------------------------- MODULE BrowserProofs ---------------------------
(***************************************************************************)
(* Proofs about Browser for any tree and any number of clicks and          *)
(* sessions.  The invariant follows a listing from the device to the       *)
(* screen: whose children the entries are, and those the monitor is about  *)
(* to add; whose files a state has on its way; and what the table was      *)
(* built of.                                                               *)
(***************************************************************************)
EXTENDS Browser, FiniteSetTheorems, SequenceTheorems, TLAPS

(* What the page can call; a folder is opened from the list of its parent, or  *)
(* from a list of which that is not known.                                     *)
Ops == {"get_state", "navigate_remote", "navigate_remote_up", "navigate_remote_to",
        "set_storage", "refresh_remote", "delete_remote", "start_upload", "reconnect"}

MeansWell(c) ==
  /\ c.op = "set_storage" => c.arg \in Storages
  /\ c.op = "navigate_remote_to" => c.arg \in Nat \ {0}
  /\ c.op = "navigate_remote" => c.arg \in Dirs /\ (c.from # Null => Parent[c.arg] = c.from)

GoodCalls ==
  {c \in [op : Ops, arg : Objects \cup Storages \cup Nat \cup {Null}, from : Places \cup {Null}] :
     MeansWell(c)}

(* What the variables range over. *)
TypedApp ==
  /\ session \in Nat /\ connected \in BOOLEAN /\ refreshing \in BOOLEAN
  /\ objects \subseteq Objects /\ stack \in Seq(Places) /\ entries \subseteq Objects
  /\ mon \in {"idle", "refresh", "lock", "listing"} /\ todo \subseteq Objects
  /\ skipped \in BOOLEAN /\ overtaken \in BOOLEAN

TypedMain ==
  /\ queue \in Seq(GoodCalls)
  /\ conn \in BOOLEAN \cup {Null}
  /\ half \in States \cup {Null} /\ answer \in States \cup {Null, Nil}

TypedPage ==
  /\ poll \in {"timer", "asked"} /\ S \in States
  /\ rows \subseteq Objects /\ fp \subseteq Objects \cup {Null} /\ handlers \in 0..MaxHandlers

TypedUser ==
  /\ sel \subseteq Objects /\ ctx \in Objects \cup {Null} /\ clicks \in Nat
  /\ careless \in BOOLEAN

Typed == TypedApp /\ TypedMain /\ TypedPage /\ TypedUser

(* At most one get_state and its answer are on their way, while the page waits. *)
Waiting ==
  /\ conn # Null \/ half # Null => Is("get_state")
  /\ conn = Null \/ half = Null
  /\ poll = "asked" <=> (Sent("get_state") # {} \/ answer # Null)
  /\ Sent("get_state") # {} => (answer = Null /\ \A j, k \in Sent("get_state") : j = k)

(* Some files are all in the folder on top of a path. *)
InFolder(hs, path) == hs # {} => (path # <<>> /\ \A h \in hs : Parent[h] = Last(path))

(* The entries are those of the top, but for what navigation skipped. *)
Listing ==
  /\ refreshing <=> mon \in {"lock", "listing"}
  /\ mon = "lock" => entries = {}
  /\ mon = "listing" => connected
  /\ ~connected => entries = {}
  /\ ~skipped => InFolder(entries, stack)
  /\ (mon = "listing" /\ ~skipped) => InFolder(todo, stack)

(* So they are in what was collected of this session, and in what was told. *)
Collected ==
  half # Null =>
    /\ half.session <= session
    /\ (half.session = session /\ connected) =>
         (half.stack = stack /\ (half.good => ~skipped))

Told ==
  /\ answer \in States => (answer.good => InFolder(answer.files, answer.stack))
  /\ S.good => InFolder(S.files, S.stack)

(* The table is built of the list the fingerprint is of. *)
Built ==
  /\ rows = (IF fp = {Null} THEN {} ELSE fp)
  /\ rows \subseteq S.files
  /\ (S.connected /\ ~S.refreshing) => fp = S.files

(* Without a change of the table under it the selection is in the table. *)
Careful == ~careless => (sel \subseteq rows /\ ctx \in rows \cup {Null})

IInv ==
  Typed /\ Waiting /\ Listing /\ Collected /\ Told /\ Built /\ Careful /\ PathIsOfTheTree

------------------------------------------------------------------------------
(* Calls and the queue *)

(* Null is no handle, no storage, no state; nor is Nil. *)
LEMMA NoHandle ==
  /\ Null \notin Places /\ Null \notin Objects /\ Null \notin States /\ Nil \notin States
  /\ Null \notin BOOLEAN
  /\ Null # Nil
  BY TreeAssumption DEF Places, Objects

(* The fields of a state. *)
LEMMA Fields ==
  ASSUME NEW st \in States
  PROVE  /\ st.connected \in BOOLEAN /\ st.stack \in Seq(Places) /\ st.refreshing \in BOOLEAN
         /\ st.files \in SUBSET Objects /\ st.session \in Nat /\ st.good \in BOOLEAN
  BY DEF States

(* A call that means no folder, no storage and no depth is a good one. *)
LEMMA PlainCall ==
  ASSUME NEW op \in Ops \ {"set_storage", "navigate_remote", "navigate_remote_to"},
         NEW arg \in Objects \cup {Null}
  PROVE  Call(op, arg, Null) \in GoodCalls
  BY DEF Call, GoodCalls, MeansWell, Ops

(* Calls are added behind those on the queue. *)
LEMMA Grows ==
  ASSUME TypedMain, NEW calls \in Seq(GoodCalls), queue' = queue \o calls
  PROVE  /\ queue' \in Seq(GoodCalls)
         /\ \A op : Is(op) => Is(op)'
         /\ \A op : (\A k \in 1..Len(calls) : calls[k].op # op) => Sent(op)' = Sent(op)
         /\ Doomed' \subseteq Doomed \cup {calls[k].arg : k \in {k \in 1..Len(calls) :
                                                          calls[k].op = "delete_remote"}}
<1>1. /\ queue \in Seq(GoodCalls) /\ queue' \in Seq(GoodCalls)
      /\ Len(queue') = Len(queue) + Len(calls)
      /\ Len(queue) \in Nat /\ Len(calls) \in Nat
  BY DEF TypedMain
<1>2. \A k \in 1..Len(queue') :
        queue'[k] = IF k <= Len(queue) THEN queue[k] ELSE calls[k - Len(queue)]
  BY <1>1
<1>3. ASSUME NEW op, Is(op)
      PROVE  Is(op)'
  <2>1. queue # <<>> /\ Head(queue).op = op
    BY <1>3 DEF Is
  <2>2. Len(queue) > 0 /\ Head(queue) = queue[1]
    BY <2>1, <1>1
  <2>3. queue' # <<>> /\ Head(queue') = queue'[1] /\ queue'[1] = queue[1]
    BY <2>2, <1>1, <1>2
  <2> QED
    BY <2>1, <2>2, <2>3 DEF Is
<1>4. ASSUME NEW op, \A k \in 1..Len(calls) : calls[k].op # op
      PROVE  Sent(op)' = Sent(op)
  <2>1. ASSUME NEW k \in 1..Len(queue'), queue'[k].op = op
        PROVE  k \in 1..Len(queue) /\ queue[k].op = op
    <3>1. CASE k <= Len(queue)
      BY <3>1, <2>1, <1>1, <1>2
    <3>2. CASE ~(k <= Len(queue))
      <4>1. k - Len(queue) \in 1..Len(calls) /\ queue'[k] = calls[k - Len(queue)]
        BY <3>2, <1>1, <1>2
      <4> QED
        BY <4>1, <2>1, <1>4
    <3> QED
      BY <3>1, <3>2
  <2>2. ASSUME NEW k \in 1..Len(queue), queue[k].op = op
        PROVE  k \in 1..Len(queue') /\ queue'[k].op = op
    BY <2>2, <1>1, <1>2
  <2> QED
    BY <2>1, <2>2 DEF Sent
<1>5. ASSUME NEW x \in Doomed'
      PROVE  x \in Doomed \cup {calls[k].arg : k \in {k \in 1..Len(calls) :
                                                      calls[k].op = "delete_remote"}}
  <2>1. PICK k \in 1..Len(queue') : queue'[k].op = "delete_remote" /\ x = queue'[k].arg
    BY <1>5 DEF Doomed, Sent
  <2>2. CASE k <= Len(queue)
    <3>1. k \in 1..Len(queue) /\ queue'[k] = queue[k]
      BY <2>2, <1>1, <1>2
    <3> QED
      BY <3>1, <2>1 DEF Doomed, Sent
  <2>3. CASE ~(k <= Len(queue))
    <3>1. k - Len(queue) \in 1..Len(calls) /\ queue'[k] = calls[k - Len(queue)]
      BY <2>3, <1>1, <1>2
    <3> QED
      BY <3>1, <2>1
  <2> QED
    BY <2>2, <2>3
<1> QED
  BY <1>1, <1>3, <1>4, <1>5

(* The first call is taken off the queue. *)
LEMMA Shrinks ==
  ASSUME TypedMain, queue # <<>>, queue' = Tail(queue)
  PROVE  /\ Head(queue) \in GoodCalls /\ queue' \in Seq(GoodCalls)
         /\ \A op : Sent(op)' = {k - 1 : k \in Sent(op) \ {1}}
         /\ Doomed' \subseteq Doomed
<1>1. /\ queue \in Seq(GoodCalls) /\ queue' \in Seq(GoodCalls)
      /\ Len(queue) \in Nat \ {0} /\ Len(queue') = Len(queue) - 1
      /\ Head(queue) = queue[1]
  BY DEF TypedMain
<1>2. \A k \in 1..(Len(queue) - 1) : queue'[k] = queue[k + 1]
  BY <1>1
<1>3. ASSUME NEW op
      PROVE  Sent(op)' = {k - 1 : k \in Sent(op) \ {1}}
  <2>1. ASSUME NEW k \in Sent(op)'
        PROVE  k + 1 \in Sent(op) \ {1} /\ k = (k + 1) - 1
    BY <1>1, <1>2 DEF Sent
  <2>2. ASSUME NEW k \in Sent(op) \ {1}
        PROVE  k - 1 \in Sent(op)'
    <3>1. k - 1 \in 1..(Len(queue) - 1) /\ (k - 1) + 1 = k
      BY <1>1 DEF Sent
    <3> QED
      BY <3>1, <1>1, <1>2 DEF Sent
  <2> QED
    BY <2>1, <2>2
<1>4. ASSUME NEW x \in Doomed'
      PROVE  x \in Doomed
  <2>1. PICK k \in 1..Len(queue') : queue'[k].op = "delete_remote" /\ x = queue'[k].arg
    BY <1>4 DEF Doomed, Sent
  <2>2. k + 1 \in 1..Len(queue) /\ queue'[k] = queue[k + 1]
    BY <1>1, <1>2
  <2> QED
    BY <2>1, <2>2 DEF Doomed, Sent
<1> QED
  BY <1>1, <1>3, <1>4

(* The handles of a selection, as a list. *)
LEMMA Listed ==
  ASSUME NEW hs \in SUBSET Objects
  PROVE  LET list == SetToSeq(hs)
         IN  list \in Seq(hs)
<1> DEFINE n == Cardinality(hs)
<1>1. IsFiniteSet(hs)
  BY TreeAssumption, FS_Subset
<1>2. n \in Nat /\ \E f : f \in Bijection(1..n, hs)
  BY <1>1, FS_CardinalityType DEF ExistsBijection
<1>3. PICK f : f \in Bijection(1..n, hs)
  BY <1>2
<1>4. f \in [1..n -> hs] /\ IsInjective(f)
  BY <1>3 DEF Bijection, Injection, IsInjective
<1>5. SetToSeq(hs) \in [1..n -> hs]
  BY <1>4 DEF SetToSeq
<1> QED
  BY <1>5, <1>2

(* The calls of a list, one for each. *)
LEMMA CallsOf ==
  ASSUME NEW op \in {"delete_remote", "start_upload"},
         NEW list \in Seq(Objects \cup {Null})
  PROVE  /\ Calls(op, list) \in Seq(GoodCalls)
         /\ Len(Calls(op, list)) = Len(list)
         /\ \A k \in 1..Len(list) : Calls(op, list)[k].op = op /\ Calls(op, list)[k].arg = list[k]
<1>1. Len(list) \in Nat /\ \A k \in 1..Len(list) : list[k] \in Objects \cup {Null}
  OBVIOUS
<1>2. \A k \in 1..Len(list) : Call(op, list[k], Null) \in GoodCalls
  BY <1>1, PlainCall DEF Ops
<1>3. Calls(op, list) = [k \in 1..Len(list) |-> Call(op, list[k], Null)]
  BY DEF Calls
<1>4. Calls(op, list) \in Seq(GoodCalls) /\ Len(Calls(op, list)) = Len(list)
  BY <1>1, <1>2, <1>3
<1>5. \A k \in 1..Len(list) : Calls(op, list)[k] = Call(op, list[k], Null)
  BY <1>3
<1>6. \A arg : Call(op, arg, Null).op = op /\ Call(op, arg, Null).arg = arg
  BY DEF Call
<1> QED
  BY <1>4, <1>5, <1>6

------------------------------------------------------------------------------
(* What the three actors leave alone *)

(* The initial state. *)
LEMMA Starts == Init => IInv
<1> SUFFICES ASSUME Init
             PROVE  IInv
  OBVIOUS
<1>1. NoState \in States /\ NoState.files = {} /\ NoState.connected = FALSE
  BY DEF NoState, States
<1>2. TypedApp
  <2>1. <<>> \in Seq(Places)
    OBVIOUS
  <2> QED
    BY <2>1 DEF Init, TypedApp
<1>3. TypedMain /\ TypedUser
  <2>1. <<>> \in Seq(GoodCalls)
    OBVIOUS
  <2> QED
    BY <2>1 DEF Init, TypedMain, TypedUser
<1>4. TypedPage
  BY <1>1, BoundsAssumption DEF Init, TypedPage
<1>5. Waiting
  BY DEF Init, Waiting, Sent
<1>6. Listing /\ Collected /\ PathIsOfTheTree
  BY DEF Init, Listing, Collected, InFolder, PathIsOfTheTree
<1>7. Told
  BY <1>1, NoHandle DEF Init, Told, InFolder
<1>8. Built /\ Careful
  <2>1. fp = {} /\ rows = {} /\ sel = {} /\ ctx = Null /\ S = NoState
    BY DEF Init
  <2> QED
    BY <2>1, <1>1 DEF Built, Careful
<1> QED
  BY <1>2, <1>3, <1>4, <1>5, <1>6, <1>7, <1>8 DEF IInv, Typed

(* Whatever leaves the queue, the page and the user alone, as the monitor      *)
(* does, keeps what is said of them.                                           *)
LEMMA PageKeeps ==
  ASSUME IInv, UNCHANGED <<main, view, user>>
  PROVE  /\ TypedMain' /\ TypedPage' /\ TypedUser'
         /\ Waiting' /\ Told' /\ Built' /\ Careful' /\ Doomed' = Doomed
<1>1. /\ queue' = queue /\ conn' = conn /\ half' = half /\ answer' = answer
      /\ poll' = poll /\ S' = S /\ rows' = rows /\ fp' = fp /\ handlers' = handlers
      /\ sel' = sel /\ ctx' = ctx /\ clicks' = clicks /\ careless' = careless
  BY DEF main, told, view, user
<1>2. TypedMain' /\ TypedPage' /\ TypedUser'
  BY <1>1 DEF IInv, Typed, TypedMain, TypedPage, TypedUser
<1>3. Waiting' /\ Doomed' = Doomed
  BY <1>1 DEF IInv, Waiting, Is, Sent, Doomed
<1>4. Told' /\ Built' /\ Careful'
  BY <1>1 DEF IInv, Told, Built, Careful, InFolder
<1> QED
  BY <1>2, <1>3, <1>4

(* A call other than get_state leaves the queue; none is being collected. *)
LEMMA CallKeeps ==
  ASSUME IInv, NEW op \in Ops \ {"get_state"}, Is(op), Done,
         UNCHANGED <<told, view, user>>
  PROVE  /\ TypedMain' /\ TypedPage' /\ TypedUser' /\ Head(queue) \in GoodCalls
         /\ Waiting' /\ Collected' /\ Told' /\ Built' /\ Careful' /\ Doomed' \subseteq Doomed
<1>1. /\ conn' = conn /\ half' = half /\ answer' = answer
      /\ poll' = poll /\ S' = S /\ rows' = rows /\ fp' = fp /\ handlers' = handlers
      /\ sel' = sel /\ ctx' = ctx /\ clicks' = clicks /\ careless' = careless
  BY DEF told, view, user
<1>2. TypedMain /\ queue # <<>> /\ queue' = Tail(queue) /\ Head(queue).op = op
  BY DEF IInv, Typed, Is, Done
<1>3. /\ Head(queue) \in GoodCalls /\ queue' \in Seq(GoodCalls)
      /\ Doomed' \subseteq Doomed
      /\ Sent("get_state")' = {k - 1 : k \in Sent("get_state") \ {1}}
  BY <1>2, Shrinks
<1>4. half = Null /\ conn = Null
  BY <1>2 DEF IInv, Waiting, Is
<1>5. 1 \notin Sent("get_state")
  <2>1. queue[1] = Head(queue)
    BY <1>2 DEF TypedMain
  <2> QED
    BY <1>2, <2>1 DEF Sent
<1>6. Sent("get_state")' = {k - 1 : k \in Sent("get_state")}
  BY <1>3, <1>5
<1>7. Waiting'
  BY <1>1, <1>4, <1>6 DEF IInv, Waiting
<1>8. TypedMain' /\ TypedPage' /\ TypedUser'
  BY <1>1, <1>3 DEF IInv, Typed, TypedMain, TypedPage, TypedUser
<1>9. Told' /\ Built' /\ Careful' /\ Collected'
  BY <1>1, <1>4 DEF IInv, Told, Built, Careful, InFolder, Collected
<1> QED
  BY <1>3, <1>7, <1>8, <1>9

(* The page's other calls go behind the ones it has made. *)
LEMMA SendKeeps ==
  ASSUME IInv, NEW calls \in Seq(GoodCalls), queue' = queue \o calls,
         \A k \in 1..Len(calls) : calls[k].op # "get_state",
         UNCHANGED <<app, monitor, told, view, history>>
  PROVE  /\ TypedApp' /\ TypedMain' /\ TypedPage'
         /\ Waiting' /\ Listing' /\ Collected' /\ Told' /\ Built' /\ PathIsOfTheTree'
         /\ Doomed' \subseteq Doomed \cup {calls[k].arg : k \in {k \in 1..Len(calls) :
                                                          calls[k].op = "delete_remote"}}
<1>1. /\ connected' = connected /\ objects' = objects /\ stack' = stack
      /\ entries' = entries /\ refreshing' = refreshing /\ session' = session
      /\ mon' = mon /\ todo' = todo
      /\ conn' = conn /\ half' = half /\ answer' = answer
      /\ poll' = poll /\ S' = S /\ rows' = rows /\ fp' = fp /\ handlers' = handlers
      /\ skipped' = skipped /\ overtaken' = overtaken
  BY DEF app, monitor, told, view, history
<1>2. TypedMain
  BY DEF IInv, Typed
<1>3. /\ queue' \in Seq(GoodCalls)
      /\ Is("get_state") => Is("get_state")'
      /\ Sent("get_state")' = Sent("get_state")
      /\ Doomed' \subseteq Doomed \cup {calls[k].arg : k \in {k \in 1..Len(calls) :
                                                       calls[k].op = "delete_remote"}}
  BY <1>2, Grows
<1>4. TypedApp' /\ TypedMain' /\ TypedPage'
  BY <1>1, <1>3 DEF IInv, Typed, TypedApp, TypedMain, TypedPage
<1>5. Waiting'
  BY <1>1, <1>3 DEF IInv, Waiting
<1>6. Listing' /\ Collected' /\ Told' /\ Built' /\ PathIsOfTheTree'
  BY <1>1 DEF IInv, Listing, Collected, Told, Built, InFolder, PathIsOfTheTree
<1> QED
  BY <1>3, <1>4, <1>5, <1>6

(* A click that calls nothing. *)
LEMMA LookKeeps ==
  ASSUME IInv, UNCHANGED <<app, monitor, main, view, history>>
  PROVE  /\ TypedApp' /\ TypedMain' /\ TypedPage'
         /\ Waiting' /\ Listing' /\ Collected' /\ Told' /\ Built' /\ PathIsOfTheTree'
         /\ Doomed' = Doomed
<1>1. /\ connected' = connected /\ objects' = objects /\ stack' = stack
      /\ entries' = entries /\ refreshing' = refreshing /\ session' = session
      /\ mon' = mon /\ todo' = todo /\ queue' = queue
      /\ conn' = conn /\ half' = half /\ answer' = answer
      /\ poll' = poll /\ S' = S /\ rows' = rows /\ fp' = fp /\ handlers' = handlers
      /\ skipped' = skipped /\ overtaken' = overtaken
  BY DEF app, monitor, main, told, view, history
<1>2. TypedApp' /\ TypedMain' /\ TypedPage'
  BY <1>1 DEF IInv, Typed, TypedApp, TypedMain, TypedPage
<1>3. Waiting' /\ Doomed' = Doomed
  BY <1>1 DEF IInv, Waiting, Is, Sent, Doomed
<1>4. Listing' /\ Collected' /\ Told' /\ Built' /\ PathIsOfTheTree'
  BY <1>1 DEF IInv, Listing, Collected, Told, Built, InFolder, PathIsOfTheTree
<1> QED
  BY <1>2, <1>3, <1>4

(* refresh_remote, with the stack and the objects the call leaves. *)
LEMMA Refreshes ==
  ASSUME IInv, stack' \in Seq(Places), objects' \in SUBSET Objects, RefreshRemote,
         UNCHANGED <<connected, refreshing, session, monitor>>
  PROVE  entries' \subseteq Objects /\ skipped' \in BOOLEAN /\ Listing'
<1>1. /\ connected' = connected /\ refreshing' = refreshing /\ mon' = mon /\ todo' = todo
      /\ TypedApp /\ Listing
  BY DEF monitor, IInv, Typed
<1>2. CASE ~connected
  <2>1. skipped' = FALSE /\ entries' = {} /\ mon # "listing"
    BY <1>1, <1>2 DEF RefreshRemote, Listing
  <2>2. entries' \subseteq Objects /\ skipped' \in BOOLEAN
    BY <2>1
  <2>3. InFolder(entries', stack')
    BY <2>1 DEF InFolder
  <2>4. Listing'
    BY <1>1, <1>2, <2>1, <2>3 DEF Listing
  <2> QED
    BY <2>2, <2>4
<1>3. CASE connected /\ refreshing
  <2>1. entries' = entries /\ skipped' = (skipped \/ stack' # stack)
    BY <1>3 DEF RefreshRemote
  <2>2. skipped' \in BOOLEAN /\ entries' \subseteq Objects
    BY <1>1, <2>1 DEF TypedApp
  <2>3. CASE stack' = stack
    <3>1. skipped' => skipped
      BY <2>1, <2>3
    <3>2. ~skipped' => ~skipped
      BY <2>1
    <3> QED
      BY <1>1, <2>1, <2>2, <2>3, <3>2 DEF Listing, InFolder
  <2>4. CASE stack' # stack
    <3>1. skipped'
      BY <2>1, <2>4
    <3> QED
      BY <1>1, <2>1, <2>2, <3>1 DEF Listing
  <2> QED
    BY <2>3, <2>4
<1>4. CASE connected /\ ~refreshing
  <2>1. /\ skipped' = FALSE
        /\ entries' = IF stack' = <<>> THEN {} ELSE Children(objects', Last(stack'))
    BY <1>4 DEF RefreshRemote
  <2>2. entries' \subseteq Objects /\ InFolder(entries', stack')
    BY <2>1 DEF Children, InFolder
  <2>3. mon # "lock" /\ mon # "listing"
    BY <1>1, <1>4 DEF Listing
  <2>4. Listing'
    BY <1>1, <1>4, <2>2, <2>3 DEF Listing
  <2>5. skipped' \in BOOLEAN
    BY <2>1
  <2> QED
    BY <2>2, <2>4, <2>5
<1> QED
  BY <1>2, <1>3, <1>4

------------------------------------------------------------------------------
(* The monitor *)

(* A session goes, on either thread, while nothing is listed. *)
LEMMA Dropped ==
  ASSUME IInv, Drops, UNCHANGED monitor, mon # "listing"
  PROVE  TypedApp' /\ Listing' /\ PathIsOfTheTree'
<1>1. /\ connected' = FALSE /\ stack' = <<>> /\ entries' = {} /\ objects' = objects
      /\ skipped' = FALSE /\ overtaken' = FALSE
      /\ refreshing' = refreshing /\ session' = session /\ mon' = mon /\ todo' = todo
  BY DEF Drops, monitor
<1>2. TypedApp'
  <2>1. <<>> \in Seq(Places)
    OBVIOUS
  <2> QED
    BY <1>1, <2>1 DEF IInv, Typed, TypedApp
<1>3. Listing'
  BY <1>1 DEF IInv, Listing, InFolder
<1>4. PathIsOfTheTree'
  BY <1>1 DEF PathIsOfTheTree
<1> QED
  BY <1>2, <1>3, <1>4

(* A session begins with the first storage, or none. *)
LEMMA ConnectKeeps ==
  ASSUME IInv, Connect
  PROVE  IInv' /\ Doomed' = Doomed
<1>1. PICK st \in {<<>>} \cup {<<s>> : s \in Storages} : stack' = st
  BY DEF Connect
<1>2. /\ ~connected /\ mon = "idle" /\ session' = session + 1 /\ objects' = Objects
      /\ entries' = {} /\ connected' = TRUE /\ mon' = "refresh"
      /\ skipped' = FALSE /\ overtaken' = FALSE
      /\ refreshing' = refreshing /\ todo' = todo /\ UNCHANGED <<main, view, user>>
  BY DEF Connect
<1>3. /\ TypedMain' /\ TypedPage' /\ TypedUser'
      /\ Waiting' /\ Told' /\ Built' /\ Careful' /\ Doomed' = Doomed
  BY <1>2, PageKeeps
<1>4. st \in Seq(Places)
  <2>1. <<>> \in Seq(Places)
    OBVIOUS
  <2>2. \A s \in Storages : s \in Places /\ <<s>> \in Seq(Places)
    BY DEF Places
  <2> QED
    BY <2>1, <2>2
<1>5. TypedApp'
  <2>1. stack' \in Seq(Places)
    BY <1>1, <1>4
  <2>2. TypedApp
    BY DEF IInv, Typed
  <2>3. session' \in Nat /\ objects' \subseteq Objects /\ todo' \subseteq Objects
    BY <1>2, <2>2 DEF TypedApp
  <2>4. mon' \in {"idle", "refresh", "lock", "listing"} /\ entries' \subseteq Objects
    BY <1>2
  <2>5. connected' \in BOOLEAN /\ refreshing' \in BOOLEAN
    BY <1>2, <2>2 DEF TypedApp
  <2>6. skipped' \in BOOLEAN /\ overtaken' \in BOOLEAN
    BY <1>2
  <2> QED
    BY <2>1, <2>3, <2>4, <2>5, <2>6 DEF TypedApp
<1>6. Listing'
  BY <1>2 DEF IInv, Listing, InFolder
<1>7. Collected'
  <2>1. half' = half /\ session \in Nat /\ (half # Null => half \in States)
    BY <1>2 DEF main, told, IInv, Typed, TypedMain, TypedApp
  <2>2. half # Null => half.session \in Nat
    BY <2>1, Fields
  <2> QED
    BY <1>2, <2>1, <2>2 DEF IInv, Collected
<1>8. PathIsOfTheTree'
  <2>1. CASE st = <<>>
    BY <1>1, <2>1 DEF PathIsOfTheTree
  <2>2. CASE st # <<>>
    <3>1. PICK s \in Storages : st = <<s>>
      BY <2>2
    <3>2. Len(st) = 1 /\ st[1] = s
      BY <3>1
    <3> QED
      BY <1>1, <3>2 DEF PathIsOfTheTree
  <2> QED
    BY <2>1, <2>2
<1> QED
  BY <1>3, <1>5, <1>6, <1>7, <1>8 DEF IInv, Typed

(* A session ends. *)
LEMMA DisconnectKeeps ==
  ASSUME IInv, Disconnect
  PROVE  IInv' /\ Doomed' = Doomed
<1>1. Drops /\ UNCHANGED <<monitor, main, view, user>> /\ mon = "idle"
  BY DEF Disconnect
<1>2. TypedApp' /\ Listing' /\ PathIsOfTheTree'
  BY <1>1, Dropped
<1>3. /\ TypedMain' /\ TypedPage' /\ TypedUser'
      /\ Waiting' /\ Told' /\ Built' /\ Careful' /\ Doomed' = Doomed
  BY <1>1, PageKeeps
<1>4. Collected'
  <2>1. half' = half /\ session' = session /\ connected' = FALSE
    BY <1>1 DEF Drops, main, told
  <2> QED
    BY <2>1 DEF IInv, Collected
<1> QED
  BY <1>2, <1>3, <1>4 DEF IInv, Typed

(* The monitor's listing, from its start to its end. *)
LEMMA RefreshKeeps ==
  ASSUME IInv, Refresh
  PROVE  IInv' /\ Doomed' = Doomed
<1>1. /\ connected' = connected /\ objects' = objects /\ stack' = stack
      /\ session' = session /\ overtaken' = overtaken /\ UNCHANGED <<main, view, user>>
  BY DEF Refresh, RefreshStarts, RefreshReads, RefreshAdds, RefreshEnds, history
<1>2. /\ TypedMain' /\ TypedPage' /\ TypedUser'
      /\ Waiting' /\ Told' /\ Built' /\ Careful' /\ Doomed' = Doomed
  BY <1>1, PageKeeps
<1>3. PathIsOfTheTree'
  BY <1>1 DEF IInv, PathIsOfTheTree
<1>4. TypedApp /\ Listing
  BY DEF IInv, Typed
<1>5. TypedApp' /\ Listing' /\ (~skipped => ~skipped')
  <2>1. CASE RefreshStarts
    <3>1. mon = "refresh" /\ todo' = todo /\ skipped' = skipped
      BY <2>1 DEF RefreshStarts, history
    <3>2. CASE connected
      <4>1. mon' = "lock" /\ refreshing' = TRUE /\ entries' = {}
        BY <2>1, <3>2 DEF RefreshStarts
      <4>2. TypedApp'
        BY <1>1, <1>4, <3>1, <4>1 DEF TypedApp
      <4>3. Listing'
        BY <1>1, <1>4, <3>1, <4>1 DEF Listing, InFolder
      <4> QED
        BY <3>1, <4>2, <4>3
    <3>3. CASE ~connected
      <4>1. mon' = "idle" /\ refreshing' = refreshing /\ entries' = entries
        BY <2>1, <3>3 DEF RefreshStarts
      <4>2. TypedApp'
        BY <1>1, <1>4, <3>1, <4>1 DEF TypedApp
      <4>3. Listing'
        BY <1>1, <1>4, <3>1, <4>1 DEF Listing, InFolder
      <4> QED
        BY <3>1, <4>2, <4>3
    <3> QED
      BY <3>2, <3>3
  <2>2. CASE RefreshReads
    <3>1. mon = "lock" /\ entries' = entries /\ entries = {}
      BY <1>4, <2>2 DEF RefreshReads, Listing
    <3>2. CASE connected /\ stack # <<>>
      <4>1. /\ mon' = "listing" /\ todo' = Children(objects, Last(stack))
            /\ skipped' = FALSE /\ refreshing' = refreshing
        BY <2>2, <3>2 DEF RefreshReads
      <4>2. TypedApp'
        BY <1>1, <1>4, <3>1, <4>1 DEF TypedApp, Children
      <4>3. Listing'
        BY <1>1, <1>4, <3>1, <3>2, <4>1 DEF Listing, InFolder, Children
      <4> QED
        BY <4>1, <4>2, <4>3
    <3>3. CASE ~(connected /\ stack # <<>>)
      <4>1. mon' = "idle" /\ refreshing' = FALSE /\ todo' = todo /\ skipped' = skipped
        BY <2>2, <3>3 DEF RefreshReads
      <4>2. TypedApp'
        BY <1>1, <1>4, <3>1, <4>1 DEF TypedApp
      <4>3. Listing'
        BY <1>1, <1>4, <3>1, <4>1 DEF Listing, InFolder
      <4> QED
        BY <4>1, <4>2, <4>3
    <3> QED
      BY <3>2, <3>3
  <2>3. ASSUME NEW h \in Objects, RefreshAdds(h)
        PROVE  TypedApp' /\ Listing' /\ (~skipped => ~skipped')
    <3>1. /\ mon = "listing" /\ h \in todo /\ mon' = mon /\ refreshing' = refreshing
          /\ entries' = entries \cup {h} /\ todo' = todo \ {h} /\ skipped' = skipped
      BY <2>3 DEF RefreshAdds, history
    <3>2. TypedApp'
      BY <1>1, <1>4, <3>1 DEF TypedApp
    <3>3. Listing'
      BY <1>1, <1>4, <3>1 DEF Listing, InFolder
    <3> QED
      BY <3>1, <3>2, <3>3
  <2>4. CASE RefreshEnds
    <3>1. /\ mon = "listing" /\ mon' = "idle" /\ refreshing' = FALSE
          /\ entries' = entries /\ todo' = todo /\ skipped' = skipped
      BY <2>4 DEF RefreshEnds, history
    <3>2. TypedApp'
      BY <1>1, <1>4, <3>1 DEF TypedApp
    <3>3. Listing'
      BY <1>1, <1>4, <3>1 DEF Listing, InFolder
    <3> QED
      BY <3>1, <3>2, <3>3
  <2> QED
    BY <2>1, <2>2, <2>3, <2>4 DEF Refresh
<1>6. Collected'
  <2>1. half' = half
    BY <1>1 DEF main, told
  <2> QED
    BY <1>1, <1>5, <2>1 DEF IInv, Collected
<1> QED
  BY <1>2, <1>3, <1>5, <1>6 DEF IInv, Typed
------------------------------------------------------------------------------
(* The main thread *)

(* get_state reads connected_. *)
LEMMA BeginKeeps ==
  ASSUME IInv, Begin
  PROVE  IInv' /\ Doomed' = Doomed
<1>1. /\ Is("get_state") /\ conn' = connected /\ half = Null
      /\ connected' = connected /\ objects' = objects /\ stack' = stack
      /\ entries' = entries /\ refreshing' = refreshing /\ session' = session
      /\ mon' = mon /\ todo' = todo /\ queue' = queue /\ half' = half /\ answer' = answer
      /\ skipped' = skipped /\ overtaken' = overtaken
      /\ poll' = poll /\ S' = S /\ rows' = rows /\ fp' = fp /\ handlers' = handlers
      /\ sel' = sel /\ ctx' = ctx /\ clicks' = clicks /\ careless' = careless
  BY DEF Begin, app, monitor, view, user, history
<1>2. TypedApp' /\ TypedPage' /\ TypedUser'
  BY <1>1 DEF IInv, Typed, TypedApp, TypedPage, TypedUser
<1>3. TypedMain'
  BY <1>1 DEF IInv, Typed, TypedApp, TypedMain
<1>4. Waiting' /\ Doomed' = Doomed
  BY <1>1 DEF IInv, Waiting, Is, Sent, Doomed
<1>5. Listing' /\ Collected' /\ Told' /\ Built' /\ Careful' /\ PathIsOfTheTree'
  BY <1>1 DEF IInv, Listing, Collected, Told, Built, Careful, PathIsOfTheTree, InFolder
<1> QED
  BY <1>2, <1>3, <1>4, <1>5 DEF IInv, Typed

(* Its first half, under the lock. *)
LEMMA CollectKeeps ==
  ASSUME IInv, Collect
  PROVE  IInv' /\ Doomed' = Doomed
<1>1. /\ conn # Null /\ conn' = Null
      /\ half' = [connected |-> conn, stack |-> stack, refreshing |-> refreshing,
                  files |-> {}, session |-> session, good |-> ~skipped]
      /\ connected' = connected /\ objects' = objects /\ stack' = stack
      /\ entries' = entries /\ refreshing' = refreshing /\ session' = session
      /\ mon' = mon /\ todo' = todo /\ queue' = queue /\ answer' = answer
      /\ skipped' = skipped /\ overtaken' = overtaken
      /\ poll' = poll /\ S' = S /\ rows' = rows /\ fp' = fp /\ handlers' = handlers
      /\ sel' = sel /\ ctx' = ctx /\ clicks' = clicks /\ careless' = careless
  BY DEF Collect, app, monitor, view, user, history
<1>2. TypedApp /\ TypedMain /\ conn \in BOOLEAN
  <2>1. TypedApp /\ TypedMain
    BY DEF IInv, Typed
  <2> QED
    BY <1>1, <2>1 DEF TypedMain
<1>3. TypedApp' /\ TypedPage' /\ TypedUser'
  BY <1>1 DEF IInv, Typed, TypedApp, TypedPage, TypedUser
<1>4. half' \in States
  <2>1. (~skipped) \in BOOLEAN
    OBVIOUS
  <2> QED
    BY <1>1, <1>2, <2>1 DEF States, TypedApp
<1>5. TypedMain'
  BY <1>1, <1>2, <1>4 DEF TypedMain
<1>6. Waiting' /\ Doomed' = Doomed
  <2>1. Is("get_state")
    BY <1>1 DEF IInv, Waiting
  <2> QED
    BY <1>1, <2>1 DEF IInv, Waiting, Is, Sent, Doomed
<1>7. Listing' /\ Told' /\ Built' /\ Careful' /\ PathIsOfTheTree'
  BY <1>1 DEF IInv, Listing, Told, Built, Careful, PathIsOfTheTree, InFolder
<1>8. Collected'
  <2>1. half'.session = session /\ half'.stack = stack /\ half'.good = ~skipped
    BY <1>1
  <2>2. half'.session <= session'
    BY <1>1, <1>2, <2>1 DEF TypedApp
  <2>3. half'.good => ~skipped'
    BY <1>1, <2>1
  <2> QED
    BY <1>1, <2>1, <2>2, <2>3 DEF Collected
<1> QED
  BY <1>3, <1>5, <1>6, <1>7, <1>8 DEF IInv, Typed

(* Its second half, and the answer. *)
LEMMA AnswerKeeps ==
  ASSUME IInv, Answer
  PROVE  IInv' /\ Doomed' \subseteq Doomed
<1> DEFINE st == [half EXCEPT !.files = entries, !.session = 0,
                          !.good = @ /\ half.session = session]
<1>1. /\ half # Null /\ half' = Null /\ conn' = conn /\ queue' = Tail(queue)
      /\ answer' = IF Unreadable(st) THEN Nil ELSE st
      /\ connected' = connected /\ objects' = objects /\ stack' = stack
      /\ entries' = entries /\ refreshing' = refreshing /\ session' = session
      /\ mon' = mon /\ todo' = todo
      /\ skipped' = skipped /\ overtaken' = overtaken
      /\ poll' = poll /\ S' = S /\ rows' = rows /\ fp' = fp /\ handlers' = handlers
      /\ sel' = sel /\ ctx' = ctx /\ clicks' = clicks /\ careless' = careless
  BY DEF Answer, app, monitor, view, user, history
<1>2. TypedApp /\ TypedMain /\ Is("get_state") /\ half \in States
  BY <1>1 DEF IInv, Typed, TypedMain, Waiting
<1>3. queue # <<>> /\ Head(queue).op = "get_state"
  BY <1>2 DEF Is
<1>4. /\ queue' \in Seq(GoodCalls) /\ Doomed' \subseteq Doomed
      /\ Sent("get_state")' = {k - 1 : k \in Sent("get_state") \ {1}}
  BY <1>1, <1>2, <1>3, Shrinks
<1>5. Sent("get_state") = {1}
  <2>1. queue[1] = Head(queue) /\ Len(queue) \in Nat \ {0}
    BY <1>2, <1>3 DEF TypedMain
  <2>2. 1 \in Sent("get_state")
    BY <1>3, <2>1 DEF Sent
  <2> QED
    BY <2>2 DEF IInv, Waiting
<1>6. Sent("get_state")' = {}
  BY <1>4, <1>5
<1>7. /\ st \in States /\ st.files = entries /\ st.stack = half.stack
      /\ st.good <=> (half.good /\ half.session = session)
  <2>1. half \in States /\ entries \in SUBSET Objects
    BY <1>2 DEF TypedApp
  <2> QED
    BY <2>1 DEF States
<1> HIDE DEF st
<1>8. answer' \in States \cup {Nil} /\ answer' # Null
  BY <1>1, <1>7, NoHandle
<1>9. TypedApp' /\ TypedMain' /\ TypedPage' /\ TypedUser'
  <2>1. conn \in BOOLEAN \cup {Null}
    BY <1>2 DEF TypedMain
  <2>2. TypedMain'
    BY <1>1, <1>4, <1>8, <2>1 DEF TypedMain
  <2> QED
    BY <1>1, <2>2 DEF IInv, Typed, TypedApp, TypedPage, TypedUser
<1>10. Waiting'
  <2>1. poll = "asked" /\ conn = Null
    BY <1>1, <1>5 DEF IInv, Waiting
  <2> QED
    BY <1>1, <1>6, <1>8, <2>1 DEF Waiting
<1>11. Listing' /\ Collected' /\ Built' /\ Careful' /\ PathIsOfTheTree'
  BY <1>1 DEF IInv, Listing, Collected, Built, Careful, PathIsOfTheTree, InFolder
<1>12. Told'
  <2>1. ASSUME st.good
        PROVE  InFolder(st.files, st.stack)
    <3>1. half.good /\ half.session = session
      BY <1>7, <2>1
    <3>2. CASE connected
      <4>1. half.stack = stack /\ ~skipped
        BY <1>1, <3>1, <3>2 DEF IInv, Collected
      <4> QED
        BY <1>7, <4>1 DEF IInv, Listing
    <3>3. CASE ~connected
      BY <1>7, <3>3 DEF IInv, Listing, InFolder
    <3> QED
      BY <3>2, <3>3
  <2>2. answer' \in States => answer' = st
    BY <1>1, NoHandle
  <2>3. answer' \in States => (answer'.good => InFolder(answer'.files, answer'.stack))
    BY <2>1, <2>2
  <2> QED
    BY <1>1, <2>3 DEF IInv, Told, InFolder
<1> QED
  BY <1>4, <1>9, <1>10, <1>11, <1>12 DEF IInv, Typed

(* A folder is opened, from the list of the one on top or not. *)
LEMMA NavigateRemoteKeeps ==
  ASSUME IInv, NavigateRemote
  PROVE  IInv' /\ Doomed' \subseteq Doomed
<1> DEFINE c == Head(queue)
<1>1. /\ Is("navigate_remote") /\ Done /\ objects' = objects
      /\ stack' = Append(stack, c.arg)
      /\ overtaken' = (overtaken \/ stack = <<>> \/ Last(stack) # c.from)
      /\ RefreshRemote
      /\ UNCHANGED <<connected, refreshing, session, monitor>>
      /\ UNCHANGED <<told, view, user>>
  BY DEF NavigateRemote, Navigates, Arg
<1>2. /\ TypedMain' /\ TypedPage' /\ TypedUser' /\ c \in GoodCalls
      /\ Waiting' /\ Collected' /\ Told' /\ Built' /\ Careful' /\ Doomed' \subseteq Doomed
  BY <1>1, CallKeeps DEF Ops
<1>3. /\ c.op = "navigate_remote"
      /\ c.arg \in Dirs /\ (c.from # Null => Parent[c.arg] = c.from)
  BY <1>1, <1>2 DEF Is, GoodCalls, MeansWell
<1>4. TypedApp
  BY DEF IInv, Typed
<1>5. stack' \in Seq(Places) /\ objects' \in SUBSET Objects
  <2>1. c.arg \in Places
    BY <1>3 DEF Places
  <2> HIDE DEF c
  <2> QED
    BY <1>1, <1>4, <2>1 DEF TypedApp
<1>6. entries' \subseteq Objects /\ skipped' \in BOOLEAN /\ Listing'
  BY <1>1, <1>5, Refreshes
<1>7. TypedApp'
  <2>1. overtaken' \in BOOLEAN
    BY <1>1
  <2> QED
    BY <1>1, <1>4, <1>5, <1>6, <2>1 DEF TypedApp, monitor
<1> HIDE DEF c
<1>8. PathIsOfTheTree'
  <2> SUFFICES ASSUME ~overtaken'
               PROVE  /\ stack'[1] \in Storages
                      /\ \A k \in 1..(Len(stack') - 1) :
                           stack'[k + 1] \in Dirs /\ Parent[stack'[k + 1]] = stack'[k]
    BY DEF PathIsOfTheTree
  <2>1. ~overtaken /\ stack # <<>> /\ Last(stack) = c.from
    BY <1>1
  <2>2. /\ stack[1] \in Storages
        /\ \A k \in 1..(Len(stack) - 1) :
             stack[k + 1] \in Dirs /\ Parent[stack[k + 1]] = stack[k]
    BY <2>1 DEF IInv, PathIsOfTheTree
  <2>3. /\ stack \in Seq(Places) /\ Len(stack) \in Nat \ {0}
        /\ Len(stack') = Len(stack) + 1 /\ stack'[Len(stack) + 1] = c.arg
        /\ \A k \in 1..Len(stack) : stack'[k] = stack[k]
    BY <1>1, <1>4, <2>1 DEF TypedApp
  <2>4. Parent[c.arg] = stack[Len(stack)]
    <3>1. stack[Len(stack)] \in Places
      BY <2>3
    <3> QED
      BY <1>3, <2>1, <3>1, NoHandle DEF Last
  <2> QED
    BY <1>3, <2>2, <2>3, <2>4
<1> QED
  BY <1>2, <1>6, <1>7, <1>8 DEF IInv, Typed

(* The folder above, and the breadcrumb, cut the path. *)
LEMMA CutPath ==
  ASSUME IInv, NEW n \in 1..Len(stack), stack' = SubSeq(stack, 1, n),
         overtaken' = overtaken
  PROVE  stack' \in Seq(Places) /\ PathIsOfTheTree'
<1>1. stack \in Seq(Places) /\ Len(stack) \in Nat
  BY DEF IInv, Typed, TypedApp
<1>2. /\ stack' \in Seq(Places) /\ Len(stack') = n
      /\ \A k \in 1..n : stack'[k] = stack[k]
  BY <1>1
<1>3. PathIsOfTheTree'
  <2> SUFFICES ASSUME ~overtaken'
               PROVE  /\ stack'[1] \in Storages
                      /\ \A k \in 1..(Len(stack') - 1) :
                           stack'[k + 1] \in Dirs /\ Parent[stack'[k + 1]] = stack'[k]
    BY DEF PathIsOfTheTree
  <2>1. /\ stack[1] \in Storages
        /\ \A k \in 1..(Len(stack) - 1) :
             stack[k + 1] \in Dirs /\ Parent[stack[k + 1]] = stack[k]
    BY <1>1 DEF IInv, PathIsOfTheTree
  <2>2. stack'[1] = stack[1]
    BY <1>1, <1>2
  <2>3. ASSUME NEW k \in 1..(Len(stack') - 1)
        PROVE  stack'[k + 1] \in Dirs /\ Parent[stack'[k + 1]] = stack'[k]
    <3>1. k \in 1..(Len(stack) - 1) /\ k \in 1..n /\ k + 1 \in 1..n
      BY <1>1, <1>2
    <3>2. stack'[k] = stack[k] /\ stack'[k + 1] = stack[k + 1]
      BY <1>2, <3>1
    <3> QED
      BY <2>1, <3>1, <3>2
  <2> QED
    BY <2>1, <2>2, <2>3
<1> QED
  BY <1>2, <1>3

(* A call that changes the stack, and the list with it, or neither. *)
LEMMA PathCallKeeps ==
  ASSUME IInv, NEW op \in Ops \ {"get_state"}, Is(op), Done,
         UNCHANGED <<told, view, user>>,
         UNCHANGED <<connected, refreshing, session, monitor>>,
         objects' \in SUBSET Objects, overtaken' \in BOOLEAN,
         stack' \in Seq(Places), PathIsOfTheTree',
         RefreshRemote \/ UNCHANGED <<stack, entries, skipped>>
  PROVE  IInv' /\ Doomed' \subseteq Doomed
<1>1. /\ TypedMain' /\ TypedPage' /\ TypedUser'
      /\ Waiting' /\ Collected' /\ Told' /\ Built' /\ Careful' /\ Doomed' \subseteq Doomed
  BY CallKeeps
<1>2. TypedApp /\ Listing
  BY DEF IInv, Typed
<1>3. entries' \subseteq Objects /\ skipped' \in BOOLEAN /\ Listing'
  <2>1. CASE RefreshRemote
    BY <2>1, Refreshes
  <2>2. CASE UNCHANGED <<stack, entries, skipped>>
    BY <1>2, <2>2 DEF TypedApp, Listing, InFolder, monitor
  <2> QED
    BY <2>1, <2>2
<1>4. TypedApp'
  BY <1>2, <1>3 DEF TypedApp, monitor
<1> QED
  BY <1>1, <1>3, <1>4 DEF IInv, Typed

(* What the main thread does with the other calls. *)
LEMMA HandleKeeps ==
  ASSUME IInv, Handle
  PROVE  IInv' /\ Doomed' \subseteq Doomed
<1>1. TypedApp /\ TypedMain /\ stack \in Seq(Places) /\ Len(stack) \in Nat
  BY DEF IInv, Typed, TypedApp
<1>2. \A op : Is(op) => /\ Head(queue) \in GoodCalls /\ Head(queue).op = op
  <2>1. queue # <<>> => Head(queue) \in GoodCalls
    BY <1>1 DEF TypedMain
  <2> QED
    BY <2>1 DEF Is
<1>3. CASE Begin \/ Collect
  BY <1>3, BeginKeeps, CollectKeeps
<1>4. CASE Answer
  BY <1>4, AnswerKeeps
<1>5. CASE NavigateRemote
  BY <1>5, NavigateRemoteKeeps
<1>6. CASE NavigateUp
  <2>1. /\ Is("navigate_remote_up") /\ Done /\ objects' = objects /\ overtaken' = overtaken
        /\ UNCHANGED <<told, view, user>>
        /\ UNCHANGED <<connected, refreshing, session, monitor>>
    BY <1>6 DEF NavigateUp, Navigates
  <2>2. CASE Len(stack) > 1
    <3>1. stack' = SubSeq(stack, 1, Len(stack) - 1) /\ RefreshRemote
      BY <1>6, <2>2 DEF NavigateUp, Front
    <3>2. stack' \in Seq(Places) /\ PathIsOfTheTree'
      BY <1>1, <2>1, <2>2, <3>1, CutPath
    <3> QED
      BY <1>1, <2>1, <3>1, <3>2, PathCallKeeps DEF Ops, TypedApp
  <2>3. CASE ~(Len(stack) > 1)
    <3>1. UNCHANGED <<stack, entries, skipped>>
      BY <1>6, <2>3 DEF NavigateUp
    <3>2. stack' \in Seq(Places) /\ PathIsOfTheTree'
      BY <1>1, <2>1, <3>1 DEF IInv, PathIsOfTheTree
    <3> QED
      BY <1>1, <2>1, <3>1, <3>2, PathCallKeeps DEF Ops, TypedApp
  <2> QED
    BY <2>2, <2>3
<1>7. CASE NavigateTo
  <2>1. /\ Is("navigate_remote_to") /\ Done /\ objects' = objects /\ overtaken' = overtaken
        /\ UNCHANGED <<told, view, user>>
        /\ UNCHANGED <<connected, refreshing, session, monitor>>
    BY <1>7 DEF NavigateTo, Navigates
  <2>2. CASE Arg < Len(stack)
    <3>1. stack' = SubSeq(stack, 1, Arg + 1) /\ RefreshRemote
      BY <1>7, <2>2 DEF NavigateTo
    <3>2. Arg \in Nat
      BY <1>2, <2>1 DEF Arg, GoodCalls, MeansWell
    <3>3. stack' \in Seq(Places) /\ PathIsOfTheTree'
      BY <1>1, <2>1, <2>2, <3>1, <3>2, CutPath
    <3> QED
      BY <1>1, <2>1, <3>1, <3>3, PathCallKeeps DEF Ops, TypedApp
  <2>3. CASE ~(Arg < Len(stack))
    <3>1. UNCHANGED <<stack, entries, skipped>>
      BY <1>7, <2>3 DEF NavigateTo
    <3>2. stack' \in Seq(Places) /\ PathIsOfTheTree'
      BY <1>1, <2>1, <3>1 DEF IInv, PathIsOfTheTree
    <3> QED
      BY <1>1, <2>1, <3>1, <3>2, PathCallKeeps DEF Ops, TypedApp
  <2> QED
    BY <2>2, <2>3
<1>8. CASE SetStorage
  <2>1. /\ Is("set_storage") /\ Done /\ objects' = objects /\ overtaken' = FALSE
        /\ stack' = <<Arg>> /\ RefreshRemote
        /\ UNCHANGED <<told, view, user>>
        /\ UNCHANGED <<connected, refreshing, session, monitor>>
    BY <1>8 DEF SetStorage, Navigates, Rooted
  <2>2. Arg \in Storages
    BY <1>2, <2>1 DEF Arg, GoodCalls, MeansWell
  <2>3. stack' \in Seq(Places) /\ Len(stack') = 1 /\ stack'[1] = Arg
    BY <2>1, <2>2 DEF Places
  <2>4. PathIsOfTheTree'
    BY <2>2, <2>3 DEF PathIsOfTheTree
  <2> QED
    BY <1>1, <2>1, <2>3, <2>4, PathCallKeeps DEF Ops, TypedApp
<1>9. CASE RefreshAgain
  <2>1. /\ Is("refresh_remote") /\ Done /\ objects' = objects /\ overtaken' = overtaken
        /\ stack' = stack /\ RefreshRemote
        /\ UNCHANGED <<told, view, user>>
        /\ UNCHANGED <<connected, refreshing, session, monitor>>
    BY <1>9 DEF RefreshAgain, Navigates
  <2>2. stack' \in Seq(Places) /\ PathIsOfTheTree'
    BY <1>1, <2>1 DEF IInv, PathIsOfTheTree
  <2> QED
    BY <1>1, <2>1, <2>2, PathCallKeeps DEF Ops, TypedApp
<1>10. CASE DeleteRemote
  <2>1. /\ Is("delete_remote") /\ Done /\ overtaken' = overtaken
        /\ objects' \in {objects \ {Arg}, objects}
        /\ stack' = stack /\ RefreshRemote
        /\ UNCHANGED <<told, view, user>>
        /\ UNCHANGED <<connected, refreshing, session, monitor>>
    BY <1>10 DEF DeleteRemote
  <2>2. stack' \in Seq(Places) /\ PathIsOfTheTree'
    BY <1>1, <2>1 DEF IInv, PathIsOfTheTree
  <2>3. objects' \in SUBSET Objects
    BY <1>1, <2>1 DEF TypedApp
  <2> QED
    BY <1>1, <2>1, <2>2, <2>3, PathCallKeeps DEF Ops, TypedApp
<1>11. CASE StartUpload
  <2>1. /\ Is("start_upload") /\ Done /\ objects' = objects /\ overtaken' = overtaken
        /\ UNCHANGED <<stack, entries, skipped>>
        /\ UNCHANGED <<told, view, user>>
        /\ UNCHANGED <<connected, refreshing, session, monitor>>
    BY <1>11 DEF StartUpload, app, history
  <2>2. stack' \in Seq(Places) /\ PathIsOfTheTree'
    BY <1>1, <2>1 DEF IInv, PathIsOfTheTree
  <2> QED
    BY <1>1, <2>1, <2>2, PathCallKeeps DEF Ops, TypedApp
<1>12. CASE Reconnect
  <2>1. /\ Is("reconnect") /\ Done /\ mon # "listing" /\ Drops /\ UNCHANGED monitor
        /\ UNCHANGED <<told, view, user>>
    BY <1>12 DEF Reconnect, Locked
  <2>2. TypedApp' /\ Listing' /\ PathIsOfTheTree'
    BY <2>1, Dropped
  <2>3. /\ TypedMain' /\ TypedPage' /\ TypedUser' /\ Waiting' /\ Collected' /\ Told'
        /\ Built' /\ Careful' /\ Doomed' \subseteq Doomed
    BY <2>1, CallKeeps DEF Ops
  <2> QED
    BY <2>2, <2>3 DEF IInv, Typed
<1> QED
  BY <1>3, <1>4, <1>5, <1>6, <1>7, <1>8, <1>9, <1>10, <1>11, <1>12 DEF Handle
------------------------------------------------------------------------------
(* The page *)

(* The timer asks. *)
LEMMA AskKeeps ==
  ASSUME IInv, Ask
  PROVE  IInv' /\ Doomed' \subseteq Doomed
<1> DEFINE c == Call("get_state", Null, Null)
<1>1. /\ poll = "timer" /\ poll' = "asked" /\ queue' = Append(queue, c)
      /\ connected' = connected /\ objects' = objects /\ stack' = stack
      /\ entries' = entries /\ refreshing' = refreshing /\ session' = session
      /\ mon' = mon /\ todo' = todo
      /\ conn' = conn /\ half' = half /\ answer' = answer
      /\ skipped' = skipped /\ overtaken' = overtaken
      /\ S' = S /\ rows' = rows /\ fp' = fp /\ handlers' = handlers
      /\ sel' = sel /\ ctx' = ctx /\ clicks' = clicks /\ careless' = careless
  BY DEF Ask, Asked, app, monitor, told, user, history
<1>2. c \in GoodCalls /\ c.op = "get_state"
  BY PlainCall DEF Ops, Call
<1>3. TypedMain /\ queue \in Seq(GoodCalls) /\ Len(queue) \in Nat
  BY DEF IInv, Typed, TypedMain
<1> HIDE DEF c
<1>4. queue' = queue \o <<c>> /\ <<c>> \in Seq(GoodCalls) /\ Len(<<c>>) = 1 /\ <<c>>[1] = c
  BY <1>1, <1>2, <1>3
<1>5. /\ queue' \in Seq(GoodCalls)
      /\ Is("get_state") => Is("get_state")'
      /\ Doomed' \subseteq Doomed
  <2>1. /\ queue' \in Seq(GoodCalls)
        /\ Is("get_state") => Is("get_state")'
        /\ Doomed' \subseteq Doomed \cup {<<c>>[k].arg : k \in {k \in 1..Len(<<c>>) :
                                                       <<c>>[k].op = "delete_remote"}}
    BY <1>3, <1>4, Grows
  <2>2. {k \in 1..Len(<<c>>) : <<c>>[k].op = "delete_remote"} = {}
    BY <1>2, <1>4
  <2> QED
    BY <2>1, <2>2
<1>6. Sent("get_state") = {} /\ answer = Null
  BY <1>1 DEF IInv, Waiting
<1>7. Sent("get_state")' = {Len(queue) + 1}
  <2>1. /\ Len(queue') = Len(queue) + 1 /\ queue'[Len(queue) + 1] = c
        /\ \A k \in 1..Len(queue) : queue'[k] = queue[k]
    BY <1>1, <1>3
  <2>2. \A k \in 1..Len(queue) : queue[k].op # "get_state"
    BY <1>6 DEF Sent
  <2> QED
    BY <1>2, <1>3, <2>1, <2>2 DEF Sent
<1>8. TypedApp' /\ TypedMain' /\ TypedPage' /\ TypedUser'
  BY <1>1, <1>5 DEF IInv, Typed, TypedApp, TypedMain, TypedPage, TypedUser
<1>9. Waiting'
  BY <1>1, <1>5, <1>6, <1>7 DEF IInv, Waiting
<1>10. Listing' /\ Collected' /\ Told' /\ Built' /\ Careful' /\ PathIsOfTheTree'
  BY <1>1 DEF IInv, Listing, Collected, Told, Built, Careful, PathIsOfTheTree, InFolder
<1> QED
  BY <1>5, <1>8, <1>9, <1>10 DEF IInv, Typed

(* The answer is shown; one that is nil leaves what is. *)
LEMMA ReceiveKeeps ==
  ASSUME IInv, Receive
  PROVE  IInv' /\ Doomed' \subseteq Doomed
<1>1. /\ poll = "asked" /\ answer # Null /\ answer' = Null /\ poll' = "timer"
      /\ connected' = connected /\ objects' = objects /\ stack' = stack
      /\ entries' = entries /\ refreshing' = refreshing /\ session' = session
      /\ mon' = mon /\ todo' = todo /\ queue' = queue
      /\ conn' = conn /\ half' = half
      /\ skipped' = skipped /\ overtaken' = overtaken
      /\ sel' = sel /\ ctx' = ctx /\ clicks' = clicks
  BY DEF Receive, Again, app, monitor, history
<1>2. Typed /\ TypedMain /\ TypedPage /\ TypedUser
  BY DEF IInv, Typed
<1>3. TypedApp' /\ TypedMain'
  BY <1>1, <1>2 DEF Typed, TypedApp, TypedMain
<1>4. Waiting' /\ Doomed' = Doomed
  BY <1>1 DEF IInv, Waiting, Is, Sent, Doomed
<1>5. Listing' /\ Collected' /\ PathIsOfTheTree'
  BY <1>1 DEF IInv, Listing, Collected, PathIsOfTheTree, InFolder
<1>6. CASE answer = Nil
  <2>1. /\ S' = S /\ rows' = rows /\ fp' = fp /\ handlers' = handlers
        /\ careless' = careless
    BY <1>6 DEF Receive
  <2>2. TypedPage' /\ TypedUser'
    BY <1>1, <1>2, <2>1 DEF TypedPage, TypedUser
  <2>3. Told' /\ Built' /\ Careful'
    BY <1>1, <2>1, NoHandle DEF IInv, Told, Built, Careful, InFolder
  <2> QED
    BY <1>3, <1>4, <1>5, <2>2, <2>3 DEF IInv, Typed
<1>7. CASE answer # Nil
  <2>1. answer \in States
    BY <1>1, <1>2, <1>7 DEF TypedMain
  <2>2. /\ S' = answer /\ Render(answer)
        /\ careless' = (careless \/ (rows' # rows /\ (sel # {} \/ ctx # Null)))
    BY <1>7 DEF Receive
  <2>3. answer.files \in SUBSET Objects /\ Null \notin answer.files
    BY <2>1, Fields, NoHandle
  <2>4. /\ rows' \subseteq answer.files /\ fp' \subseteq Objects \cup {Null}
        /\ rows' = (IF fp' = {Null} THEN {} ELSE fp')
        /\ (answer.connected /\ ~answer.refreshing) => fp' = answer.files
        /\ handlers' \in 0..MaxHandlers
    <3>1. handlers \in 0..MaxHandlers
      BY <1>2 DEF TypedPage
    <3>2. CASE ~answer.connected
      BY <2>2, <3>1, <3>2 DEF Render, Disconnected
    <3>3. CASE answer.connected /\ answer.refreshing
      BY <2>2, <3>1, <3>3 DEF Render
    <3>4. CASE answer.connected /\ ~answer.refreshing
      <4>1. /\ fp' = answer.files
            /\ rows' = IF answer.files = fp THEN rows ELSE answer.files
            /\ handlers' = IF answer.files \in {fp, {}} \/ handlers = MaxHandlers
                             THEN handlers ELSE handlers + 1
        BY <2>2, <3>4 DEF Render
      <4>2. rows' = answer.files
        BY <2>3, <4>1 DEF IInv, Built
      <4>3. handlers' \in 0..MaxHandlers
        BY <3>1, <4>1, BoundsAssumption
      <4> QED
        BY <2>3, <4>1, <4>2, <4>3
    <3> QED
      BY <3>2, <3>3, <3>4
  <2>5. TypedPage'
    BY <1>1, <2>1, <2>2, <2>3, <2>4 DEF TypedPage
  <2>6. TypedUser'
    <3>1. careless' \in BOOLEAN
      BY <2>2
    <3> QED
      BY <1>1, <1>2, <3>1 DEF TypedUser
  <2>7. Told'
    BY <1>1, <2>1, <2>2, NoHandle DEF IInv, Told, InFolder
  <2>8. Built'
    BY <2>2, <2>4 DEF Built
  <2>9. Careful'
    <3> SUFFICES ASSUME ~careless'
                 PROVE  sel \subseteq rows' /\ ctx \in rows' \cup {Null}
      BY <1>1 DEF Careful
    <3>1. ~careless /\ (rows' = rows \/ (sel = {} /\ ctx = Null))
      BY <2>2
    <3> QED
      BY <3>1 DEF IInv, Careful
  <2> QED
    BY <1>3, <1>4, <1>5, <2>5, <2>6, <2>7, <2>8, <2>9 DEF IInv, Typed
<1> QED
  BY <1>6, <1>7

------------------------------------------------------------------------------
(* The user *)

(* What the invariant says of a table that is shown. *)
LEMMA ShownRows == IInv => RowsAreTheFiles
<1> SUFFICES ASSUME IInv, S.connected, ~S.refreshing
             PROVE  rows = S.files
  BY DEF RowsAreTheFiles
<1>1. fp = S.files /\ rows = (IF fp = {Null} THEN {} ELSE fp)
  BY DEF IInv, Built
<1>2. S.files # {Null}
  BY Fields, NoHandle DEF IInv, Typed, TypedPage
<1> QED
  BY <1>1, <1>2

(* A list of calls none of which deletes. *)
Harmless(calls) ==
  \A k \in 1..Len(calls) : calls[k].op \notin {"get_state", "delete_remote"}

(* A click that calls. *)
LEMMA ClickKeeps ==
  ASSUME IInv, NEW calls \in Seq(GoodCalls), Harmless(calls), queue' = queue \o calls,
         UNCHANGED <<app, monitor, told, view, history>>, TypedUser', Careful'
  PROVE  IInv' /\ Doomed' \subseteq Doomed
<1>1. \A k \in 1..Len(calls) : calls[k].op # "get_state" /\ calls[k].op # "delete_remote"
  BY DEF Harmless
<1>2. /\ TypedApp' /\ TypedMain' /\ TypedPage'
      /\ Waiting' /\ Listing' /\ Collected' /\ Told' /\ Built' /\ PathIsOfTheTree'
      /\ Doomed' \subseteq Doomed \cup {calls[k].arg : k \in {k \in 1..Len(calls) :
                                                       calls[k].op = "delete_remote"}}
  BY <1>1, SendKeeps
<1>3. Doomed' \subseteq Doomed
  <2>1. {k \in 1..Len(calls) : calls[k].op = "delete_remote"} = {}
    BY <1>1
  <2> QED
    BY <1>2, <2>1
<1> QED
  BY <1>2, <1>3 DEF IInv, Typed

(* A click that selects nothing, whether or not it closes the context menu. *)
LEMMA StaysSelected ==
  ASSUME IInv, UNCHANGED view, sel' = sel, ctx' \in {Null, ctx}, careless' = careless,
         clicks' \in Nat
  PROVE  TypedUser' /\ Careful'
<1>1. rows' = rows
  BY DEF view
<1>2. TypedUser'
  BY DEF IInv, Typed, TypedUser
<1>3. Careful'
  BY <1>1 DEF IInv, Careful
<1> QED
  BY <1>2, <1>3

(* A click on a row. *)
LEMMA MarksKeep ==
  ASSUME IInv, UNCHANGED view, NEW h \in rows, NEW single \in SUBSET (sel \cup {h}),
         Marks(h, single), ctx' = Null, clicks' \in Nat
  PROVE  TypedUser' /\ Careful'
<1>1. rows' = rows /\ rows \subseteq Objects /\ TypedUser
  BY DEF view, IInv, Typed, TypedPage
<1>2. CASE sel' = single /\ careless' = careless
  <2>1. TypedUser'
    BY <1>1, <1>2 DEF TypedUser
  <2>2. Careful'
    BY <1>1, <1>2 DEF IInv, Careful
  <2> QED
    BY <2>1, <2>2
<1>3. ASSUME NEW range \in SUBSET rows, sel' = range, careless' = FALSE
      PROVE  TypedUser' /\ Careful'
  <2>1. careless' \in BOOLEAN
    BY <1>3
  <2>2. TypedUser'
    BY <1>1, <1>3, <2>1 DEF TypedUser
  <2>3. Careful'
    BY <1>1, <1>3 DEF Careful
  <2> QED
    BY <2>2, <2>3
<1>4. ASSUME NEW range \in SUBSET rows, sel' = sel \cup range, careless' = careless
      PROVE  TypedUser' /\ Careful'
  <2>1. TypedUser'
    BY <1>1, <1>4 DEF TypedUser
  <2>2. Careful'
    BY <1>1, <1>4 DEF IInv, Careful
  <2> QED
    BY <2>1, <2>2
<1> QED
  BY <1>2, <1>3, <1>4 DEF Marks

(* One call. *)
LEMMA OneCall ==
  ASSUME NEW c \in GoodCalls, c.op \notin {"get_state", "delete_remote"}
  PROVE  <<c>> \in Seq(GoodCalls) /\ Harmless(<<c>>)
<1>1. <<c>> \in Seq(GoodCalls) /\ Len(<<c>>) = 1 /\ <<c>>[1] = c
  OBVIOUS
<1> QED
  BY <1>1 DEF Harmless

(* A click with one call that does not delete. *)
LEMMA SendOne ==
  ASSUME IInv, NEW c \in GoodCalls, c.op \notin {"get_state", "delete_remote"},
         Click, Sends(<<c>>)
  PROVE  IInv' /\ Doomed' \subseteq Doomed
<1>1. <<c>> \in Seq(GoodCalls) /\ Harmless(<<c>>)
  BY OneCall
<1>2. /\ queue' = queue \o <<c>> /\ UNCHANGED <<app, monitor, told, view, history>>
      /\ sel' = sel /\ ctx' = Null /\ careless' = careless /\ clicks' = clicks + 1
  BY DEF Click, Point, Acts, Sends
<1>3. clicks' \in Nat
  BY <1>2 DEF IInv, Typed, TypedUser
<1>4. UNCHANGED view
  BY <1>2
<1>5. TypedUser' /\ Careful'
  BY <1>2, <1>3, <1>4, StaysSelected
<1> QED
  BY <1>1, <1>2, <1>5, ClickKeeps

(* A folder that is opened is in the folder its call says. *)
LEMMA OpenIsGood ==
  ASSUME IInv, NEW h \in rows \cap Dirs
  PROVE  Call("navigate_remote", h, Here) \in GoodCalls
<1>1. S \in States /\ h \in S.files /\ h \in Objects
  BY DEF IInv, Typed, TypedPage, Built
<1>2. S.stack \in Seq(Places)
  BY <1>1, Fields
<1>3. Here \in Places \cup {Null} /\ (Here # Null => Parent[h] = Here)
  <2>1. CASE S.stack = <<>> \/ ~S.good
    BY <2>1 DEF Here
  <2>2. CASE S.stack # <<>> /\ S.good
    <3>1. Here = Last(S.stack) /\ Last(S.stack) \in Places
      BY <1>2, <2>2 DEF Here, Last
    <3>2. Parent[h] = Last(S.stack)
      BY <1>1, <2>2 DEF IInv, Told, InFolder
    <3> QED
      BY <3>1, <3>2
  <2> QED
    BY <2>1, <2>2
<1> QED
  BY <1>1, <1>3 DEF Call, GoodCalls, MeansWell, Ops

(* What the user does. *)
LEMMA ActKeeps ==
  ASSUME IInv, Act
  PROVE  IInv' /\ (~careless => Doomed' \subseteq Doomed \cup rows)
<1>1. /\ TypedUser /\ S \in States /\ S.files \in SUBSET Objects /\ S.stack \in Seq(Places)
      /\ rows \subseteq Objects /\ handlers \in 0..MaxHandlers
  BY Fields DEF IInv, Typed, TypedPage, Built
<1>2. ASSUME NEW h \in Objects, Open(h)
      PROVE  IInv' /\ Doomed' \subseteq Doomed
  <2> DEFINE c == Call("navigate_remote", h, Here)
  <2>1. c \in GoodCalls /\ c.op \notin {"get_state", "delete_remote"}
    BY <1>2, OpenIsGood DEF Open, Call
  <2>2. /\ queue' = queue \o <<c>> /\ UNCHANGED <<app, monitor, told, view, history>>
        /\ h \in rows /\ Marks(h, sel) /\ ctx' = Null /\ clicks' = clicks + 1
    BY <1>2 DEF Open, Point, Acts, Sends
  <2> HIDE DEF c
  <2>3. UNCHANGED view /\ clicks' \in Nat
    BY <1>1, <2>2 DEF TypedUser
  <2>4. TypedUser' /\ Careful'
    BY <2>2, <2>3, MarksKeep
  <2>5. <<c>> \in Seq(GoodCalls) /\ Harmless(<<c>>)
    BY <2>1, OneCall
  <2> QED
    BY <2>2, <2>4, <2>5, ClickKeeps
<1>3. ASSUME NEW op \in {"navigate_remote_up", "refresh_remote", "reconnect"},
             Click, Sends(<<Call(op, Null, Null)>>)
      PROVE  IInv' /\ Doomed' \subseteq Doomed
  <2> DEFINE c == Call(op, Null, Null)
  <2>1. c \in GoodCalls
    BY PlainCall DEF Ops
  <2>2. c.op \notin {"get_state", "delete_remote"}
    BY DEF Call
  <2>3. Click /\ Sends(<<c>>)
    BY <1>3
  <2> HIDE DEF c
  <2> QED
    BY <2>1, <2>2, <2>3, SendOne
<1>4. ASSUME NEW s \in Storages, ChooseStorage(s)
      PROVE  IInv' /\ Doomed' \subseteq Doomed
  <2> DEFINE c == Call("set_storage", s, Null)
  <2>1. c \in GoodCalls /\ c.op \notin {"get_state", "delete_remote"}
    BY DEF Call, GoodCalls, MeansWell, Ops
  <2>2. Click /\ Sends(<<c>>)
    BY <1>4 DEF ChooseStorage
  <2> HIDE DEF c
  <2> QED
    BY <2>1, <2>2, SendOne
<1>5. ASSUME NEW k \in 1..Len(S.stack), Crumb(k)
      PROVE  IInv' /\ Doomed' \subseteq Doomed
  <2> DEFINE c == Call("navigate_remote_to", k, Null)
  <2>1. k \in Nat \ {0}
    BY <1>1
  <2>2. c \in GoodCalls /\ c.op \notin {"get_state", "delete_remote"}
    BY <2>1 DEF Call, GoodCalls, MeansWell, Ops
  <2>3. /\ queue' = queue \o <<c>> /\ UNCHANGED <<app, monitor, told, view, history>>
        /\ sel' = sel /\ ctx' \in {Null, ctx} /\ careless' = careless /\ clicks' = clicks
    BY <1>5 DEF Crumb, Sends
  <2>4. clicks' \in Nat
    BY <1>1, <2>3 DEF TypedUser
  <2> HIDE DEF c
  <2>5. <<c>> \in Seq(GoodCalls) /\ Harmless(<<c>>)
    BY <2>2, OneCall
  <2>6. UNCHANGED view
    BY <2>3
  <2>7. TypedUser' /\ Careful'
    BY <2>3, <2>4, <2>6, StaysSelected
  <2> QED
    BY <2>3, <2>5, <2>7, ClickKeeps
<1>6. ASSUME UNCHANGED <<app, monitor, main, view, history>>, TypedUser', Careful'
      PROVE  IInv' /\ Doomed' \subseteq Doomed
  BY <1>6, LookKeeps DEF IInv, Typed
<1>7. ASSUME NEW h \in Objects, Select(h)
      PROVE  IInv' /\ Doomed' \subseteq Doomed
  <2>1. PICK single \in SUBSET (sel \cup {h}) : Marks(h, single)
    BY <1>7 DEF Select
  <2>2. /\ UNCHANGED <<app, monitor, main, view, history>>
        /\ h \in rows /\ ctx' = Null /\ clicks' = clicks + 1
    BY <1>7 DEF Select, Point, Acts
  <2>3. UNCHANGED view /\ clicks' \in Nat
    BY <1>1, <2>2 DEF TypedUser
  <2>4. TypedUser' /\ Careful'
    BY <2>1, <2>2, <2>3, MarksKeep
  <2> QED
    BY <1>6, <2>2, <2>4
<1>8. CASE SelectAll
  <2>1. /\ UNCHANGED <<app, monitor, main, view, history>> /\ clicks' = clicks + 1
        /\ sel' = sel \cup S.files /\ ctx' = ctx /\ rows' = rows
        /\ careless' = (careless \/ Hidden)
    BY <1>8 DEF SelectAll, Acts, view
  <2>2. TypedUser'
    <3>1. careless' \in BOOLEAN
      BY <2>1
    <3> QED
      BY <1>1, <2>1, <3>1 DEF TypedUser
  <2>3. Careful'
    <3> SUFFICES ASSUME ~careless'
                 PROVE  sel' \subseteq rows /\ ctx' \in rows \cup {Null}
      BY <2>1 DEF Careful
    <3>1. ~careless /\ S.connected /\ ~S.refreshing
      BY <2>1 DEF Hidden
    <3>2. rows = S.files
      BY <3>1, ShownRows DEF RowsAreTheFiles
    <3> QED
      BY <2>1, <3>1, <3>2 DEF IInv, Careful
  <2> QED
    BY <1>6, <2>1, <2>2, <2>3
<1>9. CASE Escape
  <2>1. /\ UNCHANGED <<app, monitor, main, view, history>> /\ clicks' = clicks
        /\ sel' = {} /\ ctx' = ctx /\ careless' = (careless /\ ctx # Null) /\ rows' = rows
    BY <1>9 DEF Escape, Deselected, view
  <2>2. TypedUser'
    <3>1. careless' \in BOOLEAN
      BY <2>1
    <3> QED
      BY <1>1, <2>1, <3>1 DEF TypedUser
  <2>3. Careful'
    <3>1. CASE ctx = Null
      BY <2>1, <3>1 DEF Careful
    <3>2. CASE ctx # Null
      <4>1. ~careless' => ~careless
        BY <2>1, <3>2
      <4> QED
        BY <2>1, <4>1 DEF IInv, Careful
    <3> QED
      BY <3>1, <3>2
  <2> QED
    BY <1>6, <2>1, <2>2, <2>3
<1>10. ASSUME NEW h \in Objects, ShowCtxMenu(h)
       PROVE  IInv' /\ Doomed' \subseteq Doomed
  <2>1. /\ UNCHANGED <<app, monitor, main, view, history>> /\ clicks' = clicks + 1
        /\ h \in rows /\ sel' = sel /\ ctx' = h /\ careless' = careless /\ rows' = rows
    BY <1>1, <1>10 DEF ShowCtxMenu, Acts, view
  <2>2. TypedUser'
    BY <1>1, <2>1 DEF TypedUser
  <2>3. Careful'
    BY <2>1 DEF IInv, Careful
  <2> QED
    BY <1>6, <2>1, <2>2, <2>3
<1>11. ASSUME NEW hs \in SUBSET Objects, ~careless => hs \subseteq rows,
              Acts, sel' = sel, ctx' \in {Null, ctx}, careless' = careless,
              Sends(Calls("delete_remote", SetToSeq(hs)))
       PROVE  IInv' /\ (~careless => Doomed' \subseteq Doomed \cup rows)
  <2> DEFINE list == SetToSeq(hs)
             calls == Calls("delete_remote", list)
  <2>1. list \in Seq(hs) /\ list \in Seq(Objects \cup {Null})
    <3>1. list \in Seq(hs)
      BY Listed
    <3> HIDE DEF list
    <3> QED
      BY <3>1
  <2>2. /\ calls \in Seq(GoodCalls) /\ Len(calls) = Len(list)
        /\ \A k \in 1..Len(list) : calls[k].op = "delete_remote" /\ calls[k].arg = list[k]
    <3> HIDE DEF list
    <3> QED
      BY <2>1, CallsOf
  <2> HIDE DEF list, calls
  <2>3. /\ queue' = queue \o calls /\ UNCHANGED <<app, monitor, told, view, history>>
        /\ clicks' = clicks + 1 /\ rows' = rows
    BY <1>11 DEF Acts, Sends, calls, list, view
  <2>4. \A k \in 1..Len(calls) : calls[k].op # "get_state" /\ calls[k].arg \in hs
    BY <2>1, <2>2
  <2>5. /\ TypedApp' /\ TypedMain' /\ TypedPage'
        /\ Waiting' /\ Listing' /\ Collected' /\ Told' /\ Built' /\ PathIsOfTheTree'
        /\ Doomed' \subseteq Doomed \cup {calls[k].arg : k \in {k \in 1..Len(calls) :
                                                         calls[k].op = "delete_remote"}}
    BY <2>2, <2>3, <2>4, SendKeeps
  <2>6. Doomed' \subseteq Doomed \cup hs
    BY <2>4, <2>5
  <2>7. TypedUser'
    BY <1>1, <1>11, <2>3 DEF TypedUser
  <2>8. Careful'
    BY <1>11, <2>3 DEF IInv, Careful
  <2> QED
    BY <1>11, <2>5, <2>6, <2>7, <2>8 DEF IInv, Typed
<1>12. CASE PressDelete
  <2>1. /\ Acts /\ sel' = sel /\ ctx' = ctx /\ careless' = careless
        /\ Sends(Calls("delete_remote", SetToSeq(sel)))
    BY <1>12 DEF PressDelete
  <2>2. sel \in SUBSET Objects /\ (~careless => sel \subseteq rows)
    BY <1>1 DEF TypedUser, IInv, Careful
  <2> QED
    BY <1>11, <2>1, <2>2
<1>13. CASE CtxDelete
  <2>1. PICK hs \in {S.files \cap sel, {ctx}} : Sends(Calls("delete_remote", SetToSeq(hs)))
    BY <1>13 DEF CtxDelete
  <2>2. Acts /\ sel' = sel /\ ctx' = Null /\ careless' = careless /\ ctx # Null
    BY <1>13 DEF CtxDelete, Click, Point
  <2>3. hs \in SUBSET Objects /\ (~careless => hs \subseteq rows)
    BY <1>1, <2>2 DEF TypedUser, IInv, Careful
  <2> QED
    BY <1>11, <2>1, <2>2, <2>3
<1>14. CASE Drop
  <2> DEFINE list == [k \in 1..handlers |-> Null]
             calls == Calls("start_upload", list)
  <2>1. list \in Seq(Objects \cup {Null})
    BY <1>1
  <2>2. /\ calls \in Seq(GoodCalls) /\ Len(calls) = Len(list)
        /\ \A k \in 1..Len(list) : calls[k].op = "start_upload"
    <3> HIDE DEF list
    <3> QED
      BY <2>1, CallsOf
  <2> HIDE DEF list, calls
  <2>3. /\ queue' = queue \o calls /\ UNCHANGED <<app, monitor, told, view, history>>
        /\ sel' = sel /\ ctx' \in {Null, ctx} /\ careless' = careless /\ clicks' = clicks + 1
    BY <1>14 DEF Drop, Acts, Sends, calls, list
  <2>4. Harmless(calls) /\ clicks' \in Nat /\ UNCHANGED view
    BY <1>1, <2>2, <2>3 DEF Harmless, TypedUser
  <2>5. TypedUser' /\ Careful'
    BY <2>3, <2>4, StaysSelected
  <2> QED
    BY <2>2, <2>3, <2>4, <2>5, ClickKeeps
<1>15. CASE Up \/ PressRefresh \/ PressReconnect
  BY <1>3, <1>15 DEF Up, PressRefresh, PressReconnect
<1> QED
  BY <1>2, <1>4, <1>5, <1>7, <1>8, <1>9, <1>10, <1>12, <1>13, <1>14, <1>15 DEF Act

------------------------------------------------------------------------------
(* The theorems *)

(* Every step keeps the invariant and dooms nothing that was not in the table. *)
LEMMA Steps ==
  ASSUME IInv, [Next]_vars
  PROVE  IInv' /\ (~careless => Doomed' \subseteq Doomed \cup rows)
<1>1. CASE Connect
  BY <1>1, ConnectKeeps
<1>2. CASE Disconnect
  BY <1>2, DisconnectKeeps
<1>3. CASE Refresh
  BY <1>3, RefreshKeeps
<1>4. CASE Handle
  BY <1>4, HandleKeeps
<1>5. CASE Ask
  BY <1>5, AskKeeps
<1>6. CASE Receive
  BY <1>6, ReceiveKeeps
<1>7. CASE Act
  BY <1>7, ActKeeps
<1>8. CASE UNCHANGED vars
  <2>1. /\ UNCHANGED <<app, monitor, main, view, history>>
        /\ sel' = sel /\ ctx' = ctx /\ clicks' = clicks /\ careless' = careless /\ rows' = rows
    BY <1>8 DEF vars, user, view
  <2>2. TypedUser' /\ Careful'
    BY <2>1 DEF IInv, Typed, TypedUser, Careful
  <2> QED
    BY <2>1, <2>2, LookKeeps DEF IInv, Typed
<1> QED
  BY <1>1, <1>2, <1>3, <1>4, <1>5, <1>6, <1>7, <1>8 DEF Next

(* The invariant: a listing is followed from the device to the screen. *)
THEOREM Invariance == Spec => []IInv
<1>1. Init => IInv
  BY Starts
<1>2. IInv /\ [Next]_vars => IInv'
  BY Steps
<1> QED
  BY <1>1, <1>2, PTL DEF Spec

(* At any moment at most one get_state is on its way, and it or its answer is   *)
(* exactly while the page waits: state answers never overtake each other.      *)
THEOREM TypeCorrect == Spec => []TypeOK
<1>1. IInv => TypeOK
  <2> SUFFICES ASSUME IInv
               PROVE  TypeOK
    OBVIOUS
  <2>1. TypedApp /\ TypedMain /\ TypedPage /\ TypedUser /\ Waiting
    BY DEF IInv, Typed
  <2>2. S.stack \in Seq(Places) /\ S.files \subseteq Objects
    BY <2>1, Fields DEF TypedPage
  <2>3. entries \cup todo \cup rows \cup sel \cup S.files \subseteq Objects
    BY <2>1, <2>2 DEF TypedApp, TypedPage, TypedUser
  <2> QED
    BY <2>1, <2>2, <2>3 DEF TypeOK, TypedApp, TypedPage, TypedUser, Waiting
<1> QED
  BY <1>1, Invariance, PTL

(* What the page lists is in the folder its path ends with, however calls,     *)
(* listings and sessions meet, but for the two cases the history names.        *)
THEOREM PanelOfItsPath == Spec => []PanelShowsItsPath
<1>1. IInv => PanelShowsItsPath
  BY DEF IInv, Told, InFolder, PanelShowsItsPath
<1> QED
  BY <1>1, Invariance, PTL

(* The path is one of the tree until a second double click comes too early.    *)
THEOREM PathOfTheTree == Spec => []PathIsOfTheTree
<1>1. IInv => PathIsOfTheTree
  BY DEF IInv
<1> QED
  BY <1>1, Invariance, PTL

(* The table has the files of the last state though it is not built each time. *)
THEOREM RowsOfTheFiles == Spec => []RowsAreTheFiles
<1> QED
  BY ShownRows, Invariance, PTL

(* Only rows of the table are deleted, as long as the user selects again after *)
(* a change of the table and selects all only where there is one.              *)
THEOREM DeletesOnScreen == Spec => DeletesAreOnScreen
<1>1. IInv /\ [Next]_vars => [~careless => Doomed' \subseteq Doomed \cup rows]_vars
  BY Steps
<1> QED
  BY <1>1, Invariance, PTL DEF Spec, DeletesAreOnScreen
=============================================================================
