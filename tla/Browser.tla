------------------------------ MODULE Browser ------------------------------
(***************************************************************************)
(* The remote panel: the page (app.js) with its snapshot of the state, its *)
(* selection and its table, the bridge (WebUI.mm), which queues every call *)
(* of the page on the main thread and answers get_state, and the           *)
(* navigation of App.mm, beside the monitor, which connects, lists the     *)
(* first storage and disconnects.  The main thread does a call in one      *)
(* step, except get_state, and waits for device_mtx_ where it takes it.    *)
(* Sorting, sizes, dates, the local panel and the transfers are left out,  *)
(* and so are a listing that breaks off and the races AppLifecycle has.    *)
(***************************************************************************)
EXTENDS Naturals, Sequences, FiniteSets, SequencesExt

CONSTANTS
  Storages,    (* storages of the device, which are the roots of its tree     *)
  Dirs, Files, (* handles; a later session uses them again                    *)
  Parent,      (* where each of them is                                       *)
  Bad,         (* those with a name that does not come out as UTF-8           *)
  Null, Nil,   (* nothing; what stringWithUTF8String makes of a state with one *)
  MaxClicks,   (* bound: what the user does                                   *)
  MaxSessions, (* bound: how often the device connects                        *)
  MaxHandlers  (* bound: drop handlers that are counted                       *)

Objects == Dirs \cup Files
Places == Dirs \cup Storages

(* The states the page is told, and those that state_json works on. *)
States == [connected : BOOLEAN, stack : Seq(Places), refreshing : BOOLEAN,
           files : SUBSET Objects, session : Nat, good : BOOLEAN]

ASSUME TreeAssumption ==
  /\ IsFiniteSet(Objects) /\ Parent \in [Objects -> Places]
  /\ Dirs \cap Storages = {} /\ Bad \subseteq Objects
  /\ Null # Nil /\ {Null, Nil} \cap (Objects \cup Storages) = {}
  /\ Null \notin States /\ Nil \notin States /\ Null \notin BOOLEAN
ASSUME BoundsAssumption ==
  MaxClicks \in Nat /\ MaxSessions \in Nat /\ MaxHandlers \in Nat

VARIABLES
  session,    (* sessions so far                                              *)
  connected,  (* connected_, and ops_ and engine_ exist                       *)
  objects,    (* what is on the device                                        *)
  stack,      (* remote_nav_stack_                                            *)
  entries,    (* remote_entries_                                              *)
  refreshing, (* remote_refreshing_, as left by the monitor                   *)
  mon,        (* the monitor: "idle", "refresh", "lock", "listing"            *)
  todo,       (* what the monitor has still to list                           *)
  queue,      (* blocks on the main queue, [op, arg, from]                    *)
  conn,       (* connected_, as get_state has read it before the lock         *)
  half,       (* what get_state has collected under device_mtx_               *)
  answer,     (* the answer to get_state on its way to the page               *)
  poll,       (* the page: "timer" or "asked"                                 *)
  S,          (* S: connected, remoteNavStack, remoteRefreshing, remoteFiles  *)
  rows,       (* the table on the screen                                      *)
  fp,         (* _remoteFingerprint; the one of no file is the empty string   *)
  sel,        (* S.selRemote                                                  *)
  ctx,        (* _ctxFile while the context menu is open                      *)
  handlers,   (* drop handlers on the container; the bound stands for more    *)
  clicks,     (* clicks and keys of the user, except Escape and on the path   *)
  skipped,    (* history variable: stack changed, and nothing was listed      *)
  overtaken,  (* history variable: a folder was opened from a list of another *)
              (* folder than the one on top                                   *)
  careless    (* history variable: the table has changed under the selection, *)
              (* or all was selected while no table was shown                 *)

app == <<connected, objects, stack, entries, refreshing, session>>
monitor == <<mon, todo>>
told == <<conn, half, answer>>
main == <<queue, told>>
view == <<poll, S, rows, fp, handlers>>
user == <<sel, ctx, clicks, careless>>
history == <<skipped, overtaken>>
vars == <<app, monitor, main, view, user, history>>

NoState == [connected |-> FALSE, stack |-> <<>>, refreshing |-> FALSE, files |-> {},
            session |-> 0, good |-> TRUE]

Init ==
  /\ session = 0 /\ connected = FALSE
  /\ objects = Objects
  /\ stack = <<>> /\ entries = {} /\ refreshing = FALSE
  /\ mon = "idle" /\ todo = {}
  /\ queue = <<>> /\ conn = Null /\ half = Null /\ answer = Null
  /\ poll = "timer" /\ S = NoState
  /\ rows = {} /\ fp = {} /\ sel = {} /\ ctx = Null /\ handlers = 0
  /\ clicks = 0
  /\ skipped = FALSE /\ overtaken = FALSE /\ careless = FALSE

Children(objs, p) == {h \in objs : Parent[h] = p}

------------------------------------------------------------------------------
(* The monitor *)

(* on_device_connected; the device may have other objects under the handles. *)
Connect ==
  /\ ~connected /\ mon = "idle" /\ session < MaxSessions
  /\ session' = session + 1
  /\ objects' = Objects
  /\ \/ \E s \in Storages : stack' = <<s>>
     \/ stack' = <<>>                            \* it did not say which it has
  /\ entries' = {}
  /\ connected' = TRUE
  /\ mon' = "refresh"
  /\ skipped' = FALSE /\ overtaken' = FALSE
  /\ UNCHANGED <<refreshing, todo, main, view, user>>

Locked == mon = "listing"

(* on_device_disconnected, on either thread *)
Drops ==
  /\ connected' = FALSE
  /\ stack' = <<>> /\ entries' = {}
  /\ skipped' = FALSE /\ overtaken' = FALSE
  /\ UNCHANGED <<objects, refreshing, session>>

Disconnect ==
  /\ connected /\ mon = "idle"
  /\ Drops
  /\ UNCHANGED <<monitor, main, view, user>>

RefreshStarts ==
  /\ mon = "refresh"
  /\ IF connected
       THEN mon' = "lock" /\ refreshing' = TRUE /\ entries' = {}
       ELSE mon' = "idle" /\ UNCHANGED <<refreshing, entries>>
  /\ UNCHANGED <<connected, objects, stack, session, todo, main, view, user, history>>

(* The top of the stack is read under a lock navigation does not take. *)
RefreshReads ==
  /\ mon = "lock"
  /\ IF connected /\ stack # <<>>
       THEN /\ mon' = "listing"
            /\ todo' = Children(objects, Last(stack))
            /\ skipped' = FALSE
            /\ UNCHANGED refreshing
       ELSE /\ mon' = "idle" /\ refreshing' = FALSE
            /\ UNCHANGED <<todo, skipped>>
  /\ UNCHANGED <<connected, objects, stack, entries, session, main, view, user, overtaken>>

RefreshAdds(h) ==
  /\ mon = "listing" /\ h \in todo
  /\ entries' = entries \cup {h}
  /\ todo' = todo \ {h}
  /\ UNCHANGED <<connected, objects, stack, refreshing, session, mon, main, view, user,
                 history>>

RefreshEnds ==
  /\ mon = "listing" /\ todo = {}
  /\ mon' = "idle" /\ refreshing' = FALSE
  /\ UNCHANGED <<connected, objects, stack, entries, session, todo, main, view, user,
                 history>>

Refresh == RefreshStarts \/ RefreshReads \/ (\E h \in Objects : RefreshAdds(h)) \/ RefreshEnds

------------------------------------------------------------------------------
(* The main thread *)

(* refresh_remote, with the stack the call has just set *)
MutKeepsTheList == UNCHANGED <<entries, skipped>>

RefreshRemote ==
  IF ~connected \/ refreshing
    THEN skipped' = (connected /\ (skipped \/ stack' # stack)) /\ UNCHANGED entries
    ELSE /\ skipped' = FALSE
         /\ entries' = IF stack' = <<>> THEN {} ELSE Children(objects', Last(stack'))

Is(op) == queue # <<>> /\ Head(queue).op = op
Sent(op) == {k \in 1..Len(queue) : queue[k].op = op}
Done == queue' = Tail(queue)
Navigates == Done /\ UNCHANGED objects
Arg == Head(queue).arg

(* state_json reads connected_, and then the path under device_mtx_. *)
Begin ==
  /\ Is("get_state") /\ conn = Null /\ half = Null
  /\ conn' = connected
  /\ UNCHANGED <<app, monitor, queue, half, answer, view, user, history>>

Collect ==
  /\ conn # Null /\ ~Locked
  /\ half' = [connected |-> conn, stack |-> stack, refreshing |-> refreshing,
              files |-> {}, session |-> session, good |-> ~skipped]
  /\ conn' = Null
  /\ UNCHANGED <<app, monitor, queue, answer, view, user, history>>

(* The rest of it, and stringWithUTF8String.  As history, good is false where  *)
(* the session has changed between the halves, or the list is behind the stack; *)
(* the session itself is not told.                                             *)
Unreadable(st) == (st.files \cup Range(st.stack)) \cap Bad # {}

Answer ==
  /\ half # Null
  /\ LET st == [half EXCEPT !.files = entries, !.session = 0,
                            !.good = @ /\ half.session = session]
     IN answer' = IF Unreadable(st) THEN Nil ELSE st
  /\ half' = Null
  /\ queue' = Tail(queue)
  /\ UNCHANGED <<app, monitor, conn, view, user, history>>

NavigateRemote ==
  /\ Is("navigate_remote") /\ Navigates
  /\ stack' = Append(stack, Arg)
  /\ overtaken' = (overtaken \/ stack = <<>> \/ Last(stack) # Head(queue).from)
  /\ RefreshRemote
  /\ UNCHANGED <<connected, refreshing, session, monitor, told, view, user>>

NavigateUp ==
  /\ Is("navigate_remote_up") /\ Navigates
  /\ IF Len(stack) > 1
       THEN stack' = Front(stack) /\ RefreshRemote
       ELSE UNCHANGED <<stack, entries, skipped>>
  /\ UNCHANGED <<connected, refreshing, session, monitor, told, view, user,
                 overtaken>>

NavigateTo ==
  /\ Is("navigate_remote_to") /\ Navigates
  /\ IF Arg < Len(stack)
       THEN stack' = SubSeq(stack, 1, Arg + 1) /\ RefreshRemote
       ELSE UNCHANGED <<stack, entries, skipped>>
  /\ UNCHANGED <<connected, refreshing, session, monitor, told, view, user,
                 overtaken>>

MutKeepsPath(s) == Append(stack, s)
Rooted(s) == <<s>>

SetStorage ==
  /\ Is("set_storage") /\ Navigates /\ ~Locked
  /\ stack' = Rooted(Arg)
  /\ overtaken' = FALSE
  /\ RefreshRemote
  /\ UNCHANGED <<connected, refreshing, session, monitor, told, view, user>>

RefreshAgain ==
  /\ Is("refresh_remote") /\ Navigates
  /\ UNCHANGED stack
  /\ RefreshRemote
  /\ UNCHANGED <<connected, refreshing, session, monitor, told, view, user,
                 overtaken>>

(* delete_object fails for an object that is not there, or not empty. *)
DeleteRemote ==
  /\ Is("delete_remote") /\ Done /\ ~Locked
  /\ objects' = IF connected /\ Children(objects, Arg) = {} THEN objects \ {Arg} ELSE objects
  /\ UNCHANGED stack
  /\ RefreshRemote
  /\ UNCHANGED <<connected, refreshing, session, monitor, told, view, user, overtaken>>

(* start_upload hands the file to the engine, and names the top of the stack. *)
StartUpload ==
  /\ Is("start_upload") /\ Done
  /\ UNCHANGED <<app, monitor, told, view, user, history>>

Reconnect ==
  /\ Is("reconnect") /\ Done /\ ~Locked
  /\ Drops
  /\ UNCHANGED <<monitor, told, view, user>>

Handle ==
  \/ Begin \/ Collect \/ Answer \/ NavigateRemote \/ NavigateUp \/ NavigateTo \/ SetStorage
  \/ RefreshAgain \/ DeleteRemote \/ StartUpload \/ Reconnect

------------------------------------------------------------------------------
(* The page: poll and render *)

Call(op, arg, from) == [op |-> op, arg |-> arg, from |-> from]
Calls(op, hs) == [k \in 1..Len(hs) |-> Call(op, hs[k], Null)]

MutByTheClock == "timer"
Asked == "asked"

Ask ==
  /\ poll = "timer"
  /\ queue' = Append(queue, Call("get_state", Null, Null))
  /\ poll' = Asked
  /\ UNCHANGED <<app, monitor, told, S, rows, fp, handlers, user, history>>

(* renderRemoteFiles: the table is built again only if the list has changed. *)
MutStaysBuilt == fp
Disconnected == {}

Render(new) ==
  IF ~new.connected
    THEN rows' = {} /\ fp' = Disconnected /\ UNCHANGED handlers
    ELSE IF new.refreshing
      THEN rows' = {} /\ fp' = {Null} /\ UNCHANGED handlers
      ELSE /\ fp' = new.files
           /\ rows' = IF new.files = fp THEN rows ELSE new.files
           /\ handlers' = IF new.files \in {fp, {}} \/ handlers = MaxHandlers
                            THEN handlers ELSE handlers + 1

(* An answer that is nil becomes "(null)" (WebUI.mm:147), which is null for the *)
(* page: it shows nothing new, and asks again.                                 *)
MutWaitsForever == IF answer = Nil THEN "never" ELSE "timer"
Again == "timer"

Receive ==
  /\ poll = "asked" /\ answer # Null
  /\ answer' = Null
  /\ poll' = Again
  /\ IF answer = Nil
       THEN UNCHANGED <<S, rows, fp, handlers, careless>>
       ELSE /\ S' = answer
            /\ Render(answer)
            /\ careless' = (careless \/ (rows' # rows /\ (sel # {} \/ ctx # Null)))
  /\ UNCHANGED <<app, monitor, queue, conn, half, sel, ctx, clicks, history>>

------------------------------------------------------------------------------
(* The page: the user.  Every click closes the context menu. *)

Acts == clicks < MaxClicks /\ clicks' = clicks + 1 /\ UNCHANGED <<app, monitor, view, history>>
Sends(calls) == queue' = queue \o calls /\ UNCHANGED told
Point == Acts /\ ctx' = Null
Click == Point /\ UNCHANGED <<sel, careless>>

Here == IF S.stack = <<>> \/ ~S.good THEN Null ELSE Last(S.stack)

(* handleRowClick: a click selects the row alone, one with Shift the rows from  *)
(* the one clicked before, whose place the model does not keep, and with Cmd   *)
(* they are added, or a single one is added or taken out.                      *)
Marks(h, single) ==
  \/ \E range \in SUBSET rows :
       /\ h \in range
       /\ \/ sel' = range /\ careless' = FALSE
          \/ sel' = sel \cup range /\ UNCHANGED careless
  \/ sel' = single /\ UNCHANGED careless

(* A double click is two clicks first. *)
Open(h) ==
  /\ Point
  /\ h \in rows \cap Dirs
  /\ Marks(h, sel)
  /\ Sends(<<Call("navigate_remote", h, Here)>>)

Up ==
  /\ Click
  /\ Len(S.stack) > 1
  /\ Sends(<<Call("navigate_remote_up", Null, Null)>>)

(* Bound: one such call at a time, but beside the other clicks. *)
Crumb(k) ==
  /\ k \in 1..(Len(S.stack) - 2)
  /\ Sent("navigate_remote_to") = {}
  /\ ctx' = Null
  /\ Sends(<<Call("navigate_remote_to", k, Null)>>)
  /\ UNCHANGED <<app, monitor, view, sel, clicks, careless, history>>

ChooseStorage(s) ==
  /\ Click
  /\ S.connected
  /\ Sends(<<Call("set_storage", s, Null)>>)

PressRefresh == Click /\ Sends(<<Call("refresh_remote", Null, Null)>>)
PressReconnect == Click /\ Sends(<<Call("reconnect", Null, Null)>>)

Select(h) ==
  /\ Point /\ UNCHANGED main
  /\ h \in rows
  /\ Marks(h, IF h \in sel THEN sel \ {h} ELSE sel \cup {h})

(* Cmd+A adds the list, be it shown or not. *)
Hidden == ~S.connected \/ S.refreshing

SelectAll ==
  /\ Acts /\ UNCHANGED <<main, ctx>>
  /\ sel' = sel \cup S.files
  /\ careless' = (careless \/ Hidden)

MutKeepsSelection == sel
Deselected == {}

Escape ==
  /\ sel' = Deselected
  /\ careless' = (careless /\ ctx # Null)
  /\ UNCHANGED <<app, monitor, main, view, ctx, clicks, history>>

PressDelete ==
  /\ Acts /\ UNCHANGED <<sel, ctx, careless>>
  /\ sel # {}
  /\ Sends(Calls("delete_remote", SetToSeq(sel)))

ShowCtxMenu(h) ==
  /\ Acts /\ UNCHANGED <<main, sel, careless>>
  /\ h \in rows
  /\ ctx' = h

CtxDelete ==
  /\ Click
  /\ ctx # Null
  /\ LET several == sel # {ctx} /\ ctx \in sel
     IN Sends(Calls("delete_remote", SetToSeq(IF several THEN S.files \cap sel ELSE {ctx})))

(* Each drop handler sends the dropped file. *)
Drop ==
  /\ Acts /\ UNCHANGED <<sel, ctx, careless>>
  /\ handlers > 0
  /\ Sends(Calls("start_upload", [k \in 1..handlers |-> Null]))

Act ==
  \/ \E h \in Objects : Open(h) \/ Select(h) \/ ShowCtxMenu(h)
  \/ Up \/ (\E k \in 1..Len(S.stack) : Crumb(k)) \/ (\E s \in Storages : ChooseStorage(s))
  \/ PressRefresh \/ PressReconnect \/ SelectAll \/ Escape \/ PressDelete \/ CtxDelete \/ Drop

Next == Connect \/ Disconnect \/ Refresh \/ Handle \/ Ask \/ Receive \/ Act

Spec == Init /\ [][Next]_vars

(* The timer fires, the main queue and the monitor go on, answers arrive. *)
FairSpec ==
  Spec /\ WF_vars(Ask) /\ WF_vars(Handle) /\ WF_vars(Receive) /\ WF_vars(Refresh)

------------------------------------------------------------------------------
(* Properties *)

(* The types; a get_state is on its way, or its answer, exactly while the page *)
(* waits for one, so that no answer is overtaken by an older one.              *)
TypeOK ==
  /\ entries \cup todo \cup rows \cup sel \cup S.files \subseteq Objects
  /\ stack \in Seq(Places) /\ S.stack \in Seq(Places)
  /\ mon \in {"idle", "refresh", "lock", "listing"}
  /\ conn # Null \/ half # Null => Is("get_state")
  /\ poll = "asked" <=> (Sent("get_state") # {} \/ answer # Null)
  /\ Sent("get_state") # {} => (answer = Null /\ \A j, k \in Sent("get_state") : j = k)
  /\ ctx \in Objects \cup {Null} /\ handlers \in 0..MaxHandlers

(* What the page lists is in the folder its path ends with, unless navigation  *)
(* has met a listing of the monitor, or a state was collected across two       *)
(* sessions.                                                                   *)
PanelShowsItsPath ==
  S.good => \A h \in S.files : S.stack # <<>> /\ Parent[h] = Last(S.stack)

(* The path is one of the device's tree, from a storage down, as long as no    *)
(* folder is opened from a list that is not any more, or not yet, the one of   *)
(* the top: a second double click comes too early (app.js:258).                *)
PathIsOfTheTree ==
  (~overtaken /\ stack # <<>>) =>
    /\ stack[1] \in Storages
    /\ \A k \in 1..(Len(stack) - 1) : stack[k + 1] \in Dirs /\ Parent[stack[k + 1]] = stack[k]

(* The table has the files of the last state, though it is only built again    *)
(* where the list differs from the one it was built of (app.js:226).           *)
RowsAreTheFiles == (S.connected /\ ~S.refreshing) => rows = S.files

(* Delete reaches only rows of the table, as long as the user selects again    *)
(* after each change of the table, for the selection itself survives it, and   *)
(* selects all only where a table is shown.                                    *)
Doomed == {queue[k].arg : k \in Sent("delete_remote")}
DeletesAreOnScreen == [][~careless => Doomed' \subseteq Doomed \cup rows]_vars

(* The page comes to show what there is and goes on showing it, as soon as no  *)
(* name it would have to show is unreadable for good: while one is, no state   *)
(* arrives (WebUI.mm:53, app.js:53).                                           *)
PageCatchesUp ==
  <>[]((entries \cup Range(stack)) \cap Bad = {}) =>
    <>[](rows = entries /\ S.stack = stack /\ S.connected = connected)

(* "Drag files from left -> right to upload" (README.md:73): a drop sends the  *)
(* file once.                                                                  *)
OneDropOneUpload ==
  [][Drop => Cardinality(Sent("start_upload")') = Cardinality(Sent("start_upload")) + 1]_vars
==============================================================================
