-------------------------------- MODULE Multi --------------------------------
(***************************************************************************)
(* The multi handle of port-libcurl, src/safe/src/multi/mod.rs: one        *)
(* application thread that calls the curl_multi_* and curl_easy_* API, one  *)
(* worker thread per started transfer, and the event queue through which    *)
(* the workers report to the application thread.                           *)
(*                                                                         *)
(* The application thread is a stack machine.  todo holds what is left to   *)
(* do of the API calls in progress, the next step at its head; a step may   *)
(* put further steps in front of the rest.  When the head is a callback,    *)
(* the application's own code is running and may call the API again: the    *)
(* steps of that call go in front of the callback.  An early return of a    *)
(* call drops its remaining steps up to its "return".                      *)
(*                                                                         *)
(* Two steps that no lock, callback, join or read of the event queue        *)
(* separates in the code are one step here: the worker threads share only   *)
(* the event queue and the pause registry with the application thread.      *)
(*                                                                         *)
(* A definition whose name extends that of the next one, such as            *)
(* AddCallNoDrain before AddCall, is a slip a change of the code could make, *)
(* against which a property is tried; nothing uses it.                      *)
(***************************************************************************)
EXTENDS Naturals, Sequences, FiniteSets, SequencesExt

CONSTANTS
    Handle,         \* the addresses an easy handle can have; freed ones are reused
    NoHandle,       \* no easy handle
    MaxWorkers,     \* bound: worker threads that can exist at a time
    MaxSockets,     \* file descriptors left to the process for poll sockets
    MaxQueue,       \* bound: length of the event queue above which nobody adds
                    \* a wakeup or an offer of pushes to it
    MaxPushes,      \* bound: pushed streams in one offer
    Callbacks,      \* the callbacks the application may install
    Failing,        \* those of them that may report failure (or deny a push)
    AppCalls,       \* the API functions the application uses
    CallbackCalls   \* those of them that it also calls from inside a callback

CallbackName == {"socket", "timer", "push"}
CallName == {"init", "add", "remove", "perform", "poll", "info_read", "fdset",
             "wakeup", "multi_cleanup", "easy_init", "easy_cleanup",
             "easy_pause", "write_pause", "assign", "setopt"}

ASSUME HandleAssumption == NoHandle \notin Handle /\ IsFiniteSet(Handle)
ASSUME BoundAssumption ==
    /\ MaxWorkers \in Nat
    /\ MaxSockets \in Nat
    /\ MaxQueue \in Nat
    /\ MaxPushes \in Nat
ASSUME CallAssumption ==
    /\ Callbacks \subseteq CallbackName
    /\ Failing \subseteq Callbacks
    /\ AppCalls \subseteq CallName
    /\ CallbackCalls \subseteq {"add", "remove", "easy_pause", "assign", "wakeup"}

VARIABLES
    \* The easy handles and their registry (easy/perform.rs, easy/handle.rs).
    alive,       \* handles that are allocated
    owned,       \* handles the application holds and has not cleaned up
    attached,    \* attached_multi of the registry entry: set or not
    paused,      \* handles with a bit in the pause registry (transfer/mod.rs)
    \* MultiInner and the event queue of the one multi handle.
    multi,       \* whether the multi handle exists
    easies,      \* the handles, in the order they were added
    records,     \* TransferRecord of each handle that has one
    messages,    \* finished transfers not yet read by the application
    queue,       \* TransferEvents the workers have sent
    dead,        \* a callback has returned -1
    cbs,         \* the callbacks that are installed
    inCallback,  \* CallbackState.in_callback
    assignments, \* sockets that have a pointer assigned to them
    \* The worker threads.
    worker,
    \* The application: its stack of steps and what the callbacks told it.
    todo,
    rc,          \* the code the last callback or failed step gave
    watched,     \* sockets it was told to watch and not yet told to drop
    told         \* the last timeout the timer callback was given

handleVars == <<alive, owned, attached, paused>>
recordVars == <<easies, records, messages>>
callbackVars == <<dead, cbs, inCallback, told>>
socketVars == <<assignments, watched>>
vars == <<handleVars, multi, recordVars, queue, callbackVars, socketVars,
          worker, todo, rc>>

Slot == 1..MaxWorkers
Socket == 1..MaxSockets
Phase == {"none", "spawned", "running", "waiting", "ok", "failed"}
Active == {"spawned", "running", "waiting"}
Code == {"ok", "recursive", "aborted", "internal", "deny"}

-----------------------------------------------------------------------------
(* Steps and events.  A step names what it does, the easy handle it is about *)
(* and a number: a worker, a socket or a count of pushes.                    *)

Event == {"completed", "pushes", "wakeup"}
InCallback == {"poll_in_cb", "poll_remove_cb", "timer_cb", "push_cb"}
StepName == Event \cup InCallback \cup
    {"drain", "wait", "join", "timer", "timer_again", "poll_remove",
     "link", "unlink", "detach", "free", "start", "spawn", "launch", "read",
     "push", "accept", "push_spawn", "push_launch", "clear", "free_multi",
     "return"}

Step == [do : StepName, e : Handle \cup {NoHandle}, n : Nat]
Message == [e : Handle, n : Slot]
Record == [started : BOOLEAN, completed : BOOLEAN,
           worker : Slot \cup {0}, socket : Socket \cup {0}]

NoRecords == [e \in {} |-> NoHandle]

S(d, e, n) == [do |-> d, e |-> e, n |-> n]
Do(d) == S(d, NoHandle, 0)

cur == Head(todo)
rest == Tail(todo)
At(d) == todo # <<>> /\ cur.do = d
AtCallback == todo # <<>> /\ cur.do \in InCallback

\* What is left of the stack once the current API call has returned early:
\* its "return" and everything below.
AfterReturn(s) ==
    LET r == CHOOSE i \in DOMAIN s :
                 s[i].do = "return" /\ \A j \in 1..(i - 1) : s[j].do # "return"
    IN  SubSeq(s, r, Len(s))

\* Vec::retain against one handle.  The handle is in the sequence at most once
\* (EasiesUnique and MessagesUnique below), so one removal is all there is.
WithoutEasyKept(s, e) == s
WithoutEasy(s, e) ==
    IF \E i \in DOMAIN s : s[i] = e
    THEN RemoveAt(s, CHOOSE i \in DOMAIN s : s[i] = e)
    ELSE s
WithoutMessageKept(s, e) == s
WithoutMessageCleared(s, e) == <<>>
WithoutMessage(s, e) ==
    IF \E i \in DOMAIN s : s[i].e = e
    THEN RemoveAt(s, CHOOSE i \in DOMAIN s : s[i].e = e)
    ELSE s

\* Whether the application may call API function c now: between calls, or
\* from inside a callback.
MayCall(c) == /\ multi
              /\ \/ todo = <<>> /\ c \in AppCalls
                 \/ AtCallback /\ c \in CallbackCalls

Unstarted == {e \in DOMAIN records : ~records[e].started /\ ~records[e].completed}
Running == {e \in DOMAIN records : ~records[e].completed}

OpenSockets == {records[e].socket : e \in DOMAIN records}
               \cup {todo[i].n : i \in {j \in DOMAIN todo :
                                        todo[j].do \in {"launch", "push_launch"}}}

\* The ids no live thread, event, message or record refers to any more.
FreeSlots ==
    {w \in Slot : /\ worker[w].phase \notin Active
                  /\ \A i \in DOMAIN queue : ~(queue[i].do = "completed" /\ queue[i].n = w)
                  /\ \A i \in DOMAIN todo : ~(todo[i].do = "completed" /\ todo[i].n = w)
                  /\ \A i \in DOMAIN messages : messages[i].n # w
                  /\ \A e \in DOMAIN records : records[e].worker # w}

Least(s) == CHOOSE x \in s : \A y \in s : x <= y

\* native_timeout_from_inner: poll at once, poll after a while, or no timer.
NativeTimeoutUnread ==
    IF dead \/ Unstarted # {} THEN "now"
    ELSE IF Running # {} THEN "later" ELSE "never"
NativeTimeout ==
    IF dead \/ messages # <<>> \/ Unstarted # {} THEN "now"
    ELSE IF Running # {} THEN "later" ELSE "never"

\* record.worker.take() and the join of what it held, 0 when it held nothing.
JoinOfNobody(e) == S("join", e, 0)
JoinOf(e) == S("join", e, records[e].worker)
Ended(w) == worker[w].phase \notin Active

\* A callback is called when it is installed and none is in progress.
MayCallBackNested(c) == c \in cbs
MayCallBack(c) == c \in cbs /\ ~inCallback

-----------------------------------------------------------------------------
(* The bodies of the API functions, as the steps they put on the stack.      *)

AddCallNoDrain(e) == <<S("link", e, 0), Do("timer"), Do("return")>>
AddCall(e) == <<Do("drain"), S("link", e, 0), Do("timer"), Do("return")>>

RemoveCallNoDetach(e) == <<Do("drain"), S("unlink", e, 0), Do("timer"), Do("return")>>
RemoveCall(e) == <<Do("drain"), S("unlink", e, 0), S("detach", e, 0),
                   Do("timer"), Do("return")>>

\* easy_cleanup leaves the multi handle first.
EasyCleanupCall(e) ==
    IF attached[e] THEN RemoveCall(e) \o <<S("free", e, 0)>> ELSE <<S("free", e, 0)>>

PerformCallNoStart == <<Do("drain"), Do("timer"), Do("return")>>
PerformCall == <<Do("drain"), Do("start"), Do("return")>>
PollCall == <<Do("drain"), Do("wait"), Do("return")>>
InfoReadCall == <<Do("drain"), Do("read"), Do("return")>>
FdsetCall == <<Do("drain"), Do("return")>>
MultiCleanupCall == <<Do("drain"), Do("clear"), Do("free_multi")>>

Init ==
    /\ alive = {} /\ owned = {} /\ paused = {}
    /\ attached = [e \in Handle |-> FALSE]
    /\ multi = FALSE
    /\ easies = <<>> /\ records = NoRecords /\ messages = <<>> /\ queue = <<>>
    /\ dead = FALSE /\ cbs = {} /\ inCallback = FALSE
    /\ assignments = {} /\ watched = {} /\ told = "never"
    /\ worker = [w \in Slot |-> [e |-> NoHandle, phase |-> "none"]]
    /\ todo = <<>> /\ rc = "ok"

-----------------------------------------------------------------------------
(* API calls: what the application may do between and inside callbacks.      *)

\* curl_multi_init.  After curl_multi_cleanup the application may start over.
MultiInit ==
    /\ todo = <<>> /\ ~multi /\ "init" \in AppCalls
    /\ multi' = TRUE
    /\ easies' = <<>> /\ records' = NoRecords /\ messages' = <<>> /\ queue' = <<>>
    /\ dead' = FALSE /\ cbs' = {} /\ inCallback' = FALSE
    /\ assignments' = {} /\ watched' = {} /\ told' = "never"
    /\ UNCHANGED <<handleVars, worker, todo, rc>>

\* curl_multi_setopt of a callback function, which the application does before
\* it adds handles.
SetFunction(c) ==
    /\ todo = <<>> /\ multi /\ "setopt" \in AppCalls
    /\ DOMAIN records = {}
    /\ cbs' = IF c \in cbs THEN cbs \ {c} ELSE cbs \cup {c}
    /\ UNCHANGED <<handleVars, multi, recordVars, queue, dead, inCallback, told,
                   socketVars, worker, todo, rc>>

\* A call that only starts here: its steps are put on the stack.  The
\* application uses the handles it owns.
Call(c, steps) ==
    /\ MayCall(c)
    /\ todo' = steps \o todo
    /\ UNCHANGED <<multi, recordVars, queue, callbackVars, socketVars, worker, rc>>

AddHandle(e) ==
    /\ e \in owned /\ ~attached[e]
    /\ Call("add", AddCall(e)) /\ UNCHANGED handleVars

RemoveHandle(e) ==
    /\ e \in owned
    /\ Call("remove", RemoveCall(e)) /\ UNCHANGED handleVars

Perform == ~inCallback /\ ~dead /\ Call("perform", PerformCall) /\ UNCHANGED handleVars
Poll == ~inCallback /\ ~dead /\ Call("poll", PollCall) /\ UNCHANGED handleVars
InfoRead == ~inCallback /\ Call("info_read", InfoReadCall) /\ UNCHANGED handleVars
Fdset == ~inCallback /\ Call("fdset", FdsetCall) /\ UNCHANGED handleVars
MultiCleanup == Call("multi_cleanup", MultiCleanupCall) /\ UNCHANGED handleVars

\* curl_easy_cleanup: the application gives the handle up.
EasyCleanup(e) ==
    /\ todo = <<>> /\ "easy_cleanup" \in AppCalls
    /\ e \in owned
    /\ owned' = owned \ {e}
    /\ todo' = EasyCleanupCall(e)
    /\ UNCHANGED <<alive, attached, paused, multi, recordVars, queue,
                   callbackVars, socketVars, worker, rc>>

EasyInit(e) ==
    /\ todo = <<>> /\ "easy_init" \in AppCalls
    /\ e \notin alive
    /\ alive' = alive \cup {e} /\ owned' = owned \cup {e}
    /\ UNCHANGED <<attached, paused, multi, recordVars, queue, callbackVars,
                   socketVars, worker, todo, rc>>

\* curl_easy_pause sets or clears the bits of the handle, and wakes the multi
\* handle it is in.
EasyPause(e) ==
    /\ MayCall("easy_pause")
    /\ e \in owned
    /\ \/ paused' = paused \cup {e}
       \/ paused' = paused \ {e}
    /\ IF attached[e]
       THEN Len(queue) < MaxQueue /\ queue' = Append(queue, Do("wakeup"))
       ELSE UNCHANGED queue
    /\ UNCHANGED <<alive, owned, attached, multi, recordVars, callbackVars,
                   socketVars, worker, todo, rc>>

\* curl_multi_wakeup, which any thread may call at any time.
Wakeup ==
    /\ multi /\ "wakeup" \in AppCalls
    /\ Len(queue) < MaxQueue
    /\ queue' = Append(queue, Do("wakeup"))
    /\ UNCHANGED <<handleVars, multi, recordVars, callbackVars, socketVars,
                   worker, todo, rc>>

\* curl_multi_assign of a socket the application was told to watch.
Assign(fd) ==
    /\ MayCall("assign")
    /\ fd \in watched
    /\ assignments' = assignments \cup {fd}
    /\ UNCHANGED <<handleVars, multi, recordVars, queue, callbackVars, watched,
                   worker, todo, rc>>

-----------------------------------------------------------------------------
(* The event queue.                                                          *)

\* drain_events: everything that is in the queue now, in order.
DrainFirst ==
    /\ At("drain")
    /\ todo' = (IF queue = <<>> THEN <<>> ELSE <<Head(queue)>>) \o rest /\ queue' = <<>>
    /\ UNCHANGED <<handleVars, multi, recordVars, callbackVars, socketVars, worker, rc>>
Drain ==
    /\ At("drain")
    /\ todo' = queue \o rest /\ queue' = <<>>
    /\ UNCHANGED <<handleVars, multi, recordVars, callbackVars, socketVars, worker, rc>>

\* wait_common after its drain_events: it waits for one more event unless a
\* transfer has yet to be started or the timeout ends first.
WaitStartsOver ==
    /\ At("wait")
    /\ \/ todo' = todo /\ UNCHANGED queue
       \/ /\ Unstarted = {} /\ queue # <<>>
          /\ todo' = <<Head(queue), Do("drain")>> \o rest
          /\ queue' = Tail(queue)
    /\ UNCHANGED <<handleVars, multi, recordVars, callbackVars, socketVars, worker, rc>>
Wait ==
    /\ At("wait")
    /\ \/ todo' = rest /\ UNCHANGED queue
       \/ /\ Unstarted = {} /\ queue # <<>>
          /\ todo' = <<Head(queue), Do("drain")>> \o rest
          /\ queue' = Tail(queue)
    /\ UNCHANGED <<handleVars, multi, recordVars, callbackVars, socketVars, worker, rc>>

\* process_event of Completed: for a handle that is gone, or whose message has
\* been queued, nothing; else the record is completed and its message queued.
\* Its poll socket is closed before the socket callback hears of it.
Completed ==
    /\ At("completed")
    /\ IF cur.e \in Running
       THEN /\ records' = [records EXCEPT ![cur.e].completed = TRUE,
                                          ![cur.e].worker = 0,
                                          ![cur.e].socket = 0]
            /\ messages' = Append(messages, [e |-> cur.e, n |-> cur.n])
            /\ todo' = <<JoinOf(cur.e), S("poll_remove", cur.e, records[cur.e].socket),
                         Do("timer")>> \o rest
       ELSE todo' = rest /\ UNCHANGED <<records, messages>>
    /\ UNCHANGED <<handleVars, multi, easies, queue, callbackVars, socketVars, worker, rc>>

\* process_event of Wakeup.
Woken ==
    /\ At("wakeup")
    /\ todo' = rest
    /\ UNCHANGED <<handleVars, multi, recordVars, queue, callbackVars, socketVars, worker, rc>>

\* JoinHandle::join: the application thread blocks until the worker has ended.
\* Nobody to join is 0.
Join ==
    /\ At("join")
    /\ cur.n # 0 => Ended(cur.n)
    /\ todo' = rest
    /\ UNCHANGED <<handleVars, multi, recordVars, queue, callbackVars, socketVars, worker, rc>>

-----------------------------------------------------------------------------
(* The callbacks.  Each is called with in_callback set and no lock held, and  *)
(* not at all when another callback is in progress.                          *)

\* update_timer.
UpdateTimer(k) ==
    IF "timer" \notin cbs THEN
        /\ rc' = "ok" /\ todo' = k /\ UNCHANGED <<inCallback, told>>
    ELSE IF ~MayCallBack("timer") THEN
        /\ rc' = "recursive" /\ todo' = k /\ UNCHANGED <<inCallback, told>>
    ELSE
        /\ inCallback' = TRUE /\ told' = NativeTimeout
        /\ todo' = <<Do("timer_cb")>> \o k /\ UNCHANGED rc

Timer ==
    /\ At("timer")
    /\ UpdateTimer(rest)
    /\ UNCHANGED <<handleVars, multi, recordVars, queue, dead, cbs, socketVars, worker>>

\* perform_handle updates the timer a second time, unless the first one failed.
TimerAgain ==
    /\ At("timer_again")
    /\ IF rc = "ok" THEN UpdateTimer(rest)
       ELSE todo' = rest /\ UNCHANGED <<inCallback, told, rc>>
    /\ UNCHANGED <<handleVars, multi, recordVars, queue, dead, cbs, socketVars, worker>>

\* invoke_socket_callback with CURL_POLL_REMOVE.
PollRemove ==
    /\ At("poll_remove")
    /\ IF MayCallBack("socket")
       THEN /\ inCallback' = TRUE
            /\ todo' = <<S("poll_remove_cb", cur.e, cur.n)>> \o rest
            /\ watched' = watched \ {cur.n}
       ELSE todo' = rest /\ UNCHANGED <<inCallback, watched>>
    /\ UNCHANGED <<handleVars, multi, recordVars, queue, dead, cbs, told,
                   assignments, worker, rc>>

\* The application returns from a callback; what it was told to drop it drops.
\* -1 from the timer or the socket callback marks the multi handle dead.
Kind(d) == CASE d = "timer_cb" -> "timer" [] d = "push_cb" -> "push" [] OTHER -> "socket"

CallbackReturn(ok) ==
    /\ AtCallback
    /\ ok \/ Kind(cur.do) \in Failing
    /\ inCallback' = FALSE
    /\ rc' = IF ok THEN "ok" ELSE IF cur.do = "push_cb" THEN "deny" ELSE "aborted"
    /\ dead' = (dead \/ rc' = "aborted")
    /\ assignments' = IF cur.do = "poll_remove_cb" THEN assignments \ {cur.n} ELSE assignments
    /\ owned' = IF cur.do = "push_cb" /\ ok THEN owned \cup {cur.e} ELSE owned
    /\ todo' = rest
    /\ UNCHANGED <<alive, attached, paused, multi, recordVars, queue, cbs, told,
                   watched, worker>>

-----------------------------------------------------------------------------
(* Adding, removing and freeing handles.                                     *)

NewRecord(started) ==
    [started |-> started, completed |-> FALSE, worker |-> 0, socket |-> 0]

Insert(e, started) ==
    /\ easies' = IF \E i \in DOMAIN easies : easies[i] = e THEN easies
                 ELSE Append(easies, e)
    /\ records' = [x \in DOMAIN records \cup {e} |->
                     IF x = e THEN NewRecord(started) ELSE records[x]]
    /\ attached' = [attached EXCEPT ![e] = TRUE]

Erase(e) ==
    /\ easies' = WithoutEasy(easies, e)
    /\ records' = [x \in DOMAIN records \ {e} |-> records[x]]

\* add_handle after its drain_events; a callback of the drain may have added
\* the handle already.
Link ==
    /\ At("link")
    /\ IF cur.e \in DOMAIN records
       THEN todo' = AfterReturn(rest) /\ UNCHANGED <<easies, records, attached>>
       ELSE Insert(cur.e, FALSE) /\ todo' = rest
    /\ UNCHANGED <<alive, owned, paused, multi, messages, queue, callbackVars,
                   socketVars, worker, rc>>

\* remove_handle after its drain_events.  The record goes, its poll socket
\* with it, and the worker is joined.
Unlink ==
    /\ At("unlink")
    /\ IF cur.e \in DOMAIN records
       THEN /\ Erase(cur.e)
            /\ messages' = WithoutMessage(messages, cur.e)
            /\ todo' = <<JoinOf(cur.e)>> \o rest
       ELSE todo' = AfterReturn(rest) /\ UNCHANGED recordVars
    /\ UNCHANGED <<handleVars, multi, queue, callbackVars, socketVars, worker, rc>>

Detach ==
    /\ At("detach")
    /\ attached' = [attached EXCEPT ![cur.e] = FALSE]
    /\ todo' = rest
    /\ UNCHANGED <<alive, owned, paused, multi, recordVars, queue, callbackVars,
                   socketVars, worker, rc>>

\* The end of easy_cleanup: pause bits, registry entry and handle go.
FreeKeepsEntry ==
    /\ At("free")
    /\ alive' = alive \ {cur.e} /\ paused' = paused \ {cur.e}
    /\ todo' = rest
    /\ UNCHANGED <<owned, attached, multi, recordVars, queue, callbackVars, socketVars, worker, rc>>
Free ==
    /\ At("free")
    /\ alive' = alive \ {cur.e} /\ paused' = paused \ {cur.e}
    /\ attached' = [attached EXCEPT ![cur.e] = FALSE]
    /\ todo' = rest
    /\ UNCHANGED <<owned, multi, recordVars, queue, callbackVars, socketVars, worker, rc>>

\* cleanup_handle after its drain_events: every record goes at once, then the
\* workers are joined, then the handles are detached.
Clear ==
    /\ At("clear")
    /\ todo' = [i \in 1..Len(easies) |-> JoinOf(easies[i])]
               \o [i \in 1..Len(easies) |-> S("detach", easies[i], 0)] \o rest
    /\ easies' = <<>> /\ records' = NoRecords /\ messages' = <<>>
    /\ assignments' = {}
    /\ UNCHANGED <<handleVars, multi, queue, callbackVars, watched, worker, rc>>

FreeMulti ==
    /\ At("free_multi")
    /\ multi' = FALSE /\ queue' = <<>> /\ todo' = rest
    /\ UNCHANGED <<handleVars, recordVars, callbackVars, socketVars, worker, rc>>

\* info_read_handle after its drain_events.
Read ==
    /\ At("read")
    /\ messages' = IF messages # <<>> THEN Tail(messages) ELSE messages
    /\ todo' = rest
    /\ UNCHANGED <<handleVars, multi, easies, records, queue, callbackVars,
                   socketVars, worker, rc>>

\* The call returns; its result is the application's.
Return ==
    /\ At("return")
    /\ todo' = rest /\ rc' = "ok"
    /\ UNCHANGED <<handleVars, multi, recordVars, queue, callbackVars, socketVars, worker>>

-----------------------------------------------------------------------------
(* Starting transfers.                                                       *)

\* The order in which a HashMap hands out its entries is arbitrary.
Orders(H) == {s \in [1..Cardinality(H) -> H] : \A e \in H : \E i \in DOMAIN s : s[i] = e}

\* start_pending_transfers marks every unstarted record as started, then
\* starts one after the other.
Start ==
    /\ At("start")
    /\ records' = [e \in DOMAIN records |->
                     IF e \in Unstarted THEN [records[e] EXCEPT !.started = TRUE]
                     ELSE records[e]]
    /\ \E order \in Orders(Unstarted) :
         todo' = [i \in DOMAIN order |-> S("spawn", order[i], 0)]
                 \o <<Do("timer"), Do("timer_again")>> \o rest
    /\ UNCHANGED <<handleVars, multi, easies, messages, queue, callbackVars,
                   socketVars, worker, rc>>

\* spawn_transfer_worker up to its socket callback: it makes a poll socket, the
\* lowest free one, which fails when there is none, and announces it.
Spawn ==
    /\ At("spawn") \/ At("push_spawn")
    /\ LET next == IF cur.do = "spawn" THEN "launch" ELSE "push_launch"
           free == Socket \ OpenSockets
           fd == Least(free)
       IN  \/ /\ free = {}
              /\ rc' = "internal" /\ todo' = <<S(next, cur.e, 0)>> \o rest
              /\ UNCHANGED <<inCallback, watched>>
           \/ /\ free # {} /\ "socket" \notin cbs
              /\ rc' = "ok" /\ todo' = <<S(next, cur.e, fd)>> \o rest
              /\ UNCHANGED <<inCallback, watched>>
           \/ /\ free # {} /\ "socket" \in cbs /\ ~MayCallBack("socket")
              /\ rc' = "recursive" /\ todo' = <<S(next, cur.e, fd)>> \o rest
              /\ UNCHANGED <<inCallback, watched>>
           \/ /\ free # {} /\ MayCallBack("socket")
              /\ inCallback' = TRUE /\ watched' = watched \cup {fd}
              /\ todo' = <<S("poll_in_cb", cur.e, fd), S(next, cur.e, fd)>> \o rest
              /\ UNCHANGED rc
    /\ UNCHANGED <<handleVars, multi, recordVars, queue, dead, cbs, told,
                   assignments, worker>>

\* The rest of spawn_transfer_worker: the thread starts and its record, if
\* there still is one, takes the poll socket and the thread's handle.
StartWorker(e, fd) ==
    /\ FreeSlots # {}
    /\ LET w == Least(FreeSlots) IN
       /\ worker' = [worker EXCEPT ![w] = [e |-> e, phase |-> "spawned"]]
       /\ records' = IF e \in DOMAIN records
                     THEN [records EXCEPT ![e].worker = w, ![e].socket = fd]
                     ELSE records

\* When a transfer does not start, start_pending_transfers returns at once.
Launch ==
    /\ At("launch")
    /\ IF rc = "ok"
       THEN StartWorker(cur.e, cur.n) /\ todo' = rest
       ELSE todo' = AfterReturn(rest) /\ UNCHANGED <<records, worker>>
    /\ UNCHANGED <<handleVars, multi, easies, messages, queue, callbackVars, socketVars, rc>>

-----------------------------------------------------------------------------
(* HTTP/2 pushes, which the worker of the parent transfer has offered.       *)

\* schedule_http2_pushes: nothing when the parent has left the multi handle or
\* there is no push callback.
Pushes ==
    /\ At("pushes")
    /\ todo' = IF attached[cur.e] /\ "push" \in cbs
               THEN <<S("push", cur.e, cur.n)>> \o rest ELSE rest
    /\ UNCHANGED <<handleVars, multi, recordVars, queue, callbackVars, socketVars, worker, rc>>

\* One pushed stream: a handle for it is allocated and the application asked.
\* Inside another callback the rest of the offer is dropped.  (Bound: when all
\* of Handle is in use the push is denied unasked.)
Push ==
    /\ At("push")
    /\ \/ /\ cur.n = 0 \/ inCallback \/ alive = Handle
          /\ todo' = rest /\ UNCHANGED <<alive, inCallback>>
       \/ /\ cur.n > 0 /\ ~inCallback
          /\ \E h \in Handle \ alive :
               /\ alive' = alive \cup {h}
               /\ inCallback' = TRUE
               /\ todo' = <<S("push_cb", h, 0), S("accept", h, 0),
                            S("push", cur.e, cur.n - 1)>> \o rest
    /\ UNCHANGED <<owned, attached, paused, multi, recordVars, queue, dead, cbs,
                   told, socketVars, worker, rc>>

\* A denied push is cleaned up; an accepted one gets a record, already marked
\* as started, and a worker.  When it has a record already, as the application has
\* added it against the documentation, the code cleans it up with inner locked,
\* and the remove_handle in that locks inner again: the thread blocks for good.
Accept ==
    /\ At("accept")
    /\ rc = "ok" => cur.e \notin DOMAIN records
    /\ IF rc = "ok"
       THEN /\ Insert(cur.e, TRUE)
            /\ todo' = <<S("push_spawn", cur.e, 0)>> \o rest
       ELSE /\ todo' = EasyCleanupCall(cur.e) \o rest
            /\ UNCHANGED <<easies, records, attached>>
    /\ UNCHANGED <<alive, owned, paused, multi, messages, queue, callbackVars,
                   socketVars, worker, rc>>

\* When its worker does not start, the accepted handle is cleaned up again.  The
\* application took it over and hears nothing of it; from here on it is not counted
\* as owned, since to use it would be to use freed memory.
PushLaunch ==
    /\ At("push_launch")
    /\ IF rc = "ok"
       THEN /\ StartWorker(cur.e, cur.n)
            /\ todo' = <<Do("timer")>> \o rest
            /\ UNCHANGED <<easies, owned>>
       ELSE /\ Erase(cur.e)
            /\ owned' = owned \ {cur.e}
            /\ todo' = EasyCleanupCall(cur.e) \o rest
            /\ UNCHANGED worker
    /\ UNCHANGED <<alive, attached, paused, multi, messages, queue, callbackVars,
                   socketVars, rc>>

-----------------------------------------------------------------------------
(* The worker threads.                                                       *)

WorkerGoes(w, from, to) ==
    /\ worker[w].phase = from
    /\ worker' = [worker EXCEPT ![w].phase = to]

\* perform_transfer begins with release_handle_state, which clears the pause
\* bits of the handle.
WorkerStart(w) ==
    /\ WorkerGoes(w, "spawned", "running")
    /\ paused' = paused \ {worker[w].e}
    /\ UNCHANGED <<alive, owned, attached, multi, recordVars, queue, callbackVars,
                   socketVars, todo, rc>>

\* The worker is about to use a write or read callback of the transfer: while a
\* bit is set it waits.  The callback may itself ask for the pause.
WorkerWait(w) ==
    /\ WorkerGoes(w, "running", "waiting")
    /\ \/ worker[w].e \in paused /\ UNCHANGED paused
       \/ "write_pause" \in AppCalls /\ paused' = paused \cup {worker[w].e}
    /\ UNCHANGED <<alive, owned, attached, multi, recordVars, queue, callbackVars,
                   socketVars, todo, rc>>

WorkerResumeNever(w) == worker[w].phase = "none" /\ WorkerGoes(w, "waiting", "running")
WorkerResume(w) ==
    /\ worker[w].e \notin paused
    /\ WorkerGoes(w, "waiting", "running")
    /\ UNCHANGED <<handleVars, multi, recordVars, queue, callbackVars, socketVars, todo, rc>>

\* offer_http2_pushes, of up to MaxPushes streams.
WorkerOffer(w) ==
    /\ worker[w].phase = "running"
    /\ multi /\ attached[worker[w].e] /\ "push" \in cbs
    /\ Len(queue) < MaxQueue
    /\ \E n \in 1..MaxPushes : queue' = Append(queue, S("pushes", worker[w].e, n))
    /\ UNCHANGED <<handleVars, multi, recordVars, callbackVars, socketVars, worker, todo, rc>>

\* The transfer is over: a byte goes down the poll socket, then the event is
\* sent and the thread ends.
WorkerEnd(w, result) ==
    /\ WorkerGoes(w, "running", result)
    /\ queue' = IF multi THEN Append(queue, S("completed", worker[w].e, w)) ELSE queue
    /\ UNCHANGED <<handleVars, multi, recordVars, callbackVars, socketVars, todo, rc>>

-----------------------------------------------------------------------------
AppCall ==
    \/ MultiInit \/ Perform \/ Poll \/ InfoRead \/ Fdset \/ MultiCleanup \/ Wakeup
    \/ \E c \in Callbacks : SetFunction(c)
    \/ \E e \in Handle : \/ EasyInit(e) \/ EasyCleanup(e) \/ EasyPause(e)
                         \/ AddHandle(e) \/ RemoveHandle(e)
    \/ \E fd \in Socket : Assign(fd)

LibraryStep ==
    \/ Drain \/ Wait \/ Completed \/ Woken \/ Join
    \/ Timer \/ TimerAgain \/ PollRemove
    \/ Link \/ Unlink \/ Detach \/ Free \/ Clear \/ FreeMulti \/ Read \/ Return
    \/ Start \/ Spawn \/ Launch \/ Pushes \/ Push \/ Accept \/ PushLaunch

AppReturn == \E ok \in BOOLEAN : CallbackReturn(ok)

WorkerStep(w) ==
    \/ WorkerStart(w) \/ WorkerWait(w) \/ WorkerResume(w) \/ WorkerOffer(w)
    \/ \E result \in {"ok", "failed"} : WorkerEnd(w, result)

Next == AppCall \/ LibraryStep \/ AppReturn \/ \E w \in Slot : WorkerStep(w)

Spec == Init /\ [][Next]_vars

-----------------------------------------------------------------------------
(* Fairness.  The application thread is never stopped for good by the         *)
(* scheduler, nor is a worker; callbacks return; every transfer ends.  The    *)
(* application keeps calling perform and, in between, info_read.             *)
Fairness ==
    /\ WF_vars(LibraryStep) /\ WF_vars(AppReturn)
    /\ \A w \in Slot : WF_vars(WorkerStep(w) /\ ~WorkerOffer(w))
    /\ SF_vars(Perform) /\ SF_vars(InfoRead)

FairSpec == Spec /\ Fairness

-----------------------------------------------------------------------------
(* Properties.                                                               *)

\* Every variable has a value the code can give it.

TypeOK ==
    /\ alive \subseteq Handle /\ owned \subseteq Handle /\ paused \subseteq Handle
    /\ attached \in [Handle -> BOOLEAN]
    /\ multi \in BOOLEAN
    /\ easies \in Seq(Handle)
    /\ DOMAIN records \subseteq Handle /\ records \in [DOMAIN records -> Record]
    /\ messages \in Seq(Message)
    /\ queue \in Seq(Step) /\ \A i \in DOMAIN queue : queue[i].do \in Event
    /\ dead \in BOOLEAN /\ cbs \subseteq CallbackName /\ inCallback \in BOOLEAN
    /\ told \in {"now", "later", "never"}
    /\ assignments \subseteq Socket /\ watched \subseteq Socket
    /\ worker \in [Slot -> [e : Handle \cup {NoHandle}, phase : Phase]]
    /\ todo \in Seq(Step)
    /\ rc \in Code

\* The handles listed by curl_multi_get_handles are those that have a record,
\* each once.
EasiesUnique ==
    /\ {easies[i] : i \in DOMAIN easies} = DOMAIN records
    /\ \A i, j \in DOMAIN easies : easies[i] = easies[j] => i = j

\* A queued message is that of a handle which is in the multi handle and whose
\* transfer is over, and no handle has two: curl_multi_info_read never names a
\* handle that was removed or freed, nor the same transfer twice.
MessagesUnique ==
    /\ \A i \in DOMAIN messages : /\ messages[i].e \in DOMAIN records
                                  /\ records[messages[i].e].completed
    /\ \A i, j \in DOMAIN messages : messages[i].e = messages[j].e => i = j

\* The registry and the multi handle agree, between API calls, on which handles
\* are attached; and those are allocated.
AttachedHaveRecords ==
    todo = <<>> => \A e \in Handle : /\ attached[e] <=> e \in DOMAIN records
                                     /\ attached[e] => e \in alive

\* No thread works for a transfer that the multi handle has forgotten, nor with a
\* handle that is freed: the worker is held by the record of its handle or is being
\* joined, and its handle, whose callbacks and options it uses, lives until it ends.
WorkersHeld ==
    \A w \in Slot : worker[w].phase \in Active =>
        /\ worker[w].e \in alive
        /\ \/ \E e \in DOMAIN records : records[e].worker = w /\ worker[w].e = e
           \/ \E i \in DOMAIN todo : todo[i].do = "join" /\ todo[i].n = w

\* No callback is entered while another one is in progress, and in_callback
\* says whether one is.
CallbackExclusive ==
    /\ inCallback <=> \E i \in DOMAIN todo : todo[i].do \in InCallback
    /\ \A i, j \in DOMAIN todo :
         todo[i].do \in InCallback /\ todo[j].do \in InCallback => i = j

\* An event-driven application hears that it has to call at once: between API
\* calls, while a transfer waits to be started or a message to be read, the
\* last timeout it was given is zero.
TimerAnnounced ==
    "timer" \in cbs /\ todo = <<>> /\ (Unstarted # {} \/ messages # <<>>)
      => told = "now"

\* The end of a transfer is not lost on the application.  Between API calls, the
\* worker of a transfer that runs is still at work or its event is in the queue,
\* whatever was drained, waited for, removed and added anew before; and an
\* event-driven application watches the poll socket it will be told through, though
\* the numbers of closed sockets are used again and removal announces no close.
EndIsHeard ==
    todo = <<>> => \A e \in Running : LET w == records[e].worker IN w # 0 =>
        /\ \/ worker[w].phase \in Active
           \/ \E i \in DOMAIN queue : queue[i] = S("completed", e, w)
        /\ "socket" \in cbs => records[e].socket \in watched

\* A completed transfer is reported with the result of its own worker, the one
\* its record held.
OwnResult ==
    [][\A e \in DOMAIN records \cap DOMAIN records' :
         ~records[e].completed /\ records'[e].completed
           => cur.n = records[e].worker]_vars

\* A handle that is freed is forgotten: the application does not own it, and the
\* multi handle has no record of it and the registry does not call it attached, so
\* neither uses it after its end or takes a new handle at its address for it.
\* Between its steps the library frees a handle it has pushed: one that is denied,
\* and one that is accepted and gets no worker (which the application is not told,
\* see PushLaunch), while callbacks add and remove handles.
FreedIsForgotten ==
    owned \cup DOMAIN records \cup {e \in Handle : attached[e]} \subseteq alive

\* A transfer that is paused only for a while ends, however pausing and
\* unpausing interleave with its worker: no unpause is lost on it.
UnpausedEnds ==
    \A e \in Handle : <>[](e \notin paused) => (e \in Running ~> e \notin Running)

\* Every API call returns.
CallsReturn == todo # <<>> ~> todo = <<>>

\* What each handle is in the contract of the multi interface.
Status(e) ==
    IF e \notin DOMAIN records THEN "out"
    ELSE IF ~records[e].completed THEN "added"
    ELSE IF \E i \in DOMAIN messages : messages[i].e = e THEN "done" ELSE "told"

Contract == INSTANCE MultiContract WITH status <- [e \in Handle |-> Status(e)]
ContractSafety == Contract!Safety
ContractSpec == Contract!Spec
=============================================================================
