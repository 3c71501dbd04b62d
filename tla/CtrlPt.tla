------------------------------- MODULE CtrlPt -------------------------------
(***************************************************************************)
(* The sample control point, sample/ctrlpt.c: the list of devices that the *)
(* callbacks of the SDK, the timer loop, the command loop and main share   *)
(* under DeviceListMutex.  The list is modelled pointer by pointer: head   *)
(* is GlobalDeviceList, next the links, alloc the nodes that malloc gave   *)
(* and free has not taken back, and one step is one round of a loop.       *)
(*                                                                         *)
(* The SDK is represented by what the sample sees of it: calls that work   *)
(* or fail, callbacks on threads of its pool, and UpnpFinish, which        *)
(* returns when the callbacks have.                                        *)
(***************************************************************************)
EXTENDS Integers, Sequences, FiniteSets

CONSTANTS Uids,       \* identifiers of the devices
          Nodes,      \* memory: what malloc can return
          Null,       \* NULL
          Callbacks,  \* pool threads that may run the callback
          AdvrTimeOut,\* the life of an advertisement, set in CtrlPointAddDevice
          Incr,       \* how often the timer loop verifies it
          DevNums,    \* device numbers that the user may type
          MaxCommands \* bound on the commands the user types

ASSUME CtrlPtAssumption ==
  /\ Null \notin Nodes /\ AdvrTimeOut \in Nat \ {0} /\ Incr \in Nat \ {0}
  /\ DevNums \subseteq Int /\ MaxCommands \in Nat
  /\ IsFiniteSet(Uids) /\ IsFiniteSet(Nodes) /\ Cardinality(Nodes) >= Cardinality(Uids)
  /\ Callbacks \cap {"main", "cmd", "timer", "nobody"} = {}

Main   == "main"
Cmd    == "cmd"
Timer  == "timer"
Nobody == "nobody"
Threads == {Main, Cmd, Timer} \cup Callbacks

VARIABLES
  head, next, dev, alloc,   \* the list; dev[n] is [uid, left]
  lock,                     \* who holds DeviceListMutex
  pc,                       \* where a thread is
  loc,                      \* its local variables [op, arg, prev, cur, node, n]
  running,                  \* TvCtrlPointTimerLoopRun
  sdk,                      \* the SDK: "down", "up", "unregistered"; "over" when the process ends
  asked,                    \* nodes that a search was sent for since they were heard of
  commands                  \* commands typed

vars == <<head, next, dev, alloc, lock, pc, loc, running, sdk, asked, commands>>
list == <<head, next, dev, alloc>>
rest == <<running, sdk, asked, commands>>

Blank == [uid |-> Null, left |-> 0]
NoLoc == [op |-> "none", arg |-> Null, prev |-> Null, cur |-> Null, node |-> Null, n |-> 0]

Init ==
  /\ head = Null /\ next = [n \in Nodes |-> Null] /\ alloc = {}
  /\ dev = [n \in Nodes |-> Blank]
  /\ lock = Nobody /\ loc = [t \in Threads |-> NoLoc]
  /\ pc = [t \in Threads |-> IF t = Main THEN "start" ELSE IF t \in Callbacks THEN "idle" ELSE "off"]
  /\ running = TRUE /\ sdk = "down" /\ asked = {} /\ commands = 0

Goto(t, where)  == pc' = [pc EXCEPT ![t] = where]
Here(t, o)      == sdk # "over" /\ pc[t] = "walk" /\ loc[t].op = o
Move(t, cur)    == loc' = [loc EXCEPT ![t].prev = loc[t].cur, ![t].cur = cur]
\* What a thread does when the function it has called returns.
Then(t) == CASE loc[t].op = "refresh" -> "search" [] loc[t].op = "stop" -> "finish"
             [] loc[t].op = "remove" -> "print" [] OTHER -> "idle"
Free(n) ==
  /\ alloc' = alloc \ {n} /\ asked' = asked \ {n}
  /\ dev' = [dev EXCEPT ![n] = Blank]

----------------------------------------------------------------------------
(***************************************************************************)
(* The functions that hold DeviceListMutex.                                *)
(***************************************************************************)
Call(t, o, u, n) ==
  /\ Goto(t, "lock")
  /\ loc' = [loc EXCEPT ![t] = [NoLoc EXCEPT !.op = o, !.arg = u, !.n = n]]
  /\ UNCHANGED <<list, lock>>

\* ithread_mutex_lock, and the pointer set to the first node.
Acquire(t) ==
  /\ sdk # "over" /\ pc[t] = "lock" /\ lock = Nobody
  /\ lock' = t /\ Goto(t, "walk")
  /\ loc' = [loc EXCEPT ![t].cur = head]
  /\ UNCHANGED <<list, rest>>

ReleaseMutant(t) ==
  /\ lock' = IF loc[t].op = "remove" /\ head = Null THEN lock ELSE Nobody
  /\ Goto(t, Then(t)) /\ loc' = [loc EXCEPT ![t] = NoLoc]

\* ithread_mutex_unlock.
Release(t) == lock' = Nobody /\ Goto(t, Then(t)) /\ loc' = [loc EXCEPT ![t] = NoLoc]

Renewed(left) == AdvrTimeOut

\* CtrlPointAddDevice, the search for the device.
AddFind(t) ==
  LET c == loc[t].cur
  IN  /\ Here(t, "add") /\ loc[t].node = Null
      /\ \/ /\ c # Null /\ dev[c].uid = loc[t].arg               \* it is there
            /\ dev' = [dev EXCEPT ![c].left = Renewed(@)] /\ asked' = asked \ {c}
            /\ Release(t) /\ UNCHANGED <<head, next, alloc>>
         \/ /\ c # Null /\ dev[c].uid # loc[t].arg
            /\ Move(t, next[c]) /\ UNCHANGED <<list, lock, pc, asked>>
         \/ /\ c = Null                                          \* a new node
            /\ LET n == CHOOSE n \in Nodes \ alloc : TRUE                  \* malloc
               IN  /\ alloc' = alloc \cup {n} /\ next' = [next EXCEPT ![n] = Null]
                   /\ dev' = [dev EXCEPT ![n] = [uid |-> loc[t].arg, left |-> AdvrTimeOut]]
                   /\ loc' = [loc EXCEPT ![t].node = n, ![t].cur = head]
            /\ UNCHANGED asked
            /\ UNCHANGED <<head, lock, pc>>
      /\ UNCHANGED <<running, sdk, commands>>

\* The same, the insertion after the last node.
AddAppend(t) ==
  LET c == loc[t].cur
      n == loc[t].node
  IN  /\ Here(t, "add") /\ n # Null
      /\ \/ c = Null /\ head' = n /\ Release(t) /\ UNCHANGED next
         \/ c # Null /\ next[c] # Null /\ Move(t, next[c]) /\ UNCHANGED <<head, next, lock, pc>>
         \/ /\ c # Null /\ next[c] = Null
            /\ next' = [next EXCEPT ![c] = n] /\ Release(t) /\ UNCHANGED head
      /\ UNCHANGED <<dev, alloc, rest>>

\* A node leaves the list.
Unlink(prev, c) ==
  IF prev = Null THEN head' = next[c] /\ UNCHANGED next
                 ELSE next' = [next EXCEPT ![prev] = next[c]] /\ UNCHANGED head

\* CtrlPointRemoveDevice.
RemoveDevice(t) ==
  LET c == loc[t].cur
  IN  /\ Here(t, "remove")
      /\ \/ c = Null /\ Release(t) /\ UNCHANGED <<list, asked>>
         \/ /\ c # Null /\ dev[c].uid = loc[t].arg
            /\ Unlink(loc[t].prev, c) /\ Free(c) /\ Release(t)
         \/ /\ c # Null /\ dev[c].uid # loc[t].arg
            /\ Move(t, next[c]) /\ UNCHANGED <<list, lock, pc, asked>>
      /\ UNCHANGED <<running, sdk, commands>>

\* CtrlPointRemoveAll: the list is empty before the first node is freed.
RemoveAll(t) ==
  LET c == loc[t].cur
  IN  /\ Here(t, "refresh") \/ Here(t, "stop")
      /\ head' = Null
      /\ \/ c = Null /\ Release(t) /\ UNCHANGED <<alloc, dev, asked>>
         \/ c # Null /\ Free(c) /\ Move(t, next[c]) /\ UNCHANGED <<lock, pc>>
      /\ UNCHANGED <<next, running, sdk, commands>>

\* Where the timer's loop goes on once the node c is gone.
AfterMutant(prev, c) == c
After(prev, c)       == IF prev # Null THEN next'[prev] ELSE head'

AboutToExpire(left) == left < 2 * Incr

\* CtrlPointVerifyTimeouts.
VerifyTimeouts(t) ==
  LET c    == loc[t].cur
      left == dev[c].left - Incr
  IN  /\ Here(t, "verify")
      /\ \/ c = Null /\ Release(t) /\ UNCHANGED <<list, asked>>
         \/ /\ c # Null /\ left <= 0                              \* it has expired
            /\ Unlink(loc[t].prev, c) /\ Free(c)
            /\ loc' = [loc EXCEPT ![t].cur = After(loc[t].prev, c)]
            /\ UNCHANGED <<lock, pc>>
         \/ /\ c # Null /\ left > 0
            /\ dev' = [dev EXCEPT ![c].left = left]
            /\ asked' = IF AboutToExpire(left) THEN asked \cup {c} ELSE asked  \* UpnpSearchAsync
            /\ Move(t, next[c])
            /\ UNCHANGED <<head, next, alloc, lock, pc>>
      /\ UNCHANGED <<running, sdk, commands>>

\* CtrlPointGetDevice: count is devnum, taken down before each test.
GetDevice(t) ==
  /\ Here(t, "send") /\ loc[t].cur # Null /\ loc[t].n - 1 # 0 /\ loc[t].n # 0
  /\ loc' = [loc EXCEPT ![t].n = @ - 1, ![t].cur = next[@]]
  /\ UNCHANGED <<list, lock, pc, rest>>

\* CtrlPointSendAction: the action goes to the device that was found, if there
\* is one; what UpnpSendActionAsync makes of it is not the sample's concern.
SendAction(t) ==
  /\ Here(t, "send") /\ (loc[t].cur = Null \/ loc[t].n \in {0, 1})
  /\ Release(t)
  /\ UNCHANGED <<list, rest>>

\* CtrlPointPrintList.
PrintList(t) ==
  LET c == loc[t].cur
  IN  /\ Here(t, "print")
      /\ \/ c = Null /\ Release(t)
         \/ c # Null /\ Move(t, next[c]) /\ UNCHANGED <<lock, pc>>
      /\ UNCHANGED <<list, rest>>

----------------------------------------------------------------------------
(***************************************************************************)
(* The threads.                                                            *)
(***************************************************************************)
\* CtrlPointStart: UpnpInit and UpnpRegisterClient may fail, and then main
\* returns; otherwise the list is refreshed.
Start ==
  /\ pc[Main] = "start" /\ sdk = "down"
  /\ \/ /\ sdk' = "over" /\ Goto(Main, "off") /\ UNCHANGED <<list, lock, loc>>
     \/ /\ sdk' = "up" /\ Call(Main, "refresh", Null, 0)
  /\ UNCHANGED <<running, asked, commands>>

\* The rest of CtrlPointRefresh: the search, which may fail.  At the start it is
\* followed by the timer loop's and the command loop's threads.
SearchSent(t) ==
  /\ sdk # "over" /\ pc[t] = "search"
  /\ pc' = IF t = Main THEN [pc EXCEPT ![Main] = "sigwait", ![Timer] = "idle", ![Cmd] = "idle"]
                       ELSE [pc EXCEPT ![t] = "idle"]
  /\ UNCHANGED <<list, lock, loc, rest>>

\* CtrlPointTimerLoop: the test, the sleep, and CtrlPointVerifyTimeouts.
TimerLoop ==
  /\ sdk # "over" /\ pc[Timer] = "idle"
  /\ \/ running /\ Goto(Timer, "sleep") /\ UNCHANGED <<list, lock, loc>>
     \/ ~running /\ Goto(Timer, "off") /\ UNCHANGED <<list, lock, loc>>
  /\ UNCHANGED rest
TimerWakesMutant ==
  /\ sdk # "over" /\ pc[Timer] = "sleep" /\ head = Null
  /\ Call(Timer, "verify", Null, 0) /\ UNCHANGED rest
TimerWakes ==
  /\ sdk # "over" /\ pc[Timer] = "sleep"
  /\ Call(Timer, "verify", Null, 0) /\ UNCHANGED rest

\* CtrlPointSendPowerOn to CtrlPointSendReboot: an action for the nth device.
SendCommand(n) == Call(Cmd, "send", n, n)

\* CtrlPointCommandLoop and CtrlPointProcessCommand.  A line that is no command,
\* or has the wrong number of arguments, and the help commands change nothing.
Command ==
  /\ sdk # "over" /\ pc[Cmd] = "idle" /\ commands < MaxCommands
  /\ commands' = commands + 1
  /\ \/ \E n \in DevNums : SendCommand(n)
     \/ Call(Cmd, "print", Null, 0)                     \* ListDev
     \/ Call(Cmd, "refresh", Null, 0)                   \* Refresh
  /\ UNCHANGED <<running, sdk, asked>>

\* CtrlPointStop, by main after SIGINT or by the command Exit; both may be.
Stop(t) ==
  /\ sdk # "over" /\ ((t = Main /\ pc[t] = "sigwait") \/ (t = Cmd /\ pc[t] = "idle"))
  /\ running' = FALSE /\ Call(t, "stop", Null, 0)
  /\ UNCHANGED <<sdk, asked, commands>>

\* UpnpUnRegisterClient, after which no event is delivered, and UpnpFinish, which
\* waits for the callbacks that run; then the process ends.
Finish(t) ==
  /\ sdk # "over" /\ pc[t] = "finish"
  /\ \/ sdk = "up" /\ sdk' = "unregistered" /\ UNCHANGED pc
     \/ /\ sdk = "unregistered" /\ \A c \in Callbacks : pc[c] = "idle"
        /\ sdk' = "down" /\ UNCHANGED pc
     \/ sdk = "down" /\ sdk' = "over" /\ Goto(t, "off")
  /\ UNCHANGED <<list, lock, loc, running, asked, commands>>

\* CtrlPointCallbackEventHandler.  An advertisement or a search result of
\* another type of device locks and unlocks; the other events (a timeout, an
\* action complete, a renewal that failed) do not touch the list.
Callback(t) ==
  /\ sdk = "up" /\ pc[t] = "idle" /\ t \in Callbacks
  /\ \E u \in Uids : Call(t, "add", u, 0) \/ Call(t, "remove", u, 0)
  /\ UNCHANGED rest

\* After a byebye the list is printed.
ThenPrint(t) ==
  /\ sdk # "over" /\ pc[t] = "print"
  /\ Call(t, "print", Null, 0) /\ UNCHANGED rest

Work(t) ==
  \/ AddFind(t) \/ AddAppend(t) \/ RemoveDevice(t) \/ RemoveAll(t) \/ VerifyTimeouts(t)
  \/ GetDevice(t) \/ SendAction(t) \/ PrintList(t)
  \/ SearchSent(t) \/ Finish(t) \/ ThenPrint(t)

Next ==
  \/ \E t \in Threads : Acquire(t) \/ Work(t) \/ Stop(t) \/ Callback(t)
  \/ Start \/ TimerLoop \/ TimerWakes \/ Command

Spec == Init /\ [][Next]_vars

\* The threads run, the mutex is not withheld from one of them for ever, and
\* the sleep of the timer loop ends.  Commands, signals and events may stay out.
Fairness ==
  /\ \A t \in Threads : WF_vars(Work(t)) /\ SF_vars(Acquire(t))
  /\ WF_vars(TimerLoop) /\ WF_vars(TimerWakes) /\ WF_vars(Start)
FairSpec == Spec /\ Fairness

----------------------------------------------------------------------------
(***************************************************************************)
(* Properties.                                                             *)
(***************************************************************************)
\* The variables have the values that ctrlpt.c gives them, and no advertisement
\* has more than its whole life left.
TypeOK ==
  /\ head \in alloc \cup {Null} /\ next \in [Nodes -> Nodes \cup {Null}] /\ alloc \subseteq Nodes
  /\ \A n \in alloc : dev[n].uid \in Uids /\ dev[n].left <= AdvrTimeOut
  /\ lock \in Threads \cup {Nobody} /\ running \in BOOLEAN
  /\ sdk \in {"down", "up", "unregistered", "over"} /\ commands \in 0 .. MaxCommands
  /\ pc \in [Threads -> {"start", "off", "idle", "lock", "walk", "print", "search", "sleep",
                         "sigwait", "finish"}]

\* The ith node of s, or Null past its ends.
At(s, i) == IF i \in 1 .. Len(s) THEN s[i] ELSE Null

\* s leads along the links from its first node to the end, meeting no node twice.
Linked(s) ==
  /\ \A i, k \in 1 .. Len(s) : s[i] = s[k] => i = k
  /\ \A i \in 1 .. Len(s) : next[s[i]] = At(s, i + 1)

\* The device list, from GlobalDeviceList to its end, has all allocated nodes.
Lists == { s \in [1 .. Cardinality(alloc) -> alloc] : Linked(s) /\ head = At(s, 1) }

\* While nobody holds DeviceListMutex the list is whole: its nodes are those that
\* are allocated, so none is lost and none is freed, it ends, and it has each
\* device once, whatever callbacks, timer loop and commands have done to it.
ListWhole ==
  lock = Nobody =>
    /\ \E s \in Lists : \A n \in alloc : \E i \in 1 .. Len(s) : s[i] = n
    /\ \A m, n \in alloc : m # n => dev[m].uid # dev[n].uid
    /\ \A n \in alloc : dev[n].left > 0

\* No function follows a pointer to a node that was freed: the node a loop looks
\* at, and the one before it, are allocated.
NoDangling ==
  \A t \in Threads :
    pc[t] = "walk" => /\ loc[t].cur \in alloc \cup {Null}
                      /\ loc[t].op \in {"add", "remove", "verify"} => loc[t].prev \in alloc \cup {Null}

\* The device that a command's action is sent to is the one that ListDev prints
\* with that number: CtrlPointGetDevice counts from one, and finds nothing for
\* zero, a negative number and a number past the end.
NthDevice ==
  \A t \in Threads :
    Here(t, "send") /\ loc[t].n \in {0, 1} /\ loc[t].cur # Null =>
      \/ loc[t].arg = 0
      \/ \E s \in Lists : loc[t].cur = At(s, loc[t].arg)

\* The device list is safe to share: whole whenever the mutex is free, walked
\* without touching freed nodes, and numbered as it was printed.
ListSafe == TypeOK /\ ListWhole /\ NoDangling /\ NthDevice

\* A device that is silent from some time on does not stay in the list while
\* the timer loop runs (CtrlPointVerifyTimeouts).
Listed(u) == \E n \in alloc : dev[n].uid = u
SilentOnesLeave ==
  \A u \in Uids :
    <>[](running /\ \A t \in Callbacks : loc[t].op # "add" \/ loc[t].arg # u) => <>[](~Listed(u))

\* CtrlPointStop ends the process: neither the mutex nor UpnpFinish, waiting for
\* callbacks that need the mutex, holds it up.
StopEnds == ~running ~> sdk = "over"

----------------------------------------------------------------------------
(***************************************************************************)
(* What the repository says of the code and the code does not do.          *)
(***************************************************************************)
\* "This advertisement is about to expire, so send out a search request for this
\* device UID to try to renew" (CtrlPointVerifyTimeouts, and ctrlpt.h): no
\* device is removed as expired that no search was sent for.
AskedBeforeExpiry ==
  \A t \in Threads :
    Here(t, "verify") /\ loc[t].cur # Null /\ dev[loc[t].cur].left <= Incr => loc[t].cur \in asked

=============================================================================
