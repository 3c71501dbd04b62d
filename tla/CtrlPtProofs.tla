---------------------------- MODULE CtrlPtProofs ----------------------------
(***************************************************************************)
(* Proofs about CtrlPt: the device list stays whole under the walks of the *)
(* callbacks, the timer loop, the commands and main, for any number of     *)
(* devices and callbacks, and a search goes out before a device expires.   *)
(*                                                                         *)
(* The argument follows the nodes.  At every moment some sequence of nodes *)
(* is what the links lead through, and the thread that holds the mutex     *)
(* stands at a place of it; each round of a loop moves the place, or takes *)
(* a node out of the sequence, or puts one at its end.                     *)
(***************************************************************************)
EXTENDS CtrlPt, ListLemmas

Ops == {"none", "add", "remove", "refresh", "stop", "verify", "send", "print"}

Locals == [op : Ops, arg : Uids \cup {Null} \cup DevNums, prev : Nodes \cup {Null},
           cur : Nodes \cup {Null}, node : Nodes \cup {Null}, n : Int]

(* The types, and what is known of a thread's local variables.             *)
ListTypes ==
  /\ head \in alloc \cup {Null} /\ next \in [Nodes -> Nodes \cup {Null}] /\ alloc \subseteq Nodes
  /\ dev \in [Nodes -> [uid : Uids \cup {Null}, left : Int]]
ThreadTypes ==
  /\ lock \in Threads \cup {Nobody} /\ loc \in [Threads -> Locals]
  /\ pc \in [Threads -> {"start", "off", "idle", "lock", "walk", "print", "search", "sleep",
                         "sigwait", "finish"}]
RestTypes ==
  /\ running \in BOOLEAN /\ commands \in 0 .. MaxCommands
  /\ sdk \in {"down", "up", "unregistered", "over"}

(* The thread that holds the mutex is the one that walks. *)
LockInv == \A t \in Threads : pc[t] = "walk" <=> lock = t

(* What a function was called with, and how it begins. *)
ArgInv ==
  \A t \in Threads :
    /\ pc[t] \in {"lock", "walk"} =>
         /\ loc[t].op # "none"
         /\ loc[t].op \in {"add", "remove"} => loc[t].arg \in Uids
         /\ loc[t].op = "send" => loc[t].arg \in DevNums
         /\ loc[t].op # "add" => loc[t].node = Null
    /\ pc[t] = "lock" => /\ loc[t].prev = Null /\ loc[t].node = Null
                         /\ loc[t].op = "send" => loc[t].n = loc[t].arg

(* The timer loop and the command loop start after the first refresh. *)
MainInv ==
  \/ pc[Main] \in {"start", "search"}
  \/ pc[Main] \in {"lock", "walk"} /\ loc[Main].op = "refresh"
  => pc[Timer] = "off" /\ pc[Cmd] = "off"

(* Each allocated node has a device of its own whose time is not up. *)
DevInv ==
  /\ \A n \in alloc : dev[n].uid \in Uids /\ dev[n].left \in 1 .. AdvrTimeOut
  /\ \A m, n \in alloc : dev[m].uid = dev[n].uid => m = n

(* The links lead through s, whose nodes are those of S. *)
Whole(s, S) == s \in Seq(Nodes) /\ Linked(s) /\ {s[i] : i \in 1 .. Len(s)} = S

(* The thread that has the mutex stands at place i of s. *)
Place(t, s, i) ==
  /\ loc[t].cur = At(s, i)
  /\ loc[t].op \in {"remove", "verify"} => loc[t].prev = At(s, i - 1)
  /\ loc[t].op = "add" /\ loc[t].node = Null =>
       /\ loc[t].prev = At(s, i - 1)
       /\ \A k \in 1 .. i - 1 : dev[s[k]].uid # loc[t].arg
  /\ loc[t].op = "add" /\ loc[t].node # Null =>
       /\ loc[t].node \in alloc /\ next[loc[t].node] = Null
       /\ loc[t].prev \in alloc \cup {Null}
       /\ s # <<>> => i <= Len(s)
  /\ loc[t].op = "send" => /\ loc[t].n = loc[t].arg - (i - 1)
                           /\ loc[t].arg > 0 => loc[t].n > 0

(* CtrlPointRemoveAll walks a list that GlobalDeviceList has let go; the   *)
(* others walk the list itself, but for a node that is yet to be put in.   *)
Walks(t, s) ==
  /\ Whole(s, alloc \ {loc[t].node})
  /\ IF loc[t].op \in {"refresh", "stop"}
     THEN loc[t].cur = At(s, 1) /\ head \in {Null, At(s, 1)}
     ELSE head = At(s, 1) /\ \E i \in 1 .. Len(s) + 1 : Place(t, s, i)

ShapeInv ==
  /\ lock = Nobody => \E s \in Seq(Nodes) : Whole(s, alloc) /\ head = At(s, 1)
  /\ \A t \in Threads : pc[t] = "walk" => \E s \in Seq(Nodes) : Walks(t, s)

ThreadInv == ThreadTypes /\ LockInv /\ ArgInv /\ MainInv
ListInv   == ListTypes /\ DevInv /\ ShapeInv
Inv       == ThreadInv /\ RestTypes /\ ListInv

-----------------------------------------------------------------------------
(* Sequences and links.                                                    *)

(* The links f lead through s. *)
Leads(f, s) ==
  /\ \A i, k \in 1 .. Len(s) : s[i] = s[k] => i = k
  /\ \A i \in 1 .. Len(s) : f[s[i]] = At(s, i + 1)
Places(s) == {s[i] : i \in 1 .. Len(s)}

(* A node is taken out: the one before it leads to the one after it. *)
Skips(f, g, s, i) ==
  \A n \in Nodes : g[n] = IF i # 1 /\ n = s[i - 1] THEN f[s[i]] ELSE f[n]
TakenFrom(s, i, r) ==
  /\ Places(r) = Places(s) \ {s[i]} /\ Len(r) = Len(s) - 1
  /\ \A k \in 1 .. Len(s) - 1 : r[k] = IF k < i THEN s[k] ELSE s[k + 1]

(* What is left is a list again. *)
LEMMA TakeOut ==
    ASSUME NEW f \in [Nodes -> Nodes \cup {Null}], NEW g \in [Nodes -> Nodes \cup {Null}],
           NEW s \in Seq(Nodes), NEW i \in 1 .. Len(s), Leads(f, s), Skips(f, g, s, i)
    PROVE  \E r \in Seq(Nodes) : Leads(g, r) /\ TakenFrom(s, i, r)
<1> DEFINE r == [k \in 1 .. Len(s) - 1 |-> IF k < i THEN s[k] ELSE s[k + 1]]
<1>1. /\ r \in Seq(Nodes) /\ Len(r) = Len(s) - 1 /\ Len(s) \in Nat /\ Len(s) > 0
      /\ \A k \in 1 .. Len(s) - 1 : r[k] = IF k < i THEN s[k] ELSE s[k + 1]
  <2>1. Len(s) \in Nat /\ Len(s) > 0 /\ Len(s) - 1 \in Nat
    OBVIOUS
  <2>2. \A k \in 1 .. Len(s) - 1 : r[k] \in Nodes
    BY <2>1
  <2>3. QED
    BY <2>1, <2>2
<1> HIDE DEF r
<1>2. \A j, k \in 1 .. Len(s) : s[j] = s[k] => j = k
  BY DEF Leads
<1>3. Places(r) = Places(s) \ {s[i]}
  <2>1. ASSUME NEW k \in 1 .. Len(r) PROVE r[k] \in Places(s) \ {s[i]}
    BY <1>1, <1>2 DEF Places
  <2>2. ASSUME NEW k \in 1 .. Len(s), s[k] # s[i] PROVE s[k] \in Places(r)
    <3>1. CASE k < i
      <4>1. k \in 1 .. Len(r) /\ r[k] = s[k]
        BY <1>1, <3>1
      <4>2. QED
        BY <4>1 DEF Places
    <3>2. CASE k > i
      <4>1. k - 1 \in 1 .. Len(r) /\ r[k - 1] = s[k]
        BY <1>1, <3>2
      <4>2. QED
        BY <4>1 DEF Places
    <3>3. QED
      BY <2>2, <3>1, <3>2 DEF Skips
  <2>3. QED
    BY <2>1, <2>2 DEF Places
<1>4. \A j, k \in 1 .. Len(r) : r[j] = r[k] => j = k
  <2> SUFFICES ASSUME NEW j \in 1 .. Len(r), NEW k \in 1 .. Len(r), r[j] = r[k] PROVE j = k
    OBVIOUS
  <2>1. j \in 1 .. Len(s) - 1 /\ k \in 1 .. Len(s) - 1
    BY <1>1
  <2>2. CASE j < i
    BY <1>1, <1>2, <2>1, <2>2
  <2>3. CASE j >= i
    BY <1>1, <1>2, <2>1, <2>3
  <2>4. QED
    BY <2>2, <2>3, <2>1
<1>5. ASSUME NEW k \in 1 .. Len(r) PROVE g[r[k]] = At(r, k + 1)
  <2>1. k \in 1 .. Len(s) - 1
    BY <1>1
  <2>2. \A m \in 1 .. Len(s) : s[m] \in Nodes
    OBVIOUS
  <2>3. \A m \in 1 .. Len(s) : f[s[m]] = At(s, m + 1)
    BY DEF Leads
  <2>4. CASE k < i - 1
    <3>0. k + 1 \in 1 .. Len(r) /\ k + 1 \in 1 .. Len(s) /\ k + 1 \in 1 .. Len(s) - 1
          /\ k < i /\ k + 1 < i
      BY <1>1, <2>1, <2>4
    <3>1. r[k] = s[k] /\ r[k + 1] = s[k + 1] /\ k + 1 \in 1 .. Len(r) /\ k + 1 \in 1 .. Len(s)
      BY <1>1, <2>1, <3>0
    <3>2. s[k] # s[i - 1]
      BY <1>2, <2>1, <2>4
    <3>3. g[s[k]] = f[s[k]]
      BY <2>1, <2>2, <3>2 DEF Skips
    <3>4. QED
      BY <2>1, <2>3, <3>1, <3>3 DEF At
  <2>5. CASE k = i - 1
    <3>1. r[k] = s[i - 1] /\ i # 1
      BY <1>1, <2>1, <2>5
    <3>2. g[r[k]] = f[s[i]]
      BY <2>1, <2>2, <2>5, <3>1 DEF Skips
    <3>3. f[s[i]] = At(s, i + 1)
      BY <2>3
    <3>4. At(s, i + 1) = At(r, i)
      BY <1>1 DEF At
    <3>5. QED
      BY <2>5, <3>2, <3>3, <3>4
  <2>6. CASE k >= i
    <3>1. r[k] = s[k + 1] /\ k + 1 \in 1 .. Len(s)
      BY <1>1, <2>1, <2>6
    <3>2. i # 1 => s[k + 1] # s[i - 1]
      BY <1>2, <2>1, <2>6
    <3>3. g[r[k]] = f[s[k + 1]]
      BY <2>2, <3>1, <3>2 DEF Skips
    <3>4. f[s[k + 1]] = At(s, k + 2)
      BY <2>3, <3>1
    <3>5. At(s, k + 2) = At(r, k + 1)
      BY <1>1, <2>1, <2>6 DEF At
    <3>6. QED
      BY <3>3, <3>4, <3>5
  <2>7. QED
    BY <2>1, <2>4, <2>5, <2>6
<1>6. Leads(g, r)
  BY <1>4, <1>5 DEF Leads
<1>7. QED
  BY <1>1, <1>3, <1>6 DEF TakenFrom

(* A node is put after the last one. *)
Joins(f, g, s, n) ==
  \A m \in Nodes : g[m] = IF s # <<>> /\ m = s[Len(s)] THEN n ELSE f[m]

(* The longer sequence is a list again. *)
LEMMA PutLast ==
    ASSUME NEW f \in [Nodes -> Nodes \cup {Null}], NEW g \in [Nodes -> Nodes \cup {Null}],
           NEW s \in Seq(Nodes), NEW n \in Nodes \ Places(s), Leads(f, s), f[n] = Null,
           Joins(f, g, s, n)
    PROVE  \E r \in Seq(Nodes) : /\ Leads(g, r) /\ Places(r) = Places(s) \cup {n}
                                  /\ At(r, 1) = IF s = <<>> THEN n ELSE At(s, 1)
<1> DEFINE r == Append(s, n)
<1>1. /\ r \in Seq(Nodes) /\ Len(r) = Len(s) + 1 /\ Len(s) \in Nat
      /\ \A k \in 1 .. Len(s) : r[k] = s[k]
      /\ r[Len(s) + 1] = n
      /\ s = <<>> <=> Len(s) = 0
  OBVIOUS
<1> HIDE DEF r
<1>2. \A j, k \in 1 .. Len(s) : s[j] = s[k] => j = k
  BY DEF Leads
<1>3. Places(r) = Places(s) \cup {n}
  <2>1. Len(s) + 1 \in 1 .. Len(r) /\ \A k \in 1 .. Len(s) : k \in 1 .. Len(r)
    BY <1>1
  <2>2. \A k \in 1 .. Len(r) : k \in 1 .. Len(s) \/ k = Len(s) + 1
    BY <1>1
  <2>3. QED
    BY <1>1, <2>1, <2>2 DEF Places
<1>4. \A j, k \in 1 .. Len(r) : r[j] = r[k] => j = k
  BY <1>1, <1>2 DEF Places
<1>5. ASSUME NEW k \in 1 .. Len(r) PROVE g[r[k]] = At(r, k + 1)
  <2>1. \A m \in 1 .. Len(s) : s[m] \in Nodes /\ s[m] # n /\ f[s[m]] = At(s, m + 1)
    BY DEF Leads, Places
  <2>2. CASE k < Len(s)
    <3>1. k \in 1 .. Len(s) /\ k + 1 \in 1 .. Len(s) /\ k + 1 \in 1 .. Len(r) /\ Len(s) \in 1 .. Len(s)
      BY <1>1, <2>2
    <3>2. r[k] = s[k] /\ s[k] # s[Len(s)] /\ r[k + 1] = s[k + 1]
      BY <1>1, <1>2, <2>2, <3>1
    <3>3. g[s[k]] = f[s[k]]
      BY <2>1, <3>1, <3>2 DEF Joins
    <3>4. QED
      BY <2>1, <3>1, <3>2, <3>3 DEF At
  <2>3. CASE k = Len(s)
    <3>1. s # <<>> /\ r[k] = s[k] /\ k \in 1 .. Len(s) /\ k + 1 \in 1 .. Len(r)
      BY <1>1, <2>3
    <3>2. g[s[k]] = n
      BY <2>1, <2>3, <3>1 DEF Joins
    <3>3. QED
      BY <1>1, <2>3, <3>1, <3>2 DEF At
  <2>4. CASE k = Len(s) + 1
    <3>1. r[k] = n /\ At(r, k + 1) = Null
      BY <1>1, <2>4 DEF At
    <3>2. s # <<>> => Len(s) \in 1 .. Len(s)
      BY <1>1
    <3>3. g[n] = f[n]
      BY <2>1, <3>2 DEF Joins
    <3>4. QED
      BY <3>1, <3>3
  <2>5. QED
    BY <1>1, <2>2, <2>3, <2>4
<1>6. Leads(g, r)
  BY <1>4, <1>5 DEF Leads
<1>7. At(r, 1) = IF s = <<>> THEN n ELSE At(s, 1)
  BY <1>1 DEF At
<1>8. QED
  BY <1>1, <1>3, <1>6, <1>7

-----------------------------------------------------------------------------
(* Threads.                                                                *)

(* A thread leaves a function that holds the mutex. *)
LEMMA ReleaseThreads ==
    ASSUME ThreadInv, NEW t \in Threads, pc[t] = "walk", Release(t)
    PROVE  /\ ThreadInv' /\ lock' = Nobody
           /\ \A u \in Threads : pc'[u] # "walk"
<1> USE CtrlPtAssumption DEF ThreadInv
<1>1. Nobody \notin Threads /\ Main \in Threads /\ Timer \in Threads /\ Cmd \in Threads
      /\ Main # Timer /\ Main # Cmd
  BY DEF Nobody, Threads, Main, Timer, Cmd
<1>2. /\ lock' = Nobody /\ loc' = [loc EXCEPT ![t] = NoLoc]
      /\ pc' = [pc EXCEPT ![t] = Then(t)]
  BY DEF Release, Goto
<1>3. Then(t) \in {"search", "finish", "print", "idle"} /\ (Then(t) = "search" => loc[t].op = "refresh")
  BY DEF Then
<1>4. NoLoc \in Locals
  BY DEF NoLoc, Locals, Ops
<1>5. \A u \in Threads \ {t} : pc[u] # "walk"
  BY DEF LockInv
<1>6. ThreadTypes'
  BY <1>2, <1>3, <1>4 DEF ThreadTypes
<1>7. LockInv' /\ \A u \in Threads : pc'[u] # "walk"
  BY <1>1, <1>2, <1>3, <1>5 DEF LockInv, ThreadTypes
<1>8. ArgInv'
  BY <1>2, <1>3 DEF ArgInv, ThreadTypes
<1>9. MainInv'
  <2>1. CASE t = Main
    BY <1>1, <1>2, <1>3, <2>1 DEF MainInv, ThreadTypes
  <2>2. CASE t # Main
    BY <1>1, <1>2, <1>3, <2>2 DEF MainInv, ThreadTypes
  <2>3. QED
    BY <2>1, <2>2
<1>10. QED
  BY <1>2, <1>6, <1>7, <1>8, <1>9

(* A thread goes on within a function. *)
LEMMA MoveThreads ==
    ASSUME ThreadInv, NEW t \in Threads, pc[t] = "walk", UNCHANGED <<lock, pc>>,
           NEW l \in Locals, loc' = [loc EXCEPT ![t] = l],
           l.op = loc[t].op, l.arg = loc[t].arg, l.op # "add" => l.node = Null
    PROVE  ThreadInv' /\ \A u \in Threads \ {t} : pc'[u] # "walk"
<1> USE DEF ThreadInv
<1>1. ThreadTypes'
  BY DEF ThreadTypes
<1>2. LockInv' /\ \A u \in Threads \ {t} : pc'[u] # "walk"
  BY DEF LockInv
<1>3. ArgInv'
  BY DEF ArgInv, ThreadTypes
<1>4. MainInv'
  BY DEF MainInv, ThreadTypes
<1>5. QED
  BY <1>1, <1>2, <1>3, <1>4

(* What is left to show of the list when the mutex is released. *)
LEMMA ReleasedShape ==
    ASSUME ThreadInv, NEW t \in Threads, pc[t] = "walk", Release(t), ListTypes', DevInv',
           NEW s \in Seq(Nodes), Leads(next', s), Places(s) = alloc', head' = At(s, 1)
    PROVE  ThreadInv' /\ ListInv'
<1>1. ThreadInv' /\ lock' = Nobody /\ \A u \in Threads : pc'[u] # "walk"
  BY ReleaseThreads
<1>2. Whole(s, alloc)'
  BY DEF Whole, Linked, Leads, Places
<1>3. ShapeInv'
  BY <1>1, <1>2 DEF ShapeInv
<1>4. QED
  BY <1>1, <1>3 DEF ListInv

(* And when the thread goes on. *)
LEMMA MovedShape ==
    ASSUME ThreadInv, NEW t \in Threads, pc[t] = "walk", UNCHANGED <<lock, pc>>, NEW l \in Locals,
           loc' = [loc EXCEPT ![t] = l], l.op = loc[t].op, l.arg = loc[t].arg,
           l.op # "add" => l.node = Null, ListTypes', DevInv',
           NEW s \in Seq(Nodes), Leads(next', s), Places(s) = alloc' \ {l.node},
           IF l.op \in {"refresh", "stop"}
           THEN l.cur = At(s, 1) /\ head' \in {Null, At(s, 1)}
           ELSE head' = At(s, 1) /\ \E i \in 1 .. Len(s) + 1 : Place(t, s, i)'
    PROVE  ThreadInv' /\ ListInv'
<1>1. ThreadInv' /\ \A u \in Threads \ {t} : pc'[u] # "walk"
  BY MoveThreads
<1>2. lock' # Nobody
  BY CtrlPtAssumption DEF ThreadInv, LockInv, Threads, Nobody, Main, Cmd, Timer
<1>3. loc'[t] = l
  BY DEF ThreadInv, ThreadTypes
<1>4. Walks(t, s)'
  BY <1>3 DEF Walks, Whole, Linked, Leads, Places
<1>5. ShapeInv'
  BY <1>1, <1>2, <1>4 DEF ShapeInv
<1>6. QED
  BY <1>1, <1>5 DEF ListInv

-----------------------------------------------------------------------------
(* The functions.                                                          *)

(* Where a thread that has the mutex stands. *)
Stands(t, s, i) ==
  /\ Leads(next, s) /\ Places(s) = alloc \ {loc[t].node} /\ head = At(s, 1)
  /\ i \in 1 .. Len(s) + 1 /\ Place(t, s, i)
  /\ loc[t].cur # Null => /\ i <= Len(s) /\ loc[t].cur = s[i] /\ s[i] \in alloc
                          /\ next[loc[t].cur] = At(s, i + 1)
  /\ loc[t].cur = Null => i = Len(s) + 1

(* The thread that has the mutex stands somewhere. *)
LEMMA Standing ==
    ASSUME Inv, NEW t \in Threads, pc[t] = "walk", loc[t].op \notin {"refresh", "stop"}
    PROVE  \E s \in Seq(Nodes), i \in Nat : Stands(t, s, i)
<1>1. PICK s \in Seq(Nodes) : Walks(t, s)
  BY DEF Inv, ListInv, ShapeInv
<1>2. PICK i \in 1 .. Len(s) + 1 : Place(t, s, i)
  BY <1>1 DEF Walks
<1>3. Leads(next, s) /\ Places(s) = alloc \ {loc[t].node} /\ head = At(s, 1)
  BY <1>1 DEF Walks, Whole, Linked, Leads, Places
<1>4. loc[t].cur = At(s, i)
  BY <1>2 DEF Place
<1>5. i <= Len(s) => s[i] \in Nodes /\ s[i] # Null /\ s[i] \in Places(s) /\ At(s, i) = s[i]
  BY CtrlPtAssumption DEF Places, At
<1>6. i > Len(s) => i = Len(s) + 1 /\ At(s, i) = Null
  BY DEF At
<1>7. i <= Len(s) => next[s[i]] = At(s, i + 1)
  BY <1>3 DEF Leads
<1>8. QED
  BY <1>2, <1>3, <1>4, <1>5, <1>6, <1>7 DEF Stands

(* CtrlPointPrintList and CtrlPointSendAction. *)
LEMMA ReadersKeep ==
    ASSUME Inv, NEW t \in Threads, PrintList(t) \/ GetDevice(t) \/ SendAction(t)
    PROVE  ThreadInv' /\ ListInv'
<1> USE CtrlPtAssumption DEF Inv, Stands
<1>1. /\ pc[t] = "walk" /\ loc[t].op \in {"print", "send"} /\ UNCHANGED list
      /\ loc[t] \in Locals /\ loc[t].node = Null
  BY DEF PrintList, GetDevice, SendAction, Here, ThreadInv, ThreadTypes, ArgInv
<1>2. PICK s \in Seq(Nodes), i \in Nat : Stands(t, s, i)
  BY <1>1, Standing
<1>3. ListTypes' /\ DevInv' /\ head' = head /\ next' = next /\ alloc' = alloc
  BY <1>1 DEF ListInv, ListTypes, DevInv, list
<1>4. Places(s) = alloc
  BY <1>1, <1>2 DEF ListInv, ListTypes
<1>5. CASE Release(t)
  BY <1>1, <1>2, <1>3, <1>4, <1>5, ReleasedShape
<1>6. CASE PrintList(t) /\ ~Release(t)
  <2> DEFINE l == [loc[t] EXCEPT !.prev = loc[t].cur, !.cur = next[loc[t].cur]]
  <2>1. loc[t].cur # Null /\ Move(t, next[loc[t].cur]) /\ UNCHANGED <<lock, pc>> /\ loc[t].op = "print"
    BY <1>6 DEF PrintList, Here
  <2>2. l \in Locals /\ l.op = "print" /\ l.arg = loc[t].arg /\ l.node = Null /\ l.cur = At(s, i + 1)
    BY <1>1, <1>2, <2>1 DEF Locals, Ops, ListInv, ListTypes
  <2>3. loc' = [loc EXCEPT ![t] = l]
    BY <2>1 DEF Move, ThreadInv, ThreadTypes
  <2> HIDE DEF l
  <2>4. i + 1 \in 1 .. Len(s) + 1 /\ Place(t, s, i + 1)'
    BY <1>2, <2>1, <2>2, <2>3 DEF Place, ThreadInv, ThreadTypes
  <2>5. QED
    BY <1>1, <1>2, <1>3, <1>4, <2>1, <2>2, <2>3, <2>4, MovedShape
<1>7. CASE GetDevice(t)
  <2> DEFINE l == [loc[t] EXCEPT !.n = loc[t].n - 1, !.cur = next[loc[t].cur]]
  <2>1. /\ loc[t].cur # Null /\ UNCHANGED <<lock, pc>> /\ loc[t].op = "send"
        /\ loc[t].n - 1 # 0 /\ loc[t].n # 0 /\ loc[t].arg \in Int
    BY <1>7 DEF GetDevice, Here, ThreadInv, ArgInv
  <2>2. /\ l \in Locals /\ l.op = "send" /\ l.arg = loc[t].arg /\ l.node = Null
        /\ l.cur = At(s, i + 1) /\ l.n = loc[t].n - 1
    <3>1. loc[t].n - 1 \in Int /\ next[loc[t].cur] \in Nodes \cup {Null}
      BY <1>1, <1>2, <2>1 DEF Locals, ListInv, ListTypes
    <3>2. l \in Locals
      BY <1>1, <3>1 DEF Locals
    <3>3. QED
      BY <1>1, <1>2, <2>1, <3>2 DEF Locals
  <2>3. loc' = [loc EXCEPT ![t] = l]
    BY <1>7 DEF GetDevice, ThreadInv, ThreadTypes
  <2>4. loc[t].n = loc[t].arg - (i - 1) /\ (loc[t].arg > 0 => loc[t].n > 0)
    BY <1>2, <2>1 DEF Place
  <2> HIDE DEF l
  <2>5. l.n = l.arg - (i + 1 - 1) /\ (l.arg > 0 => l.n > 0)
    BY <2>1, <2>2, <2>4
  <2>6. i + 1 \in 1 .. Len(s) + 1 /\ loc'[t] = l
    BY <1>2, <2>1, <2>3 DEF ThreadInv, ThreadTypes
  <2>7. Place(t, s, i + 1)'
    BY <2>2, <2>5, <2>6 DEF Place
  <2>8. QED
    BY <1>1, <1>2, <1>3, <1>4, <2>1, <2>2, <2>3, <2>6, <2>7, MovedShape
<1>8. QED
  BY <1>5, <1>6, <1>7 DEF SendAction

(* A node leaves the list and is freed. *)
LEMMA Unlinked ==
    ASSUME Inv, NEW t \in Threads, loc[t].op \in {"remove", "verify"}, loc[t].node = Null,
           NEW s \in Seq(Nodes), NEW i \in Nat, Stands(t, s, i), loc[t].cur # Null,
           Unlink(loc[t].prev, loc[t].cur), Free(loc[t].cur)
    PROVE  /\ ListTypes' /\ DevInv'
           /\ \E r \in Seq(Nodes) :
                /\ Leads(next', r) /\ Places(r) = alloc' /\ head' = At(r, 1)
                /\ i \in 1 .. Len(r) + 1 /\ At(r, i - 1) = loc[t].prev
                /\ After(loc[t].prev, loc[t].cur) = At(r, i)
<1> USE CtrlPtAssumption DEF Inv, ListInv, ListTypes
<1> DEFINE c == loc[t].cur
           p == loc[t].prev
<1>1. /\ i \in 1 .. Len(s) /\ c = s[i] /\ c \in alloc /\ next[c] = At(s, i + 1)
      /\ p = At(s, i - 1) /\ Leads(next, s) /\ Places(s) = alloc /\ head = At(s, 1)
  BY DEF Stands, Place
<1>2. i = 1 => p = Null
  BY <1>1 DEF At
<1>3. i # 1 => p = s[i - 1] /\ p \in Nodes /\ p # Null /\ i - 1 \in 1 .. Len(s)
  BY <1>1 DEF At
<1>4. next[c] \in Nodes \cup {Null} /\ c \in Nodes
  BY <1>1
<1>5. /\ alloc' = alloc \ {c} /\ dev' = [dev EXCEPT ![c] = Blank]
      /\ i = 1 => head' = next[c] /\ next' = next
      /\ i # 1 => head' = head /\ next' = [next EXCEPT ![p] = next[c]]
  BY <1>2, <1>3 DEF Free, Unlink
<1> HIDE DEF c, p
<1>6. next' \in [Nodes -> Nodes \cup {Null}]
  BY <1>3, <1>4, <1>5
<1>7. Skips(next, next', s, i)
  BY <1>1, <1>3, <1>5 DEF Skips
<1>8. PICK r \in Seq(Nodes) : Leads(next', r) /\ TakenFrom(s, i, r)
  <2>1. next \in [Nodes -> Nodes \cup {Null}]
    OBVIOUS
  <2> HIDE CtrlPtAssumption DEF Inv, ListInv, ListTypes
  <2>2. QED
    BY <1>1, <1>6, <1>7, <2>1, TakeOut
<1>9. Places(r) = alloc'
  BY <1>1, <1>5, <1>8 DEF TakenFrom
<1>10. i \in 1 .. Len(r) + 1 /\ At(r, i) = At(s, i + 1) /\ At(r, i - 1) = At(s, i - 1)
  <2>1. Len(r) = Len(s) - 1 /\ Len(s) \in Nat /\ i \in 1 .. Len(s)
    BY <1>1, <1>8 DEF TakenFrom
  <2>2. \A k \in 1 .. Len(s) - 1 : r[k] = IF k < i THEN s[k] ELSE s[k + 1]
    BY <1>8 DEF TakenFrom
  <2> HIDE CtrlPtAssumption DEF Inv, ListInv, ListTypes
  <2>3. At(r, i) = At(s, i + 1)
    BY <2>1, <2>2 DEF At
  <2>4. At(r, i - 1) = At(s, i - 1)
    BY <2>1, <2>2 DEF At
  <2>5. QED
    BY <2>1, <2>3, <2>4
<1>11. head' = At(r, 1)
  <2>1. CASE i = 1
    BY <1>1, <1>5, <1>10, <2>1
  <2>2. CASE i # 1
    <3>1. Len(s) \in Nat /\ 1 < i /\ i <= Len(s)
      BY <1>1, <2>2
    <3>2. 1 \in 1 .. Len(s) - 1 /\ 1 \in 1 .. Len(s) /\ 1 \in 1 .. Len(r)
      BY <1>8, <3>1 DEF TakenFrom
    <3>3. r[1] = s[1]
      BY <1>8, <3>1, <3>2 DEF TakenFrom
    <3>4. QED
      BY <1>1, <1>5, <2>2, <3>2, <3>3 DEF At
  <2>3. QED
    BY <2>1, <2>2
<1>12. After(p, c) = At(r, i)
  <2>1. CASE i = 1
    BY <1>2, <1>11, <2>1 DEF After
  <2>2. CASE i # 1
    <3>1. next'[p] = next[c]
      BY <1>3, <1>4, <1>5, <2>2
    <3>2. QED
      BY <1>1, <1>3, <1>10, <2>2, <3>1 DEF After
  <2>3. QED
    BY <2>1, <2>2
<1>13. ListTypes'
  <2>1. head' \in alloc' \cup {Null}
    BY <1>9, <1>11 DEF At, Places
  <2>2. Blank \in [uid : Uids \cup {Null}, left : Int]
    BY DEF Blank
  <2>3. QED
    BY <1>4, <1>5, <1>6, <2>1, <2>2
<1>14. DevInv'
  BY <1>4, <1>5 DEF DevInv
<1>15. QED
  BY <1>1, <1>8, <1>9, <1>10, <1>11, <1>12, <1>13, <1>14 DEF c, p

(* CtrlPointRemoveDevice. *)
LEMMA RemoveKeeps ==
    ASSUME Inv, NEW t \in Threads, RemoveDevice(t)
    PROVE  ThreadInv' /\ ListInv'
<1> USE CtrlPtAssumption DEF Inv
<1>1. /\ pc[t] = "walk" /\ loc[t].op = "remove"
      /\ loc[t] \in Locals /\ loc[t].node = Null
  BY DEF RemoveDevice, Here, ThreadInv, ThreadTypes, ArgInv
<1>2. PICK s \in Seq(Nodes), i \in Nat : Stands(t, s, i)
  BY <1>1, Standing
<1>3. Places(s) = alloc
  BY <1>1, <1>2 DEF Stands, ListInv, ListTypes
<1>4. CASE loc[t].cur = Null /\ Release(t) /\ UNCHANGED list
  <2>1. ListTypes' /\ DevInv' /\ head' = head /\ next' = next /\ alloc' = alloc
    BY <1>4 DEF ListInv, ListTypes, DevInv, list
  <2>2. QED
    BY <1>1, <1>2, <1>3, <1>4, <2>1, ReleasedShape DEF Stands
<1>5. CASE loc[t].cur # Null /\ Unlink(loc[t].prev, loc[t].cur) /\ Free(loc[t].cur) /\ Release(t)
  <2>1. ListTypes' /\ DevInv'
    BY <1>1, <1>2, <1>5, Unlinked
  <2>2. PICK r \in Seq(Nodes) : Leads(next', r) /\ Places(r) = alloc' /\ head' = At(r, 1)
    BY <1>1, <1>2, <1>5, Unlinked
  <2>3. QED
    BY <1>1, <1>5, <2>1, <2>2, ReleasedShape
<1>6. CASE loc[t].cur # Null /\ Move(t, next[loc[t].cur]) /\ UNCHANGED <<list, lock, pc>>
  <2> DEFINE l == [loc[t] EXCEPT !.prev = loc[t].cur, !.cur = next[loc[t].cur]]
  <2>1. ListTypes' /\ DevInv' /\ head' = head /\ next' = next /\ alloc' = alloc
    BY <1>6 DEF ListInv, ListTypes, DevInv, list
  <2>2. /\ l \in Locals /\ l.op = "remove" /\ l.arg = loc[t].arg /\ l.node = Null
        /\ l.cur = At(s, i + 1) /\ l.prev = At(s, i)
    BY <1>1, <1>2, <1>6 DEF Locals, Ops, ListInv, ListTypes, Stands, Place
  <2>3. loc' = [loc EXCEPT ![t] = l]
    BY <1>6 DEF Move, ThreadInv, ThreadTypes
  <2> HIDE DEF l
  <2>4. i + 1 \in 1 .. Len(s) + 1 /\ i + 1 - 1 = i /\ loc'[t] = l
    BY <1>2, <1>6, <2>3 DEF Stands, ThreadInv, ThreadTypes
  <2>5. Place(t, s, i + 1)'
    BY <2>2, <2>4 DEF Place
  <2>6. QED
    BY <1>1, <1>2, <1>3, <1>6, <2>1, <2>2, <2>3, <2>4, <2>5, MovedShape DEF Stands
<1>7. QED
  BY <1>4, <1>5, <1>6 DEF RemoveDevice

(* CtrlPointRemoveAll. *)
LEMMA RemoveAllKeeps ==
    ASSUME Inv, NEW t \in Threads, RemoveAll(t)
    PROVE  ThreadInv' /\ ListInv'
<1> USE CtrlPtAssumption DEF Inv
<1>1. /\ pc[t] = "walk" /\ loc[t].op \in {"refresh", "stop"} /\ loc[t] \in Locals
      /\ loc[t].node = Null /\ head' = Null /\ next' = next
  BY DEF RemoveAll, Here, ThreadInv, ThreadTypes, ArgInv
<1>2. PICK s \in Seq(Nodes) : /\ Leads(next, s) /\ Places(s) = alloc
                              /\ loc[t].cur = At(s, 1)
  <2>1. PICK s \in Seq(Nodes) : Walks(t, s)
    BY <1>1 DEF ListInv, ShapeInv
  <2>2. Leads(next, s) /\ loc[t].cur = At(s, 1)
    BY <1>1, <2>1 DEF Walks, Whole, Linked, Leads
  <2>3. Places(s) = alloc \ {Null}
    BY <1>1, <2>1 DEF Walks, Whole, Places
  <2>4. Places(s) = alloc
    BY <2>3 DEF ListInv, ListTypes
  <2>5. QED
    BY <2>2, <2>4
<1>3. CASE loc[t].cur = Null /\ Release(t) /\ UNCHANGED <<alloc, dev>>
  <2>1. ListTypes' /\ DevInv'
    BY <1>1, <1>3 DEF ListInv, ListTypes, DevInv
  <2>2. At(s, 1) = Null
    BY <1>2, <1>3
  <2>3. QED
    BY <1>1, <1>2, <1>3, <2>1, <2>2, ReleasedShape
<1>4. CASE loc[t].cur # Null /\ Free(loc[t].cur) /\ Move(t, next[loc[t].cur]) /\ UNCHANGED <<lock, pc>>
  <2> DEFINE c == loc[t].cur
             l == [loc[t] EXCEPT !.prev = c, !.cur = next[c]]
  <2>1. 1 \in 1 .. Len(s) /\ c = s[1] /\ next[c] = At(s, 2)
    <3>1. 1 \in 1 .. Len(s) /\ c = s[1]
      BY <1>2, <1>4 DEF At
    <3>2. next[s[1]] = At(s, 1 + 1)
      BY <1>2, <3>1 DEF Leads
    <3>3. QED
      BY <3>1, <3>2
  <2>2. alloc' = alloc \ {c} /\ dev' = [dev EXCEPT ![c] = Blank] /\ c \in alloc /\ c \in Nodes
    BY <1>2, <1>4, <2>1 DEF Free, Places, ListInv, ListTypes
  <2>3. next[c] \in Nodes \cup {Null}
    BY <2>2 DEF ListInv, ListTypes
  <2>4. l \in Locals /\ l.op = loc[t].op /\ l.arg = loc[t].arg /\ l.node = Null /\ l.cur = At(s, 2)
    BY <1>1, <2>1, <2>2, <2>3 DEF Locals
  <2>5. loc' = [loc EXCEPT ![t] = l]
    BY <1>4 DEF Move, ThreadInv, ThreadTypes
  <2> HIDE DEF c, l
  <2>6. PICK r \in Seq(Nodes) : Leads(next, r) /\ TakenFrom(s, 1, r)
    <3>1. next \in [Nodes -> Nodes \cup {Null}]
      BY DEF ListInv, ListTypes
    <3>2. Skips(next, next, s, 1)
      BY DEF Skips
    <3> HIDE CtrlPtAssumption DEF Inv
    <3>3. QED
      BY <1>2, <2>1, <3>1, <3>2, TakeOut
  <2>7. Places(r) = alloc' \ {l.node} /\ At(r, 1) = At(s, 2)
    BY <1>2, <2>1, <2>2, <2>4, <2>6 DEF TakenFrom, At, ListInv, ListTypes
  <2>8. ListTypes' /\ DevInv'
    <3>1. Blank \in [uid : Uids \cup {Null}, left : Int]
      BY DEF Blank
    <3>2. QED
      BY <1>1, <2>2, <3>1 DEF ListInv, ListTypes, DevInv
  <2>9. QED
    BY <1>1, <1>4, <2>4, <2>5, <2>6, <2>7, <2>8, MovedShape
<1>5. QED
  BY <1>3, <1>4 DEF RemoveAll

(* CtrlPointVerifyTimeouts. *)
LEMMA VerifyKeeps ==
    ASSUME Inv, NEW t \in Threads, VerifyTimeouts(t)
    PROVE  ThreadInv' /\ ListInv'
<1> USE CtrlPtAssumption DEF Inv
<1>1. /\ pc[t] = "walk" /\ loc[t].op = "verify"
      /\ loc[t] \in Locals /\ loc[t].node = Null
  BY DEF VerifyTimeouts, Here, ThreadInv, ThreadTypes, ArgInv
<1>2. PICK s \in Seq(Nodes), i \in Nat : Stands(t, s, i)
  BY <1>1, Standing
<1>3. Places(s) = alloc
  BY <1>1, <1>2 DEF Stands, ListInv, ListTypes
<1> DEFINE c    == loc[t].cur
           left == dev[c].left - Incr
<1>4. CASE c = Null /\ Release(t) /\ UNCHANGED list
  <2>1. ListTypes' /\ DevInv' /\ head' = head /\ next' = next /\ alloc' = alloc
    BY <1>4 DEF ListInv, ListTypes, DevInv, list
  <2>2. QED
    BY <1>1, <1>2, <1>3, <1>4, <2>1, ReleasedShape DEF Stands
<1>5. CASE /\ c # Null /\ Unlink(loc[t].prev, c) /\ Free(c)
           /\ loc' = [loc EXCEPT ![t].cur = After(loc[t].prev, c)] /\ UNCHANGED <<lock, pc>>
  <2> DEFINE l == [loc[t] EXCEPT !.cur = After(loc[t].prev, c)]
  <2>1. ListTypes' /\ DevInv'
    BY <1>1, <1>2, <1>5, Unlinked
  <2>2. PICK r \in Seq(Nodes) :
          /\ Leads(next', r) /\ Places(r) = alloc' /\ head' = At(r, 1)
          /\ i \in 1 .. Len(r) + 1 /\ At(r, i - 1) = loc[t].prev /\ After(loc[t].prev, c) = At(r, i)
    BY <1>1, <1>2, <1>5, Unlinked
  <2>3. At(r, i) \in Nodes \cup {Null}
    BY <2>2 DEF At
  <2>4. /\ l \in Locals /\ l.op = "verify" /\ l.arg = loc[t].arg /\ l.node = Null
        /\ l.cur = At(r, i) /\ l.prev = At(r, i - 1)
    BY <1>1, <2>2, <2>3 DEF Locals
  <2>5. loc' = [loc EXCEPT ![t] = l]
    BY <1>5 DEF ThreadInv, ThreadTypes
  <2> HIDE DEF l
  <2>6. loc'[t] = l /\ alloc' \ {l.node} = alloc'
    BY <2>1, <2>4, <2>5 DEF ThreadInv, ThreadTypes, ListTypes
  <2>7. Place(t, r, i)'
    BY <2>4, <2>6 DEF Place
  <2>8. QED
    BY <1>1, <1>5, <2>1, <2>2, <2>4, <2>5, <2>6, <2>7, MovedShape
<1>6. CASE /\ c # Null /\ left > 0 /\ dev' = [dev EXCEPT ![c].left = left]
           /\ Move(t, next[c]) /\ UNCHANGED <<head, next, alloc, lock, pc>>
  <2> DEFINE l == [loc[t] EXCEPT !.prev = loc[t].cur, !.cur = next[loc[t].cur]]
  <2>1. c \in alloc /\ c \in Nodes /\ dev[c].left \in Int /\ left \in Int /\ dev[c].left <= AdvrTimeOut
    BY <1>2, <1>6 DEF Stands, ListInv, ListTypes, DevInv
  <2>2. ListTypes'
    BY <1>6, <2>1 DEF ListInv, ListTypes
  <2>3. \A m \in alloc : dev'[m].uid = dev[m].uid /\ dev'[m].left = IF m = c THEN left ELSE dev[m].left
    BY <1>6, <2>1 DEF ListInv, ListTypes
  <2>4. left \in 1 .. AdvrTimeOut
    BY <1>6, <2>1
  <2>5. DevInv'
    BY <1>6, <2>3, <2>4 DEF DevInv, ListInv
  <2>6. /\ l \in Locals /\ l.op = "verify" /\ l.arg = loc[t].arg /\ l.node = Null
        /\ l.cur = At(s, i + 1) /\ l.prev = At(s, i)
    BY <1>1, <1>2, <1>6 DEF Locals, Ops, ListInv, ListTypes, Stands, Place
  <2>7. loc' = [loc EXCEPT ![t] = l]
    BY <1>6 DEF Move, ThreadInv, ThreadTypes
  <2> HIDE DEF l
  <2>8. i + 1 \in 1 .. Len(s) + 1 /\ i + 1 - 1 = i /\ loc'[t] = l
    BY <1>2, <1>6, <2>7 DEF Stands, ThreadInv, ThreadTypes
  <2>9. Place(t, s, i + 1)'
    BY <2>6, <2>8 DEF Place
  <2>10. QED
    BY <1>1, <1>2, <1>3, <1>6, <2>2, <2>5, <2>6, <2>7, <2>8, <2>9, MovedShape DEF Stands
<1>7. QED
  BY <1>4, <1>5, <1>6 DEF VerifyTimeouts

(* There is memory for a device that no allocated node has. *)
LEMMA RoomForOne ==
    ASSUME Inv, NEW u \in Uids, \A n \in alloc : dev[n].uid # u
    PROVE  \E n \in Nodes : n \notin alloc
<1> DEFINE f == [n \in alloc |-> dev[n].uid]
<1>1. f \in [alloc -> Uids \ {u}]
  BY DEF Inv, ListInv, DevInv
<1>2. \A m, n \in alloc : f[m] = f[n] => m = n
  BY DEF Inv, ListInv, DevInv
<1>3. alloc \subseteq Nodes
  BY DEF Inv, ListInv, ListTypes
<1> HIDE DEF f
<1>4. QED
  BY <1>1, <1>2, <1>3, CtrlPtAssumption, RoomLeft

(* CtrlPointAddDevice, the search for the device and the new node. *)
LEMMA FindKeeps ==
    ASSUME Inv, NEW t \in Threads, AddFind(t)
    PROVE  ThreadInv' /\ ListInv'
<1> USE CtrlPtAssumption DEF Inv
<1> DEFINE c == loc[t].cur
<1>1. /\ pc[t] = "walk" /\ loc[t].op = "add" /\ loc[t].arg \in Uids
      /\ loc[t] \in Locals /\ loc[t].node = Null
  BY DEF AddFind, Here, ThreadInv, ThreadTypes, ArgInv
<1>2. PICK s \in Seq(Nodes), i \in Nat : Stands(t, s, i)
  BY <1>1, Standing
<1>3. Places(s) = alloc
  BY <1>1, <1>2 DEF Stands, ListInv, ListTypes
<1>4. CASE /\ c # Null /\ dev' = [dev EXCEPT ![c].left = AdvrTimeOut] /\ Release(t)
           /\ UNCHANGED <<head, next, alloc>>
  <2>1. c \in alloc /\ c \in Nodes
    BY <1>2, <1>4 DEF Stands, ListInv, ListTypes
  <2>2. ListTypes'
    <3>1. dev[c] \in [uid : Uids \cup {Null}, left : Int] /\ AdvrTimeOut \in Int
      BY <2>1 DEF ListInv, ListTypes
    <3>2. [dev[c] EXCEPT !.left = AdvrTimeOut] \in [uid : Uids \cup {Null}, left : Int]
      BY <3>1
    <3>3. dev' \in [Nodes -> [uid : Uids \cup {Null}, left : Int]]
      BY <1>4, <3>2 DEF ListInv, ListTypes
    <3>4. QED
      BY <1>4, <3>3 DEF ListInv, ListTypes
  <2>3. \A m \in alloc : /\ dev'[m].uid = dev[m].uid
                         /\ dev'[m].left = IF m = c THEN AdvrTimeOut ELSE dev[m].left
    BY <1>4, <2>1 DEF ListInv, ListTypes
  <2>4. AdvrTimeOut \in 1 .. AdvrTimeOut
    OBVIOUS
  <2>5. DevInv'
    BY <1>4, <2>3, <2>4 DEF DevInv, ListInv
  <2>6. QED
    BY <1>1, <1>2, <1>3, <1>4, <2>2, <2>5, ReleasedShape DEF Stands
<1>5. CASE c # Null /\ dev[c].uid # loc[t].arg /\ Move(t, next[c]) /\ UNCHANGED <<list, lock, pc>>
  <2> DEFINE l == [loc[t] EXCEPT !.prev = loc[t].cur, !.cur = next[loc[t].cur]]
  <2>1. ListTypes' /\ DevInv' /\ head' = head /\ next' = next /\ alloc' = alloc /\ dev' = dev
    BY <1>5 DEF ListInv, ListTypes, DevInv, list
  <2>2. /\ l \in Locals /\ l.op = "add" /\ l.arg = loc[t].arg /\ l.node = Null
        /\ l.cur = At(s, i + 1) /\ l.prev = At(s, i)
    BY <1>1, <1>2, <1>5 DEF Locals, Ops, ListInv, ListTypes, Stands, Place
  <2>3. loc' = [loc EXCEPT ![t] = l]
    BY <1>5 DEF Move, ThreadInv, ThreadTypes
  <2> HIDE DEF l
  <2>4. i + 1 \in 1 .. Len(s) + 1 /\ i + 1 - 1 = i /\ loc'[t] = l /\ i \in 1 .. Len(s)
    BY <1>2, <1>5, <2>3 DEF Stands, ThreadInv, ThreadTypes
  <2>5. \A k \in 1 .. i : dev'[s[k]].uid # loc[t].arg
    <3>1. \A k \in 1 .. i - 1 : dev[s[k]].uid # loc[t].arg
      BY <1>1, <1>2 DEF Stands, Place
    <3>2. dev[s[i]].uid # loc[t].arg
      BY <1>2, <1>5 DEF Stands
    <3>3. QED
      BY <2>1, <2>4, <3>1, <3>2
  <2>6. Place(t, s, i + 1)'
    BY <2>2, <2>4, <2>5 DEF Place
  <2>7. QED
    BY <1>1, <1>2, <1>3, <1>5, <2>1, <2>2, <2>3, <2>4, <2>6, MovedShape DEF Stands
<1>6. ASSUME c = Null, NEW n, n = CHOOSE m \in Nodes \ alloc : TRUE,
             alloc' = alloc \cup {n}, next' = [next EXCEPT ![n] = Null],
             dev' = [dev EXCEPT ![n] = [uid |-> loc[t].arg, left |-> AdvrTimeOut]],
             loc' = [loc EXCEPT ![t].node = n, ![t].cur = head], UNCHANGED <<head, lock, pc>>
      PROVE  ThreadInv' /\ ListInv'
  <2> DEFINE l == [loc[t] EXCEPT !.node = n, !.cur = head]
  <2>1. i = Len(s) + 1 /\ \A k \in 1 .. i - 1 : dev[s[k]].uid # loc[t].arg
    BY <1>1, <1>2, <1>6 DEF Stands, Place
  <2>2. \A m \in alloc : dev[m].uid # loc[t].arg
    BY <1>3, <2>1 DEF Places
  <2>3. n \in Nodes \ alloc
    BY <1>1, <1>6, <2>2, RoomForOne
  <2>4. ListTypes'
    <3>1. [uid |-> loc[t].arg, left |-> AdvrTimeOut] \in [uid : Uids \cup {Null}, left : Int]
      BY <1>1
    <3>2. QED
      BY <1>6, <2>3, <3>1 DEF ListInv, ListTypes
  <2>5. \A m \in alloc' : /\ m # n => dev'[m] = dev[m] /\ m \in alloc
                          /\ m = n => dev'[m].uid = loc[t].arg /\ dev'[m].left = AdvrTimeOut
    BY <1>6, <2>3 DEF ListInv, ListTypes
  <2>6. DevInv'
    BY <1>1, <2>2, <2>5 DEF DevInv, ListInv
  <2>7. head \in Nodes \cup {Null}
    BY DEF ListInv, ListTypes
  <2>8. /\ l \in Locals /\ l.op = "add" /\ l.arg = loc[t].arg /\ l.node = n
        /\ l.cur = At(s, 1) /\ l.prev = loc[t].prev
    BY <1>1, <1>2, <2>3, <2>7 DEF Locals, Stands
  <2>9. loc' = [loc EXCEPT ![t] = l]
    <3>1. loc' = [loc EXCEPT ![t].node = n, ![t].cur = head]
      BY <1>6
    <3>2. loc \in [Threads -> Locals]
      BY DEF ThreadInv, ThreadTypes
    <3>3. QED
      BY <3>1, <3>2
  <2> HIDE DEF l
  <2>10. Leads(next', s)
    <3>1. \A k \in 1 .. Len(s) : s[k] \in Nodes /\ s[k] # n
      BY <1>3, <2>3 DEF Places
    <3>2. \A k \in 1 .. Len(s) : next'[s[k]] = next[s[k]]
      BY <1>6, <2>3, <3>1 DEF ListInv, ListTypes
    <3>3. QED
      BY <1>2, <3>2 DEF Stands, Leads
  <2>11. alloc' \ {l.node} = Places(s)
    BY <1>3, <1>6, <2>3, <2>8
  <2>12. loc[t].prev \in alloc \cup {Null}
    BY <1>1, <1>2, <1>3 DEF Stands, Place, At, Places
  <2>13. Place(t, s, 1)'
    <3>1. loc'[t] = l
      <4>1. loc \in [Threads -> Locals]
        BY DEF ThreadInv, ThreadTypes
      <4>2. QED
        BY <2>9, <4>1
    <3>2. n \in alloc' /\ alloc \subseteq alloc' /\ n # Null
      <4>1. alloc' = alloc \cup {n}
        BY <1>6
      <4>2. QED
        BY <2>3, <4>1
    <3>3. next'[n] = Null
      <4>1. next' = [next EXCEPT ![n] = Null]
        BY <1>6
      <4>2. next \in [Nodes -> Nodes \cup {Null}]
        BY DEF ListInv, ListTypes
      <4>3. QED
        BY <2>3, <4>1, <4>2
    <3>4. s # <<>> => 1 <= Len(s)
      OBVIOUS
    <3>5. loc[t].prev \in alloc' \cup {Null}
      BY <2>12, <3>2
    <3> HIDE CtrlPtAssumption DEF Inv
    <3>6. QED
      BY <2>8, <3>1, <3>2, <3>3, <3>4, <3>5 DEF Place
  <2>14. 1 \in 1 .. Len(s) + 1 /\ head' = At(s, 1)
    BY <1>2, <1>6 DEF Stands
  <2>15. QED
    BY <1>1, <1>6, <2>4, <2>6, <2>8, <2>9, <2>10, <2>11, <2>13, <2>14, MovedShape
<1>7. QED
  BY <1>4, <1>5, <1>6 DEF AddFind, Renewed

(* CtrlPointAddDevice, the insertion. *)
LEMMA AppendKeeps ==
    ASSUME Inv, NEW t \in Threads, AddAppend(t)
    PROVE  ThreadInv' /\ ListInv'
<1> USE CtrlPtAssumption DEF Inv
<1> DEFINE c == loc[t].cur
           n == loc[t].node
<1>1. /\ pc[t] = "walk" /\ loc[t].op = "add" /\ loc[t] \in Locals /\ n # Null
      /\ UNCHANGED <<dev, alloc>>
  BY DEF AddAppend, Here, ThreadInv, ThreadTypes, ArgInv
<1>2. PICK s \in Seq(Nodes), i \in Nat : Stands(t, s, i)
  BY <1>1, Standing
<1>3. /\ n \in alloc /\ n \in Nodes /\ next[n] = Null /\ Places(s) = alloc \ {n}
      /\ loc[t].prev \in alloc \cup {Null} /\ (s # <<>> => i <= Len(s))
      /\ Leads(next, s) /\ head = At(s, 1)
      /\ next \in [Nodes -> Nodes \cup {Null}]
  BY <1>1, <1>2 DEF Stands, Place, ListInv, ListTypes
<1> HIDE DEF n
<1>4. CASE c = Null /\ head' = n /\ Release(t) /\ UNCHANGED next
  <2>1. s = <<>>
    BY <1>2, <1>3, <1>4 DEF Stands
  <2>2. Joins(next, next, s, n)
    BY <2>1 DEF Joins
  <2>3. PICK r \in Seq(Nodes) : /\ Leads(next, r) /\ Places(r) = Places(s) \cup {n}
                                /\ At(r, 1) = IF s = <<>> THEN n ELSE At(s, 1)
    <3>1. n \in Nodes \ Places(s)
      BY <1>3
    <3> HIDE CtrlPtAssumption DEF Inv
    <3>2. QED
      BY <1>3, <2>2, <3>1, PutLast
  <2>4. ListTypes' /\ DevInv' /\ Places(r) = alloc' /\ head' = At(r, 1)
    BY <1>1, <1>3, <1>4, <2>1, <2>3 DEF ListInv, ListTypes, DevInv
  <2>5. QED
    BY <1>1, <1>4, <2>3, <2>4, ReleasedShape
<1>5. CASE c # Null /\ next[c] # Null /\ Move(t, next[c]) /\ UNCHANGED <<head, next, lock, pc>>
  <2> DEFINE l == [loc[t] EXCEPT !.prev = loc[t].cur, !.cur = next[loc[t].cur]]
  <2>1. ListTypes' /\ DevInv'
    BY <1>1, <1>5 DEF ListInv, ListTypes, DevInv
  <2>2. /\ l \in Locals /\ l.op = "add" /\ l.arg = loc[t].arg /\ l.node = n
        /\ l.cur = At(s, i + 1) /\ l.prev = c
    BY <1>1, <1>2, <1>5 DEF Locals, Ops, ListInv, ListTypes, Stands, Place, n
  <2>3. loc' = [loc EXCEPT ![t] = l]
    BY <1>5 DEF Move, ThreadInv, ThreadTypes
  <2>4. c \in alloc /\ i \in 1 .. Len(s) /\ next[c] = At(s, i + 1)
    BY <1>2, <1>5 DEF Stands
  <2> HIDE DEF l
  <2>5. i + 1 <= Len(s) /\ i + 1 \in 1 .. Len(s) + 1
    BY <1>5, <2>4 DEF At
  <2>6. loc'[t] = l
    BY <2>3 DEF ThreadInv, ThreadTypes
  <2>7. Place(t, s, i + 1)'
    BY <1>1, <1>3, <1>5, <2>2, <2>4, <2>5, <2>6 DEF Place
  <2>8. QED
    BY <1>1, <1>3, <1>5, <2>1, <2>2, <2>3, <2>5, <2>7, MovedShape
<1>6. CASE /\ c # Null /\ next[c] = Null /\ next' = [next EXCEPT ![c] = n] /\ Release(t)
           /\ UNCHANGED head
  <2>1. c \in alloc /\ c \in Nodes /\ i \in 1 .. Len(s) /\ c = s[i] /\ At(s, i + 1) = Null
    BY <1>2, <1>6 DEF Stands, ListInv, ListTypes
  <2>2. i = Len(s) /\ s # <<>>
    <3>1. i + 1 \in 1 .. Len(s) => s[i + 1] \in Nodes
      OBVIOUS
    <3>2. QED
      BY <2>1, <3>1 DEF At
  <2>3. next' \in [Nodes -> Nodes \cup {Null}]
    BY <1>3, <1>6, <2>1
  <2>4. Joins(next, next', s, n)
    BY <1>3, <1>6, <2>1, <2>2 DEF Joins
  <2>5. PICK r \in Seq(Nodes) : /\ Leads(next', r) /\ Places(r) = Places(s) \cup {n}
                                /\ At(r, 1) = IF s = <<>> THEN n ELSE At(s, 1)
    <3>1. n \in Nodes \ Places(s)
      BY <1>3
    <3> HIDE CtrlPtAssumption DEF Inv
    <3>2. QED
      BY <1>3, <2>3, <2>4, <3>1, PutLast
  <2>6. ListTypes' /\ DevInv' /\ Places(r) = alloc' /\ head' = At(r, 1)
    BY <1>1, <1>3, <1>6, <2>2, <2>3, <2>5 DEF ListInv, ListTypes, DevInv
  <2>7. QED
    BY <1>1, <1>6, <2>5, <2>6, ReleasedShape
<1>7. QED
  BY <1>4, <1>5, <1>6 DEF AddAppend, n

-----------------------------------------------------------------------------
(* The threads' other steps.                                               *)

(* The threads that the sample names are different ones. *)
LEMMA ThreadNames ==
  /\ Nobody \notin Threads /\ Main \in Threads /\ Timer \in Threads /\ Cmd \in Threads
  /\ Main # Timer /\ Main # Cmd /\ Timer # Cmd
BY CtrlPtAssumption DEF Nobody, Threads, Main, Timer, Cmd

(* A step that leaves alone the list, the mutex and whoever walks keeps the list. *)
LEMMA QuietShape ==
    ASSUME ListInv, UNCHANGED <<list, lock>>,
           \A u \in Threads : /\ pc'[u] = "walk" => pc[u] = "walk"
                              /\ pc[u] = "walk" => loc'[u] = loc[u]
    PROVE  ListInv'
<1>1. head' = head /\ next' = next /\ dev' = dev /\ alloc' = alloc /\ lock' = lock
  BY DEF list
<1>2. ListTypes' /\ DevInv'
  BY <1>1 DEF ListInv, ListTypes, DevInv
<1>3. lock' = Nobody => \E s \in Seq(Nodes) : Whole(s, alloc)' /\ head' = At(s, 1)
  BY <1>1 DEF ListInv, ShapeInv, Whole, Linked
<1>4. ASSUME NEW u \in Threads, pc'[u] = "walk" PROVE \E s \in Seq(Nodes) : Walks(u, s)'
  <2>1. PICK s \in Seq(Nodes) : Walks(u, s)
    BY <1>4 DEF ListInv, ShapeInv
  <2>2. loc'[u] = loc[u]
    BY <1>4
  <2>3. Whole(s, alloc \ {loc[u].node})'
    BY <1>1, <2>1, <2>2 DEF Walks, Whole, Linked
  <2>4. \A i \in 1 .. Len(s) + 1 : Place(u, s, i) => Place(u, s, i)'
    BY <1>1, <2>2 DEF Place
  <2>5. Walks(u, s)'
    BY <1>1, <2>1, <2>2, <2>3, <2>4 DEF Walks
  <2>6. QED
    BY <2>5
<1>5. QED
  BY <1>2, <1>3, <1>4 DEF ListInv, ShapeInv

(* A thread calls a function that will take the mutex. *)
LEMMA CallKeeps ==
    ASSUME Inv, NEW t \in Threads, pc[t] \notin {"walk", "off"},
           NEW o \in Ops \ {"none"}, NEW u \in Uids \cup {Null} \cup DevNums, NEW n \in Int,
           Call(t, o, u, n), o \in {"add", "remove"} => u \in Uids,
           o = "send" => u \in DevNums /\ u = n, t = Main /\ o = "refresh" => pc[Main] = "start"
    PROVE  ThreadInv' /\ ListInv'
<1> USE DEF Inv, ThreadInv
<1> DEFINE l == [NoLoc EXCEPT !.op = o, !.arg = u, !.n = n]
<1>1. /\ pc' = [pc EXCEPT ![t] = "lock"] /\ loc' = [loc EXCEPT ![t] = l]
      /\ UNCHANGED <<list, lock>>
  BY DEF Call, Goto
<1>2. /\ l \in Locals /\ l.op = o /\ l.arg = u /\ l.n = n /\ l.prev = Null /\ l.node = Null
  BY DEF NoLoc, Locals
<1> HIDE DEF l
<1>3. ThreadTypes'
  BY <1>1, <1>2 DEF ThreadTypes
<1>4. /\ pc'[t] = "lock" /\ loc'[t] = l
      /\ \A v \in Threads \ {t} : pc'[v] = pc[v] /\ loc'[v] = loc[v]
  BY <1>1 DEF ThreadTypes
<1>5. LockInv'
  BY <1>1, <1>4 DEF LockInv
<1>6. ArgInv'
  BY <1>2, <1>4 DEF ArgInv
<1>7. MainInv'
  BY <1>2, <1>4, ThreadNames DEF MainInv
<1>8. ListInv'
  BY <1>1, <1>4, QuietShape
<1>9. QED
  BY <1>3, <1>5, <1>6, <1>7, <1>8

(* A thread goes on outside of the functions that take the mutex. *)
LEMMA GoKeeps ==
    ASSUME Inv, UNCHANGED <<list, lock, loc>>, MainInv',
           pc' \in [Threads -> {"start", "off", "idle", "lock", "walk", "print", "search", "sleep",
                                "sigwait", "finish"}],
           \A u \in Threads : \/ pc'[u] = pc[u]
                              \/ pc[u] # "walk" /\ pc'[u] \notin {"walk", "lock"}
    PROVE  ThreadInv' /\ ListInv'
<1> USE DEF Inv, ThreadInv
<1>1. ThreadTypes'
  BY DEF ThreadTypes
<1>2. LockInv'
  BY DEF LockInv
<1>3. ArgInv'
  BY DEF ArgInv
<1>4. ListInv'
  BY QuietShape
<1>5. QED
  BY <1>1, <1>2, <1>3, <1>4

(* ithread_mutex_lock: the walk begins at the head of a list that is whole. *)
LEMMA AcquireKeeps ==
    ASSUME Inv, NEW t \in Threads, Acquire(t)
    PROVE  ThreadInv' /\ ListInv'
<1> USE DEF Inv, ThreadInv
<1> DEFINE l == [loc[t] EXCEPT !.cur = head]
<1>1. /\ pc[t] = "lock" /\ lock = Nobody /\ lock' = t /\ pc' = [pc EXCEPT ![t] = "walk"]
      /\ loc' = [loc EXCEPT ![t].cur = head]
      /\ head' = head /\ next' = next /\ dev' = dev /\ alloc' = alloc
  BY DEF Acquire, Goto, list
<1>2. loc' = [loc EXCEPT ![t] = l] /\ loc[t] \in Locals
  BY <1>1 DEF ThreadTypes
<1>3. head \in Nodes \cup {Null}
  BY DEF ListInv, ListTypes
<1>4. /\ l \in Locals /\ l.op = loc[t].op /\ l.arg = loc[t].arg /\ l.n = loc[t].n
      /\ l.prev = loc[t].prev /\ l.node = loc[t].node /\ l.cur = head
  BY <1>2, <1>3 DEF Locals
<1> HIDE DEF l
<1>5. ThreadTypes'
  BY <1>1, <1>2, <1>4 DEF ThreadTypes
<1>6. /\ pc'[t] = "walk" /\ loc'[t] = l
      /\ \A v \in Threads \ {t} : pc'[v] = pc[v] /\ loc'[v] = loc[v]
  BY <1>1, <1>2 DEF ThreadTypes
<1>7. \A v \in Threads : pc[v] # "walk"
  BY <1>1, ThreadNames DEF LockInv
<1>8. LockInv' /\ lock' # Nobody
  BY <1>1, <1>6, <1>7, ThreadNames DEF LockInv
<1>9. ArgInv'
  BY <1>1, <1>4, <1>6 DEF ArgInv
<1>10. MainInv'
  BY <1>1, <1>4, <1>6, ThreadNames DEF MainInv
<1>11. ListTypes' /\ DevInv'
  BY <1>1 DEF ListInv, ListTypes, DevInv
<1>12. /\ l.prev = Null /\ l.node = Null
       /\ l.op = "send" => l.n = l.arg /\ l.arg \in Int
  BY <1>1, <1>4, CtrlPtAssumption DEF ArgInv
<1>13. PICK s \in Seq(Nodes) : Whole(s, alloc) /\ head = At(s, 1)
  BY <1>1 DEF ListInv, ShapeInv
<1>14. Whole(s, alloc \ {loc[t].node})'
  <2>1. alloc' \ {loc'[t].node} = alloc
    BY <1>1, <1>6, <1>12, CtrlPtAssumption DEF ListInv, ListTypes
  <2>2. QED
    BY <1>1, <1>13, <2>1 DEF Whole, Linked
<1>15. Place(t, s, 1)'
  <2>1. At(s, 1 - 1) = Null
    BY DEF At
  <2>2. QED
    BY <1>6, <1>4, <1>12, <1>13, <2>1 DEF Place
<1>16. Walks(t, s)'
  <2>1. 1 \in 1 .. Len(s) + 1
    OBVIOUS
  <2>2. QED
    BY <1>1, <1>4, <1>6, <1>13, <1>14, <1>15, <2>1 DEF Walks
<1>17. ShapeInv'
  BY <1>6, <1>7, <1>8, <1>16 DEF ShapeInv
<1>18. QED
  BY <1>5, <1>8, <1>9, <1>10, <1>11, <1>17 DEF ListInv

(* The loops, the start, the end and the callbacks. *)
LEMMA OthersKeep ==
    ASSUME Inv, \/ \E t \in Threads : Stop(t) \/ Callback(t) \/ SearchSent(t) \/ Finish(t) \/ ThenPrint(t)
                \/ Start \/ TimerLoop \/ TimerWakes \/ Command
    PROVE  ThreadInv' /\ ListInv'
<1>1. /\ pc \in [Threads -> {"start", "off", "idle", "lock", "walk", "print", "search", "sleep",
                             "sigwait", "finish"}]
      /\ MainInv
  BY DEF Inv, ThreadInv, ThreadTypes
<1>2. Null \in Uids \cup {Null} \cup DevNums /\ 0 \in Int
      /\ {"add", "remove", "refresh", "stop", "verify", "send", "print"} = Ops \ {"none"}
  BY DEF Ops
<1>3. ASSUME NEW t \in Threads, Stop(t) PROVE ThreadInv' /\ ListInv'
  BY <1>2, <1>3, CallKeeps DEF Stop
<1>4. ASSUME NEW t \in Threads, Callback(t) PROVE ThreadInv' /\ ListInv'
  <2>1. PICK u \in Uids : Call(t, "add", u, 0) \/ Call(t, "remove", u, 0)
    BY <1>4 DEF Callback
  <2>2. pc[t] = "idle"
    BY <1>4 DEF Callback
  <2>3. QED
    BY <1>2, <2>1, <2>2, CallKeeps
<1>5. ASSUME NEW t \in Threads, SearchSent(t) PROVE ThreadInv' /\ ListInv'
  <2>1. UNCHANGED <<list, lock, loc>> /\ pc[t] = "search"
    BY <1>5 DEF SearchSent
  <2>2. CASE t = Main
    <3>1. pc' = [pc EXCEPT ![Main] = "sigwait", ![Timer] = "idle", ![Cmd] = "idle"]
      BY <1>5, <2>2 DEF SearchSent
    <3>2. pc'[Main] = "sigwait" /\ pc'[Timer] = "idle" /\ pc'[Cmd] = "idle"
          /\ \A u \in Threads \ {Main, Timer, Cmd} : pc'[u] = pc[u]
      BY <1>1, <3>1, ThreadNames
    <3>3. pc[Timer] = "off" /\ pc[Cmd] = "off"
      BY <1>1, <2>1, <2>2 DEF MainInv
    <3>4. MainInv'
      BY <3>2 DEF MainInv
    <3>5. \A u \in Threads : pc'[u] = pc[u] \/ (pc[u] # "walk" /\ pc'[u] \notin {"walk", "lock"})
      BY <2>1, <2>2, <3>2, <3>3
    <3>6. pc' \in [Threads -> {"start", "off", "idle", "lock", "walk", "print", "search", "sleep",
                               "sigwait", "finish"}]
      BY <1>1, <3>1
    <3>7. QED
      BY <2>1, <3>4, <3>5, <3>6, GoKeeps
  <2>3. CASE t # Main
    <3>1. pc' = [pc EXCEPT ![t] = "idle"]
      BY <1>5, <2>3 DEF SearchSent
    <3>2. MainInv'
      BY <1>1, <2>1, <2>3, <3>1, ThreadNames DEF MainInv
    <3>3. QED
      BY <1>1, <2>1, <3>1, <3>2, GoKeeps
  <2>4. QED
    BY <2>2, <2>3
<1>6. ASSUME NEW t \in Threads, Finish(t) PROVE ThreadInv' /\ ListInv'
  <2>1. UNCHANGED <<list, lock, loc>> /\ pc[t] = "finish" /\ (pc' = pc \/ pc' = [pc EXCEPT ![t] = "off"])
    BY <1>6 DEF Finish, Goto
  <2>2. MainInv'
    BY <1>1, <2>1, ThreadNames DEF MainInv
  <2>3. QED
    BY <1>1, <2>1, <2>2, GoKeeps
<1>7. ASSUME NEW t \in Threads, ThenPrint(t) PROVE ThreadInv' /\ ListInv'
  BY <1>2, <1>7, CallKeeps DEF ThenPrint
<1>8. CASE Start
  <2>1. pc[Main] = "start"
    BY <1>8 DEF Start
  <2>2. CASE Call(Main, "refresh", Null, 0)
    BY <1>2, <2>1, <2>2, ThreadNames, CallKeeps
  <2>3. CASE Goto(Main, "off") /\ UNCHANGED <<list, lock, loc>>
    <3>1. pc' = [pc EXCEPT ![Main] = "off"]
      BY <2>3 DEF Goto
    <3>2. MainInv'
      BY <1>1, <3>1, ThreadNames DEF MainInv
    <3>3. QED
      BY <1>1, <2>1, <2>3, <3>1, <3>2, GoKeeps
  <2>4. QED
    BY <1>8, <2>2, <2>3 DEF Start
<1>9. CASE TimerLoop
  <2>1. /\ UNCHANGED <<list, lock, loc>> /\ pc[Timer] = "idle"
        /\ pc' = [pc EXCEPT ![Timer] = "sleep"] \/ pc' = [pc EXCEPT ![Timer] = "off"]
    BY <1>9 DEF TimerLoop, Goto
  <2>2. MainInv'
    BY <1>1, <2>1, ThreadNames DEF MainInv
  <2>3. QED
    BY <1>1, <2>1, <2>2, GoKeeps
<1>10. CASE TimerWakes
  BY <1>2, <1>10, ThreadNames, CallKeeps DEF TimerWakes
<1>11. CASE Command
  <2>1. pc[Cmd] = "idle"
    BY <1>11 DEF Command
  <2>2. ASSUME NEW n \in DevNums, Call(Cmd, "send", n, n) PROVE ThreadInv' /\ ListInv'
    <3>1. n \in Int
      BY CtrlPtAssumption
    <3>2. QED
      BY <1>2, <2>1, <2>2, <3>1, ThreadNames, CallKeeps
  <2>3. CASE Call(Cmd, "print", Null, 0)
    BY <1>2, <2>1, <2>3, ThreadNames, CallKeeps
  <2>4. CASE Call(Cmd, "refresh", Null, 0)
    BY <1>2, <2>1, <2>4, ThreadNames, CallKeeps
  <2>5. QED
    BY <1>11, <2>2, <2>3, <2>4 DEF Command, SendCommand
<1>12. QED
  BY <1>3, <1>4, <1>5, <1>6, <1>7, <1>8, <1>9, <1>10, <1>11

(* The flags and the count of commands. *)
LEMMA RestKept ==
    ASSUME RestTypes, Next
    PROVE  RestTypes'
<1>1. ASSUME NEW t \in Threads, Acquire(t) \/ Work(t) \/ Stop(t) \/ Callback(t) PROVE RestTypes'
  <2>1. CASE UNCHANGED <<running, sdk, commands>>
    BY <2>1 DEF RestTypes
  <2>2. CASE Finish(t)
    BY <2>2 DEF RestTypes, Finish
  <2>3. CASE Stop(t)
    BY <2>3 DEF RestTypes, Stop
  <2>4. Acquire(t) \/ Callback(t) \/ (Work(t) /\ ~Finish(t)) => UNCHANGED <<running, sdk, commands>>
    BY DEF Acquire, Callback, Work, AddFind, AddAppend, RemoveDevice, RemoveAll, VerifyTimeouts,
           GetDevice, SendAction, PrintList, SearchSent, ThenPrint, rest
  <2>5. QED
    BY <1>1, <2>1, <2>2, <2>3, <2>4
<1>2. CASE Start
  BY <1>2 DEF Start, RestTypes
<1>3. CASE TimerLoop \/ TimerWakes
  BY <1>3 DEF TimerLoop, TimerWakes, RestTypes, rest
<1>4. CASE Command
  BY <1>4, CtrlPtAssumption DEF Command, RestTypes
<1>5. QED
  BY <1>1, <1>2, <1>3, <1>4 DEF Next

(* The invariant holds at the start. *)
LEMMA InvInit == Init => Inv
<1> SUFFICES ASSUME Init PROVE Inv
  OBVIOUS
<1> USE CtrlPtAssumption DEF Init
<1>1. NoLoc \in Locals /\ Blank \in [uid : Uids \cup {Null}, left : Int]
  BY DEF NoLoc, Locals, Ops, Blank
<1>2. ThreadTypes /\ \A t \in Threads : pc[t] \notin {"walk", "lock"} /\ lock # t
  BY <1>1, ThreadNames DEF ThreadTypes
<1>3. LockInv /\ ArgInv
  BY <1>2 DEF LockInv, ArgInv
<1>4. MainInv
  BY ThreadNames DEF MainInv, Timer, Cmd, Main
<1>5. RestTypes
  BY DEF RestTypes
<1>6. ListTypes /\ DevInv
  BY <1>1 DEF ListTypes, DevInv
<1>7. Whole(<<>>, alloc) /\ head = At(<<>>, 1) /\ <<>> \in Seq(Nodes)
  BY DEF Whole, Linked, At
<1>8. ShapeInv
  BY <1>2, <1>7 DEF ShapeInv
<1>9. QED
  BY <1>2, <1>3, <1>4, <1>5, <1>6, <1>8 DEF Inv, ThreadInv, ListInv

(* Every step keeps the invariant. *)
LEMMA InvNext == Inv /\ [Next]_vars => Inv'
<1> SUFFICES ASSUME Inv, [Next]_vars PROVE Inv'
  OBVIOUS
<1>1. CASE Next
  <2>1. RestTypes'
    BY <1>1, RestKept DEF Inv
  <2>2. ThreadInv' /\ ListInv'
    BY <1>1, AcquireKeeps, FindKeeps, AppendKeeps, RemoveKeeps, RemoveAllKeeps, VerifyKeeps,
       ReadersKeep, OthersKeep DEF Next, Work
  <2>3. QED
    BY <2>1, <2>2 DEF Inv
<1>2. CASE UNCHANGED vars
  <2>1. UNCHANGED <<list, lock, loc>> /\ pc' = pc /\ running' = running /\ sdk' = sdk /\ commands' = commands
    BY <1>2 DEF vars, list
  <2>2. MainInv' /\ RestTypes'
    BY <2>1 DEF Inv, ThreadInv, MainInv, RestTypes
  <2>3. ThreadInv' /\ ListInv'
    BY <2>1, <2>2, GoKeeps DEF Inv, ThreadInv, ThreadTypes
  <2>4. QED
    BY <2>2, <2>3 DEF Inv
<1>3. QED
  BY <1>1, <1>2

-----------------------------------------------------------------------------
(* Theorems.                                                               *)

(* A sequence that leads through all nodes is one of those that Lists has. *)
LEMMA InLists ==
    ASSUME NEW s \in Seq(Nodes), Leads(next, s), Places(s) = alloc, head = At(s, 1)
    PROVE  s \in Lists
<1>1. \A i, k \in 1 .. Len(s) : s[i] = s[k] => i = k
  BY DEF Leads
<1>2. Places(s) = {s[i] : i \in 1 .. Len(s)}
  BY DEF Places
<1>3. s \in [1 .. Len(s) -> alloc]
  BY DEF Places
<1>4. Linked(s)
  BY DEF Linked, Leads
<1>5. alloc = {s[i] : i \in 1 .. Len(s)}
  BY <1>2
<1>6. QED
  BY <1>1, <1>3, <1>4, <1>5, DistinctSize DEF Lists

(* The invariant gives what the users of the list rely on. *)
LEMMA InvSafe == Inv => ListSafe
<1> SUFFICES ASSUME Inv PROVE ListSafe
  OBVIOUS
<1>1. TypeOK
  BY DEF Inv, ThreadInv, ThreadTypes, RestTypes, ListInv, ListTypes, DevInv, TypeOK
<1>2. ListWhole
  <2> SUFFICES ASSUME lock = Nobody
               PROVE  /\ \E s \in Lists : \A n \in alloc : \E i \in 1 .. Len(s) : s[i] = n
                      /\ \A m, n \in alloc : m # n => dev[m].uid # dev[n].uid
                      /\ \A n \in alloc : dev[n].left > 0
    BY DEF ListWhole
  <2>1. PICK s \in Seq(Nodes) : Whole(s, alloc) /\ head = At(s, 1)
    BY DEF Inv, ListInv, ShapeInv
  <2>2. Leads(next, s) /\ Places(s) = alloc
    BY <2>1 DEF Whole, Linked, Leads, Places
  <2>3. s \in Lists
    BY <2>1, <2>2, InLists
  <2>4. \A n \in alloc : \E i \in 1 .. Len(s) : s[i] = n
    BY <2>2 DEF Places
  <2>5. (\A m, n \in alloc : m # n => dev[m].uid # dev[n].uid) /\ \A n \in alloc : dev[n].left > 0
    BY DEF Inv, ListInv, DevInv
  <2>6. QED
    BY <2>3, <2>4, <2>5
<1>3. ASSUME NEW t \in Threads, pc[t] = "walk"
      PROVE  /\ loc[t].cur \in alloc \cup {Null}
             /\ loc[t].op \in {"add", "remove", "verify"} => loc[t].prev \in alloc \cup {Null}
  <2>1. CASE loc[t].op \in {"refresh", "stop"}
    <3>1. PICK s \in Seq(Nodes) : Walks(t, s)
      BY <1>3 DEF Inv, ListInv, ShapeInv
    <3>2. loc[t].cur = At(s, 1) /\ {s[i] : i \in 1 .. Len(s)} \subseteq alloc
      BY <2>1, <3>1 DEF Walks, Whole
    <3>3. QED
      BY <2>1, <3>2 DEF At
  <2>2. CASE loc[t].op \notin {"refresh", "stop"}
    <3>1. PICK s \in Seq(Nodes), i \in Nat : Stands(t, s, i)
      BY <1>3, <2>2, Standing
    <3>2. Places(s) \subseteq alloc /\ loc[t].cur = At(s, i)
      BY <3>1 DEF Stands, Place
    <3>3. \A k \in Int : At(s, k) \in alloc \cup {Null}
      BY <3>2 DEF At, Places
    <3>4. loc[t].cur \in alloc \cup {Null}
      BY <3>2, <3>3
    <3>5. loc[t].op \in {"add", "remove", "verify"} => loc[t].prev \in alloc \cup {Null}
      BY <3>1, <3>3 DEF Stands, Place
    <3>6. QED
      BY <3>4, <3>5
  <2>3. QED
    BY <2>1, <2>2
<1>4. NoDangling
  BY <1>3 DEF NoDangling
<1>5. ASSUME NEW t \in Threads, Here(t, "send"), loc[t].n \in {0, 1}, loc[t].cur # Null, loc[t].arg # 0
      PROVE  \E s \in Lists : loc[t].cur = At(s, loc[t].arg)
  <2>1. pc[t] = "walk" /\ loc[t].op = "send" /\ loc[t].arg \in Int /\ loc[t].node = Null
    BY <1>5, CtrlPtAssumption DEF Here, Inv, ThreadInv, ArgInv
  <2>2. PICK s \in Seq(Nodes), i \in Nat : Stands(t, s, i)
    BY <2>1, Standing
  <2>3. /\ loc[t].n = loc[t].arg - (i - 1) /\ (loc[t].arg > 0 => loc[t].n > 0)
        /\ loc[t].cur = At(s, i) /\ i \in 1 .. Len(s) + 1
    BY <2>1, <2>2 DEF Stands, Place
  <2>4. i = loc[t].arg
    BY <1>5, <2>1, <2>3
  <2>5. Leads(next, s) /\ Places(s) = alloc /\ head = At(s, 1)
    BY <2>1, <2>2, CtrlPtAssumption DEF Stands, Inv, ListInv, ListTypes
  <2>6. s \in Lists
    BY <2>5, InLists
  <2>7. QED
    BY <2>3, <2>4, <2>6
<1>6. NthDevice
  BY <1>5 DEF NthDevice
<1>7. QED
  BY <1>1, <1>2, <1>4, <1>6 DEF ListSafe

(* CtrlPointAddDevice, CtrlPointRemoveDevice, CtrlPointRemoveAll,           *)
(* CtrlPointVerifyTimeouts and the readers share the device list safely:    *)
(* whenever DeviceListMutex is free the list has every allocated node and   *)
(* each device once, no loop stands at a freed node, and CtrlPointGetDevice *)
(* finds the device with the number it was asked for.                       *)
THEOREM ListStaysSafe == Spec => []ListSafe
<1>1. Spec => []Inv
  BY InvInit, InvNext, PTL DEF Spec
<1>2. QED
  BY <1>1, InvSafe, PTL

(* With advertisements that live no longer than a tick, as the sample's 5      *)
(* seconds and its tick of 30, CtrlPointVerifyTimeouts never sends a search: it *)
(* removes every device it comes to.                                            *)
THEOREM NeverAsked ==
    ASSUME AdvrTimeOut <= Incr
    PROVE  Spec => [](asked = {})
<1>1. Spec => []Inv
  BY InvInit, InvNext, PTL DEF Spec
<1>2. Init => asked = {}
  BY DEF Init
<1>3. Inv /\ asked = {} /\ [Next]_vars => (asked = {})'
  <2> SUFFICES ASSUME Inv, asked = {}, [Next]_vars PROVE asked' = {}
    OBVIOUS
  <2> USE CtrlPtAssumption
  <2>1. ASSUME NEW c, Free(c) PROVE asked' = {}
    BY <2>1 DEF Free
  <2>2. ASSUME NEW t \in Threads, VerifyTimeouts(t) PROVE asked' = {}
    <3>1. pc[t] = "walk"
      BY <2>2 DEF VerifyTimeouts, Here
    <3>2. loc[t].cur # Null => loc[t].cur \in alloc
      BY <3>1, InvSafe DEF ListSafe, NoDangling
    <3>3. loc[t].cur # Null => dev[loc[t].cur].left \in 1 .. AdvrTimeOut
      BY <3>2 DEF Inv, ListInv, DevInv
    <3>4. loc[t].cur # Null => ~(dev[loc[t].cur].left - Incr > 0)
      BY <3>3
    <3>5. QED
      BY <2>1, <2>2, <3>4 DEF VerifyTimeouts
  <2>3. ASSUME NEW t \in Threads, Work(t), ~VerifyTimeouts(t) PROVE asked' = {}
    BY <2>1, <2>3 DEF Work, AddFind, AddAppend, RemoveDevice, RemoveAll, GetDevice, SendAction,
                      PrintList, SearchSent, Finish, ThenPrint, rest
  <2>4. ASSUME NEW t \in Threads, Acquire(t) \/ Stop(t) \/ Callback(t) PROVE asked' = {}
    BY <2>4 DEF Acquire, Stop, Callback, rest
  <2>5. CASE Start \/ TimerLoop \/ TimerWakes \/ Command
    BY <2>5 DEF Start, TimerLoop, TimerWakes, Command, rest
  <2>6. QED
    BY <2>2, <2>3, <2>4, <2>5 DEF Next, vars
<1>4. QED
  BY <1>1, <1>2, <1>3, PTL DEF Spec
=============================================================================
