----------------------------- MODULE LinkedList -----------------------------
(***************************************************************************)
(* LinkedList.c and FreeList.c, pointer by pointer.  The list has a node   *)
(* before its first and one after its last item, HeadNode and TailNode.    *)
(* Nodes that are deleted are kept in a free list, which borrows the first *)
(* word of the node, its prev, up to a limit; the others are freed.        *)
(***************************************************************************)
EXTENDS Integers, Sequences, FiniteSets

LOCAL INSTANCE SequencesExt   \* BoundedSeq, ToSet, Reverse

CONSTANTS Nodes,      \* memory for nodes; malloc fails when all are in use
          Items,
          HeadNode, TailNode, NilNode,
          MaxFree     \* maxFreeListLength, FREELISTSIZE

ASSUME LinkedListAssumption ==
  /\ MaxFree \in Nat /\ MaxFree > 0 /\ IsFiniteSet(Nodes)
  /\ {HeadNode, TailNode, NilNode} \cap Nodes = {}
  /\ HeadNode # TailNode /\ HeadNode # NilNode /\ TailNode # NilNode

VARIABLES prev, nxt, item, \* the fields of the nodes
          size,            \* list->size
          freeHead,        \* freeNodeList.head
          freeLen,         \* freeNodeList.freeListLength
          owned            \* nodes that malloc gave and free has not got back
listVars == <<prev, nxt, item, size, freeHead, freeLen, owned>>

AllNodes == Nodes \cup {HeadNode, TailNode}
Links    == AllNodes \cup {NilNode}

\* ListInit, with FreeListInit.
ListInit ==
  /\ prev = [n \in AllNodes |-> IF n = TailNode THEN HeadNode ELSE NilNode]
  /\ nxt  = [n \in AllNodes |-> IF n = HeadNode THEN TailNode ELSE NilNode]
  /\ item = [n \in Nodes |-> NilNode]
  /\ size = 0 /\ freeHead = NilNode /\ freeLen = 0 /\ owned = {}

\* FreeListAlloc: the first of the free list, or a new one.
FreeListAlloc(n) ==
  IF freeHead # NilNode
  THEN n = freeHead /\ freeHead' = prev[n] /\ freeLen' = freeLen - 1 /\ UNCHANGED owned
  ELSE n \in Nodes \ owned /\ owned' = owned \cup {n} /\ UNCHANGED <<freeHead, freeLen>>

ListAddAfterMutant(i, b) ==
  \E n \in Nodes :
    /\ FreeListAlloc(n)
    /\ item' = [item EXCEPT ![n] = i]
    /\ nxt'  = [nxt EXCEPT ![b] = n, ![n] = nxt[b]]
    /\ prev' = [prev EXCEPT ![n] = b]
    /\ size' = size + 1

\* ListAddAfter, with CreateListNode; ListAddHead is the case b = HeadNode.
ListAddAfter(i, b) ==
  \E n \in Nodes :
    /\ FreeListAlloc(n)
    /\ item' = [item EXCEPT ![n] = i]
    /\ nxt'  = [nxt EXCEPT ![b] = n, ![n] = nxt[b]]
    /\ prev' = [prev EXCEPT ![n] = b, ![nxt[b]] = n]
    /\ size' = size + 1

ListAddBeforeMutant(i, a) ==
  \E n \in Nodes :
    /\ FreeListAlloc(n)
    /\ prev' = [prev EXCEPT ![a] = n, ![n] = prev[a]]
    /\ nxt'  = [nxt EXCEPT ![n] = a, ![prev[a]] = n]
    /\ size' = size + 1 /\ UNCHANGED item

\* ListAddBefore; ListAddTail is the case a = TailNode.
ListAddBefore(i, a) ==
  \E n \in Nodes :
    /\ FreeListAlloc(n)
    /\ item' = [item EXCEPT ![n] = i]
    /\ prev' = [prev EXCEPT ![a] = n, ![n] = prev[a]]
    /\ nxt'  = [nxt EXCEPT ![n] = a, ![prev[a]] = n]
    /\ size' = size + 1

\* FreeListFree keeps a node while there is room for one more after it.
FreeListKeeps == freeLen + 1 < MaxFree

\* ListDelNode, with freeListNode and FreeListFree.
ListDelNode(d) ==
  /\ nxt' = [nxt EXCEPT ![prev[d]] = nxt[d]]
  /\ IF FreeListKeeps
     THEN /\ prev' = [prev EXCEPT ![d] = freeHead, ![nxt[d]] = prev[d]]
          /\ freeHead' = d /\ freeLen' = freeLen + 1 /\ UNCHANGED owned
     ELSE /\ prev' = [prev EXCEPT ![nxt[d]] = prev[d]]
          /\ owned' = owned \ {d} /\ UNCHANGED <<freeHead, freeLen>>
  /\ size' = size - 1 /\ UNCHANGED item

\* ListDestroy deletes every node, each into the free list while it has room,
\* and FreeListDestroy frees those; ListInit follows before the next use.
ListDestroy ==
  /\ prev' = [prev EXCEPT ![TailNode] = HeadNode] /\ nxt' = [nxt EXCEPT ![HeadNode] = TailNode]
  /\ size' = 0 /\ freeHead' = NilNode /\ freeLen' = 0 /\ owned' = {}
  /\ UNCHANGED item

\* s leads from n along the links next to stop, through no node twice.
LeadsTo(s, next, n, stop) ==
  /\ \A i, k \in 1 .. Len(s) : s[i] = s[k] => i = k
  /\ n = IF s = <<>> THEN stop ELSE s[1]
  /\ \A k \in 1 .. Len(s) : next[s[k]] = IF k = Len(s) THEN stop ELSE s[k + 1]

\* The nodes from n on, along the links next, until stop; none if the links do
\* not lead there.
Chain(next, n, stop) ==
  LET routes == { s \in BoundedSeq(Nodes, Cardinality(Nodes)) : LeadsTo(s, next, n, stop) }
  IN  IF routes = {} THEN <<>> ELSE CHOOSE s \in routes : TRUE
Forward  == Chain(nxt, nxt[HeadNode], TailNode)
Backward == Chain(prev, prev[TailNode], HeadNode)
FreeNodes == Chain(prev, freeHead, NilNode)

\* ListHead, ListTail, ListNext, ListPrev.
ListHead    == IF size = 0 THEN NilNode ELSE nxt[HeadNode]
ListTail    == IF size = 0 THEN NilNode ELSE prev[TailNode]
ListNext(n) == IF nxt[n] = TailNode THEN NilNode ELSE nxt[n]
ListPrev(n) == IF prev[n] = HeadNode THEN NilNode ELSE prev[n]

\* ListFind: from the node after start, or from the first, until the item or the
\* end is there.  The nodes that its loop is at, one after another:
Past(n, i) == IF n = TailNode \/ item[n] = i THEN n ELSE nxt[n]
Walk(first, i) ==
  LET at[k \in 0 .. Cardinality(Nodes)] == IF k = 0 THEN first ELSE Past(at[k - 1], i)
  IN  at
ListFind(start, i) ==
  LET Found(n) == IF n = TailNode THEN NilNode ELSE n
  IN  Found(Walk(nxt[IF start = NilNode THEN HeadNode ELSE start], i)[Cardinality(Nodes)])

ListStep ==
  \/ \E i \in Items : \/ \E b \in {HeadNode} \cup ToSet(Forward) : ListAddAfter(i, b)
                      \/ \E a \in {TailNode} \cup ToSet(Forward) : ListAddBefore(i, a)
  \/ \E d \in ToSet(Forward) : ListDelNode(d)
  \/ ListDestroy

----------------------------------------------------------------------------
\* Both directions see the same items, as many as size says, and ListHead,
\* ListTail, ListNext and ListPrev walk them, however nodes were reused.
LinksAgree ==
  /\ Backward = Reverse(Forward)
  /\ size = Len(Forward)
  /\ ListHead = IF size = 0 THEN NilNode ELSE Forward[1]
  /\ ListTail = IF size = 0 THEN NilNode ELSE Forward[size]
  /\ \A k \in 1 .. size : /\ ListNext(Forward[k]) = IF k = size THEN NilNode ELSE Forward[k + 1]
                          /\ ListPrev(Forward[k]) = IF k = 1 THEN NilNode ELSE Forward[k - 1]

\* Every node the list owns is in it or in its free list and not in both, and
\* the free list has the length it says and stays below its maximum.
NodesAccounted ==
  /\ ToSet(Forward) \cup ToSet(FreeNodes) = owned
  /\ ToSet(Forward) \cap ToSet(FreeNodes) = {}
  /\ freeLen = Len(FreeNodes) /\ Cardinality(ToSet(FreeNodes)) = freeLen
  /\ freeLen < MaxFree \/ freeLen = 0

\* ListFind returns the first node after start that has the item, or nothing.
FindsFirst ==
  \A i \in Items : \A s \in 0 .. size :
    LET start == IF s = 0 THEN NilNode ELSE Forward[s]
        hits  == { k \in s + 1 .. size : item[Forward[k]] = i }
    IN  ListFind(start, i) = IF hits = {} THEN NilNode
                             ELSE Forward[CHOOSE k \in hits : \A m \in hits : k <= m]

\* The list implements a sequence of items (ListSpec).
Abstract == INSTANCE ListSpec WITH seq <- [k \in 1 .. Len(Forward) |-> item[Forward[k]]]
ImplementsList == Abstract!Spec
=============================================================================
