-------------------------------- MODULE TLS --------------------------------
(***************************************************************************)
(* Thread-local storage of MassiveThreads: the lock-free allocator of keys,*)
(* which all threads share, and the tree of values of each thread, which a *)
(* key descends digit by digit.  An exiting thread calls the destructors   *)
(* of the values in its tree and destroys the tree.                        *)
(*                                                                         *)
(* A node of a tree is named by the digits that lead to it; <<>> is the    *)
(* root, and the nodes with Depth digits are the leaves.                   *)
(***************************************************************************)
EXTENDS Integers, FiniteSets, Sequences, FiniteSetsExt

CONSTANTS
    Threads,
    Children,       \* myth_tls_tree_node_n_children
    Entries,        \* myth_tls_tree_node_n_entries_in_leaf
    Depth,          \* myth_tls_tree_depth
    Reserved,       \* the keys the program holds on to from the start
    Used,           \* the keys that threads set values for
    Data, NULL      \* the one value that threads set, and its absence

USED == -1          \* the next of a key that is not free: (void *)-1

NKeys == Entries * Children ^ Depth
Keys == 0 .. (NKeys - 1)
Digits == 0 .. (Children - 1)
Nodes == UNION {[1 .. i -> Digits] : i \in 0 .. Depth}
Leaves == [1 .. Depth -> Digits]

ASSUME TLSAssumption ==
    /\ Children \in Nat \ {0} /\ Entries \in Nat \ {0} /\ Depth \in Nat
    /\ Reserved \subseteq Keys /\ Reserved # Keys /\ Used \subseteq Keys
    /\ NULL \notin Keys \cup {USED}

VARIABLES
    free,       \* s->free: the first free key or NULL, or USED after a fault
    next,       \* s->keys[k].next: a key, NULL or USED
    destructor, \* whether s->keys[k].destructor is there
    pc,         \* where each thread is
    ke,         \* the key that it has read or deletes
    seen,       \* the next that it has read when it creates, or the free list
                \* that it has read when it deletes
    held,       \* the keys that are created and not deleted
    nodes,      \* the nodes of each thread's tree
    entry,      \* n->entries[j].value of each leaf of each thread
    ran,        \* the destructors that a thread ran when it exited, with the
                \* key each of them belongs to and the value it was given
    stored,     \* what each thread has set for each key
    \* History, for the properties; no action reads it but to write it.
    returned,   \* the threads at their CAS whose key was given back after
                \* they had read its next
    faults      \* what has gone wrong: "stale" when such a CAS succeeded,
                \* "doubled" when a key passed the check of a second delete

keyVars == <<free, next, destructor, held>>
allocVars == <<pc, ke, seen>>
treeVars == <<nodes, entry, ran, stored>>
history == <<returned, faults>>
vars == <<keyVars, allocVars, treeVars, history>>

Empty == [leaf \in Leaves |-> [j \in 0 .. (Entries - 1) |-> NULL]]
Nothing == [k \in Keys |-> NULL]

Init ==
    /\ free = Min(Keys \ Reserved)
    /\ next = [k \in Keys |->
                IF k \in Reserved THEN USED
                ELSE IF \E n \in Keys \ Reserved : n > k
                THEN Min({n \in Keys \ Reserved : n > k}) ELSE NULL]
    /\ destructor = [k \in Keys |-> FALSE]
    /\ pc = [th \in Threads |-> "user"]
    /\ ke = [th \in Threads |-> NULL]
    /\ seen = [th \in Threads |-> NULL]
    /\ held = Reserved
    /\ nodes = [th \in Threads |-> {}]
    /\ entry = [th \in Threads |-> Empty]
    /\ ran = [th \in Threads |-> {}]
    /\ stored = [th \in Threads |-> Nothing]
    /\ returned = {} /\ faults = {}

Goto(th, from, to) == pc[th] = from /\ pc' = [pc EXCEPT ![th] = to]
Deletes(th) == pc[th] \in {"delete", "push"}

-----------------------------------------------------------------------------
(* myth_tls_key_allocator_alloc                                            *)

CreateBegin(th) ==
    /\ Goto(th, "user", "create")
    /\ UNCHANGED <<keyVars, ke, seen, treeVars, history>>

CreateRead(th) ==
    /\ free # NULL
    /\ Goto(th, "create", "next")
    /\ ke' = [ke EXCEPT ![th] = free]
    /\ UNCHANGED <<keyVars, seen, treeVars, history>>

\* No key is left: EINVAL.
CreateNone(th) ==
    /\ free = NULL
    /\ Goto(th, "create", "user")
    /\ UNCHANGED <<keyVars, ke, seen, treeVars, history>>

CreateNext(th) ==
    /\ ke[th] \in Keys
    /\ Goto(th, "next", "cas")
    /\ seen' = [seen EXCEPT ![th] = next[ke[th]]]
    /\ UNCHANGED <<keyVars, ke, treeVars, history>>

\* ke->next where ke is (void *)-1: the process dies.
CreateFault(th) ==
    /\ ke[th] = USED
    /\ Goto(th, "next", "dead")
    /\ UNCHANGED <<keyVars, ke, seen, treeVars, history>>

Forget(th) ==
    /\ ke' = [ke EXCEPT ![th] = NULL]
    /\ seen' = [seen EXCEPT ![th] = NULL]

CreatePop(th) ==
    /\ free = ke[th]
    /\ Goto(th, "cas", "mark")
    /\ free' = seen[th]
    /\ seen' = [seen EXCEPT ![th] = NULL]
    /\ returned' = returned \ {th}
    /\ faults' = IF th \in returned THEN faults \cup {"stale"} ELSE faults
    /\ UNCHANGED <<next, destructor, held, ke, treeVars>>

CreateRetry(th) ==
    /\ free # ke[th]
    /\ Goto(th, "cas", "create")
    /\ Forget(th)
    /\ returned' = returned \ {th}
    /\ UNCHANGED <<keyVars, treeVars, faults>>

CreateMark(th) ==
    /\ Goto(th, "mark", "user")
    /\ next' = [next EXCEPT ![ke[th]] = USED]
    /\ \E d \in BOOLEAN : destructor' = [destructor EXCEPT ![ke[th]] = d]
    /\ held' = held \cup {ke[th]}
    /\ Forget(th)
    /\ UNCHANGED <<free, treeVars, history>>

-----------------------------------------------------------------------------
(* myth_tls_key_allocator_dealloc                                          *)

\* The caller names any key, one that is not in use or that another thread
\* is deleting, too.
DeleteBegin(th, k) ==
    /\ Goto(th, "user", "check")
    /\ ke' = [ke EXCEPT ![th] = k]
    /\ UNCHANGED <<keyVars, seen, treeVars, history>>

\* The key is not in use: EINVAL.
DeleteUnused(th) ==
    /\ Goto(th, "check", "user")
    /\ next[ke[th]] # USED
    /\ ke' = [ke EXCEPT ![th] = NULL]
    /\ UNCHANGED <<keyVars, seen, treeVars, history>>

\* It is in use; next goes on saying so until the key is pushed.
DeleteCheck(th) ==
    /\ Goto(th, "check", "delete")
    /\ next[ke[th]] = USED
    /\ held' = held \ {ke[th]}
    /\ faults' = IF ke[th] \in held THEN faults ELSE faults \cup {"doubled"}
    /\ UNCHANGED <<free, next, destructor, ke, seen, treeVars, returned>>

DeleteRead(th) ==
    /\ Goto(th, "delete", "push")
    /\ seen' = [seen EXCEPT ![th] = free]
    /\ next' = [next EXCEPT ![ke[th]] = free]
    /\ UNCHANGED <<free, destructor, held, ke, treeVars, history>>

\* Those who have read the next of this key now have a stale one.
GiveBack(th) ==
    returned' = returned \cup {o \in Threads : pc[o] = "cas" /\ ke[o] = ke[th]}

\* Mutant: a plain store instead of the CAS.
DeleteStore(th) ==
    /\ Goto(th, "push", "user")
    /\ free' = ke[th]
    /\ Forget(th)
    /\ GiveBack(th)
    /\ UNCHANGED <<next, destructor, held, treeVars, faults>>

DeletePush(th) ==
    /\ free = seen[th]
    /\ Goto(th, "push", "user")
    /\ free' = ke[th]
    /\ Forget(th)
    /\ GiveBack(th)
    /\ UNCHANGED <<next, destructor, held, treeVars, faults>>

DeleteRetry(th) ==
    /\ free # seen[th]
    /\ Goto(th, "push", "delete")
    /\ UNCHANGED <<keyVars, ke, seen, treeVars, history>>

-----------------------------------------------------------------------------
(* myth_tls_tree_get and myth_tls_tree_set                                 *)

\* The digits of a key: (idx >> shift) & (n_children - 1) at each level.
LeafOf(k) == [i \in 1 .. Depth |-> (k \div (Entries * Children ^ (Depth - i))) % Children]
EntryOf(k) == k % Entries

Path(leaf) == {SubSeq(leaf, 1, i) : i \in 0 .. Depth}

Get(th, k) ==
    IF Path(LeafOf(k)) \subseteq nodes[th] THEN entry[th][LeafOf(k)][EntryOf(k)] ELSE NULL

\* The nodes that are missing on the way to the leaf are allocated; a leaf
\* that is new is cleared.
Set(th, k, v) ==
    LET leaf == LeafOf(k)
        old == IF leaf \in nodes[th] THEN entry[th][leaf] ELSE Empty[leaf]
    IN  /\ pc[th] = "user" /\ k \in held
        /\ nodes' = [nodes EXCEPT ![th] = @ \cup Path(leaf)]
        /\ entry' = [entry EXCEPT ![th][leaf] = [old EXCEPT ![EntryOf(k)] = v]]
        /\ stored' = [stored EXCEPT ![th][k] = v]
        /\ UNCHANGED <<keyVars, allocVars, ran, history>>

-----------------------------------------------------------------------------
(* myth_tls_tree_fini                                                      *)

\* Both recursions stop at the first child that a node does not have.
Sibling(node, d) == [node EXCEPT ![Len(node)] = d]
Reached(th, node) ==
    /\ node \in nodes[th]
    /\ \A i \in 1 .. Len(node), d \in Digits :
        d < node[i] => Sibling(SubSeq(node, 1, i), d) \in nodes[th]

\* Mutant: bases that are wrong in the first leaf, too.
BaseOffByOne(leaf) ==
    LET Base[i \in 0 .. Depth] ==
            IF i = 0 THEN 1 ELSE Base[i - 1] + leaf[i] * (NKeys \div Children ^ (i - 1))
    IN  Base[Depth]

\* The first key of a leaf, as the recursion computes it: the keys of siblings
\* are taken to be as far apart as those of their parents.
BaseOf(leaf) ==
    LET Base[i \in 0 .. Depth] ==
            IF i = 0 THEN 0 ELSE Base[i - 1] + leaf[i] * (NKeys \div Children ^ (i - 1))
    IN  Base[Depth]

\* The destructors that are run: those of the keys that the bases lead to,
\* for every value, NULL or not.  A base may lead beyond the array of keys,
\* where anything may be found.
Ran(th) ==
    UNION {{<<BaseOf(leaf) + j, entry[th][leaf][j]>> : j \in 0 .. (Entries - 1)} :
            leaf \in {l \in Leaves : Reached(th, l)}}
Known(run) == run[1] \in Keys
Exit(th) ==
    /\ Goto(th, "user", "over")
    /\ \E wild \in SUBSET {run \in Ran(th) : ~Known(run)} :
        ran' = [ran EXCEPT ![th] =
                    {run \in Ran(th) : Known(run) /\ destructor[run[1]]} \cup wild]
    /\ nodes' = [nodes EXCEPT ![th] = {n \in @ : ~Reached(th, n)}]
    /\ entry' = [entry EXCEPT ![th] =
                    [l \in Leaves |-> IF Reached(th, l) THEN Empty[l] ELSE @[l]]]
    /\ stored' = [stored EXCEPT ![th] = Nothing]
    /\ UNCHANGED <<keyVars, ke, seen, history>>

\* Mutant: the tree of the last thread stays.
StartKeepsTree(th) ==
    /\ Goto(th, "over", "user")
    /\ ran' = [ran EXCEPT ![th] = {}]
    /\ UNCHANGED <<keyVars, ke, seen, nodes, entry, stored, history>>

\* myth_tls_tree_init, when the descriptor is used for a new thread.
Start(th) ==
    /\ Goto(th, "over", "user")
    /\ nodes' = [nodes EXCEPT ![th] = {}]
    /\ entry' = [entry EXCEPT ![th] = Empty]
    /\ ran' = [ran EXCEPT ![th] = {}]
    /\ UNCHANGED <<keyVars, ke, seen, stored, history>>

-----------------------------------------------------------------------------
AllocStep(th) ==
    \/ CreateRead(th) \/ CreateNone(th) \/ CreateNext(th) \/ CreateFault(th)
    \/ CreatePop(th) \/ CreateRetry(th) \/ CreateMark(th)
    \/ DeleteUnused(th) \/ DeleteCheck(th)
    \/ DeleteRead(th) \/ DeletePush(th) \/ DeleteRetry(th)

Next ==
    /\ \A th \in Threads : pc[th] # "dead"
    /\ \E th \in Threads :
        \/ CreateBegin(th) \/ AllocStep(th) \/ Exit(th) \/ Start(th)
        \/ \E k \in Keys \ Reserved : DeleteBegin(th, k)
        \/ \E k \in Used : Set(th, k, Data)

Spec == Init /\ [][Next]_vars

-----------------------------------------------------------------------------
TypeOK ==
    /\ free \in Keys \cup {NULL, USED}
    /\ next \in [Keys -> Keys \cup {NULL, USED}]
    /\ destructor \in [Keys -> BOOLEAN]
    /\ pc \in [Threads -> {"user", "create", "next", "cas", "mark",
                           "check", "delete", "push", "over", "dead"}]
    /\ ke \in [Threads -> Keys \cup {NULL, USED}]
    /\ seen \in [Threads -> Keys \cup {NULL, USED}]
    /\ held \subseteq Keys
    /\ \A th \in Threads : nodes[th] \subseteq Nodes
    /\ \A th \in Threads : \A run \in ran[th] : run[1] \in Nat
    /\ entry \in [Threads -> [Leaves -> [0 .. (Entries - 1) -> {NULL, Data}]]]
    /\ stored \in [Threads -> [Keys -> {NULL, Data}]]
    /\ returned \subseteq Threads
    /\ faults \subseteq {"stale", "doubled"}

\* The free list, from its head.
List[i \in Nat] ==
    LET before == List[i - 1] IN
    IF i = 0 THEN free ELSE IF before \in Keys THEN next[before] ELSE NULL
Listed == {List[i] : i \in 0 .. NKeys} \ {NULL}

(***************************************************************************)
(* Two races only can harm the allocator, and as long as neither was lost, *)
(* no key is handed out twice and none is lost: every key is held by the   *)
(* program, in the hands of one thread that creates or deletes it, or in   *)
(* the free list, which ends.  The races are the CAS of a create on a key  *)
(* that came back after its next was read, and a second delete that finds  *)
(* the key still marked as used.                                           *)
(***************************************************************************)
KeysAccountedFor ==
    LET Handled == {th \in Threads : pc[th] = "mark" \/ Deletes(th)} IN
    faults = {} =>
        /\ \A k \in Keys :
            LET hands == {th \in Handled : ke[th] = k} IN
            IF k \in held \cup Listed
            THEN hands = {} /\ ~(k \in held /\ k \in Listed)
            ELSE Cardinality(hands) = 1
        /\ List[NKeys] = NULL

(***************************************************************************)
(* myth_tls.h: unused keys are kept in a list, from which a free key is    *)
(* allocated.  So a key that a create takes is not in use, in a program    *)
(* that deletes no key twice at once.                                      *)
(***************************************************************************)
NewKeysAreUnused ==
    "doubled" \notin faults =>
        \A th \in Threads : pc[th] = "mark" => ke[th] \notin held

(***************************************************************************)
(* What a thread gets is what it has set for that key, whatever other      *)
(* keys and threads are used and whoever used the descriptor before.       *)
(***************************************************************************)
GetsWhatItSet ==
    \A th \in Threads : pc[th] # "over" =>
        \A k \in Keys : Get(th, k) = stored[th][k]

Due(th) == {<<k, stored[th][k]>> : k \in {k \in held : destructor[k] /\ stored[th][k] # NULL}}

(***************************************************************************)
(* The comments of myth_tls_call_destructors and myth_tls_tree_destroy: an *)
(* exiting thread calls all destructors, and its nodes are all destroyed.  *)
(***************************************************************************)
AllDestructorsRun ==
    [][\A th \in Threads : pc[th] = "user" /\ pc'[th] = "over" =>
        Due(th) \subseteq ran'[th] /\ nodes'[th] = {}]_vars

(***************************************************************************)
(* So it is for the threads that use no keys but those of the first leaf,  *)
(* and the destructors are given no other data.                            *)
(***************************************************************************)
FirstLeafDestructorsRun ==
    [][\A th \in Threads :
        /\ pc[th] = "user" /\ pc'[th] = "over"
        /\ nodes[th] \subseteq Path([i \in 1 .. Depth |-> 0])
        =>  /\ Due(th) \subseteq ran'[th] /\ nodes'[th] = {}
            /\ \A run \in ran'[th] : run[2] = stored[th][run[1]]]_vars
=============================================================================
