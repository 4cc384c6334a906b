-------------------------------- MODULE Scan --------------------------------
(***************************************************************************)
(* One search of a vector set (semantic/oxv/scan.rs): the slots to visit   *)
(* are cut into shares, each thread keeps the best of its own, the heaps   *)
(* are merged, and slots the caller named besides are weighed apart.  The  *)
(* token may be cancelled at any moment; it is read at checkpoints.        *)
(*                                                                         *)
(* A slot is its place in the work (Work::plan), which any slot of any     *)
(* segment may hold; those past the work's end are what the filter leaves  *)
(* out.  A slot's score is a small integer, and its role under the filter  *)
(* (effective_role) is data here: module Release says what it comes from.  *)
(***************************************************************************)
EXTENDS Integers, FiniteSets

CONSTANTS
    Last,           \* bound: the slots are 1..Last
    Ranks,          \* bound: the scores
    Roles, None,    \* what a key is in a line; None where the filter has it not
    Penalty,        \* [Roles -> Nat], taken off the score
    Holdings,       \* bound: the keys the slots may hold, each a function
    Deletions,      \* bound: the sets of slots that may be deleted
    Asides,         \* bound: the sets of <<slot, key>> named besides
    MaxK,           \* bound: the answers asked for
    Threads,        \* bound: the threads that may be asked for
    MinSlots,       \* MIN_SLOTS_PER_THREAD
    Interval        \* SCAN_CHECK_INTERVAL

Slots == 1..Last

ASSUME ScanAssumption ==
    /\ Last \in Nat \ {0}
    /\ Ranks \subseteq Int
    /\ None \notin Roles \cup {"answered", "cancelled"}
    /\ Penalty \in [Roles -> Nat]
    /\ Holdings \subseteq [Slots -> Nat]
    /\ Deletions \subseteq SUBSET Slots
    /\ Asides \subseteq SUBSET (Slots \X Nat)
    /\ MaxK \in Nat
    /\ Threads \subseteq Nat
    /\ MinSlots \in Nat \ {0}
    /\ Interval \in Nat \ {0}

VARIABLES
    key, raw, dead,     \* of a slot: its key, its score, whether it is deleted
    role,               \* of a slot: its role under the filter
    wide,               \* the role of a slot the filter has not, without it
    total,              \* the work is 1..total
    k, threads, also,   \* what is asked for
    phase,              \* "begin", "scan", "merge", "done"
    next,               \* of a thread: the slot it visits next
    heap,               \* of a thread: the slots it holds
    failed,             \* the threads that saw the token cancelled
    cancelled,
    found, added,       \* the scan's winners, and what is merged into them
    outcome             \* None, "answered", "cancelled"

set == <<key, raw, dead, role, wide>>
request == <<total, k, threads, also>>
vars == <<set, request, phase, next, heap, failed, cancelled, found, added, outcome>>

----------------------------------------------------------------------------
Rank(s) == raw[s] - Penalty[IF role[s] = None THEN wide ELSE role[s]]

\* Candidate::best_first.
Before(a, b) ==
    \/ Rank(a) > Rank(b)
    \/ Rank(a) = Rank(b) /\ key[a] < key[b]
    \/ Rank(a) = Rank(b) /\ key[a] = key[b] /\ a < b

\* H holds the first n of S, or all of it: a sorted list, truncated.
IsTop(H, S, n) ==
    /\ H \subseteq S
    /\ Cardinality(H) <= n
    /\ H = S \/ Cardinality(H) = n
    /\ \A h \in H, s \in S \ H : Before(h, s)

OncePerKey(S) == {s \in S : \A r \in S : key[r] = key[s] => r = s \/ Before(s, r)}

AtMost(m, n) == IF m < n THEN m ELSE n
AtLeast(m, n) == IF m > n THEN m ELSE n

\* What a scan returns at most.
Size == AtMost(k, AtLeast(total, 1))

\* The threads of it, and where the share of each ends.
Count == AtMost(AtLeast(threads, 1), AtLeast((total + MinSlots - 1) \div MinSlots, 1))
Pool == 0..(Count - 1)

Cut(i) == (total * i) \div Count

----------------------------------------------------------------------------
End(how) == phase' = "done" /\ outcome' = how

Cancel ==
    /\ phase # "done"
    /\ ~cancelled
    /\ cancelled' = TRUE
    /\ UNCHANGED <<set, request, phase, next, heap, failed, found, added, outcome>>

Begin ==
    /\ phase = "begin"
    /\ \/ cancelled /\ End("cancelled")
       \/ ~cancelled /\ k = 0 /\ End("answered")
       \/ ~cancelled /\ k > 0 /\ phase' = "scan" /\ UNCHANGED outcome
    /\ UNCHANGED <<set, request, next, heap, failed, cancelled, found, added>>

Working(t) == phase = "scan" /\ t \in Pool \ failed /\ next[t] <= Cut(t + 1)

AtCheckpoint(t) == (next[t] - Cut(t) - 1) % Interval = 0

IsWorst(w, H) == w \in H /\ \A g \in H \ {w} : Before(g, w)

Full(t) == Cardinality(heap[t]) = Size

Hold(t, H) == heap' = [heap EXCEPT ![t] = H]

\* Mutant: a score equal to the worst rank is taken for a worse one.
DisplacesAbove(s, w) == raw[s] > Rank(w) /\ Before(s, w)

\* No penalty is negative: a score below the worst rank is out as it stands,
\* before the slot's role is looked up.
Displaces(s, w) == raw[s] >= Rank(w) /\ Before(s, w)

\* TopK::offer.
Offer(t, s) ==
    \/ ~Full(t) /\ Hold(t, heap[t] \cup {s})
    \/ Full(t) /\ \E w \in heap[t] :
        /\ IsWorst(w, heap[t])
        /\ Hold(t, IF Displaces(s, w) THEN (heap[t] \ {w}) \cup {s} ELSE heap[t])

Visit(t) ==
    /\ Working(t)
    /\ ~(AtCheckpoint(t) /\ cancelled)
    /\ next' = [next EXCEPT ![t] = @ + 1]
    /\ IF next[t] \in dead \/ role[next[t]] = None THEN UNCHANGED heap
       ELSE Offer(t, next[t])
    /\ UNCHANGED <<set, request, phase, failed, cancelled, found, added, outcome>>

Stop(t) ==
    /\ Working(t)
    /\ AtCheckpoint(t) /\ cancelled
    /\ failed' = failed \cup {t}
    /\ UNCHANGED <<set, request, phase, next, heap, cancelled, found, added, outcome>>

Held == UNION {heap[t] : t \in Pool}

Join ==
    /\ phase = "scan"
    /\ \A t \in Pool : ~Working(t)
    /\ IF failed # {}
       THEN End("cancelled") /\ UNCHANGED found
       ELSE /\ phase' = "merge"
            /\ found' \in SUBSET Held
            /\ IsTop(found', OncePerKey(Held), Size)
            /\ UNCHANGED outcome
    /\ UNCHANGED <<set, request, next, heap, failed, cancelled, added>>

\* What was named besides, is live and holds the key it was named with.
Wanted == {s \in Slots \ dead : <<s, key[s]>> \in also}

Keyed(S) == {key[s] : s \in S}

\* Mutant: what the filter leaves out is not weighed.
WeighedUnderTheFilter ==
    OncePerKey({s \in Wanted : key[s] \notin Keyed(found) /\ role[s] # None})

Weighed == OncePerKey({s \in Wanted : key[s] \notin Keyed(found)})

MergeAlso ==
    /\ phase = "merge"
    /\ also = {} \/ ~cancelled
    /\ End("answered")
    /\ added' \in SUBSET Slots
    /\ IsTop(added', Weighed, k)
    /\ UNCHANGED <<set, request, next, heap, failed, cancelled, found>>

MergeStops ==
    /\ phase = "merge"
    /\ also # {} /\ cancelled
    /\ End("cancelled")
    /\ UNCHANGED <<set, request, next, heap, failed, cancelled, found, added>>

----------------------------------------------------------------------------
\* A set holds a key live once (module Release, LedgerKnowsTheDevice).
Init ==
    /\ key \in Holdings
    /\ raw \in [Slots -> Ranks]
    /\ dead \in Deletions
    /\ \A a, b \in Slots \ dead : key[a] = key[b] => a = b
    /\ role \in [Slots -> Roles \cup {None}]
    /\ wide \in Roles
    /\ total \in 0..Last
    /\ k \in 0..MaxK
    /\ threads \in Threads
    /\ also \in Asides
    /\ phase = "begin"
    /\ next = [t \in Pool |-> Cut(t) + 1]
    /\ heap = [t \in Pool |-> {}]
    /\ failed = {}
    /\ cancelled = FALSE
    /\ found = {}
    /\ added = {}
    /\ outcome = None

Next ==
    \/ Cancel
    \/ Begin
    \/ \E t \in Pool : Visit(t) \/ Stop(t)
    \/ Join
    \/ MergeAlso
    \/ MergeStops

Spec == Init /\ [][Next]_vars

----------------------------------------------------------------------------
\* Every thread stays in its share and holds no more than the answer takes.
TypeOK ==
    /\ phase \in {"begin", "scan", "merge", "done"}
    /\ next \in [Pool -> Nat]
    /\ heap \in [Pool -> SUBSET Slots]
    /\ \A t \in Pool :
        /\ next[t] \in (Cut(t) + 1)..(Cut(t + 1) + 1)
        /\ heap[t] \subseteq (Cut(t) + 1)..(next[t] - 1)
        /\ Cardinality(heap[t]) <= Size
    /\ failed \subseteq Pool
    /\ cancelled \in BOOLEAN
    /\ found \subseteq Slots /\ added \subseteq Slots
    /\ outcome \in {None, "answered", "cancelled"}

\* What the filter and the deletions leave of the work.
Admitted == {s \in (1..total) \ dead : role[s] # None}

\* An answer is the best k of every slot admitted, however many threads shared
\* the work, wherever it was cut, whatever a thread passed over on the score
\* alone, and whenever the token was cancelled: never what some shares held.
AnswerIsTheBest == outcome = "answered" => IsTop(found, Admitted, k)

\* scan_with: no key twice; and where no more is named than asked for, every
\* slot named is answered with, whatever the filter.
NamedIsAnswered ==
    outcome = "answered" =>
        /\ \A a, b \in found \cup added : key[a] = key[b] => a = b
        /\ (k > 0 /\ Cardinality(Wanted) <= k) =>
               Keyed(Wanted) \subseteq Keyed(found \cup added)
=============================================================================
