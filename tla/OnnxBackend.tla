----------------------------- MODULE OnnxBackend -----------------------------
(* The ONNX embedding backends of a process (semantic/onnx_backend.rs): the one *)
(* runtime library they share, how a backend is opened on it and its sessions   *)
(* probed, and the pool that lends the sessions to the callers that embed.      *)
EXTENDS Naturals, Sequences, FiniteSets, Functions

CONSTANTS
  Backends,    \* the models this process opens: a query's and a passage's
  Rechecked,   \* those whose package is read once more after it was loaded
  Callers,     \* the threads that embed
  Uses,        \* the backend each of them embeds with; a rechecked one is lent, under
               \* its mutex, to one caller at a time
  Size,        \* the sessions of a pool
  Tickets,     \* how many numbers a ticket can be: 2^64
  Libraries,   \* the runtime libraries there are
  Sent,        \* those the loads of each backend are sent to, one after another
  Usable,      \* those the backend's own checks accept
  Contents,    \* what the files of a package may hold
  Verified,    \* what its checksum was taken of
  Probes,      \* the vector each contents give for the probe
  MaxChanges,  \* bound: changes of each package's files during a load
  None

Sessions == 1..Size

ASSUME OnnxAssumption ==
  /\ Rechecked \subseteq Backends
  /\ Uses \in [Callers -> Backends]
  /\ \A c, d \in Callers : c # d /\ Uses[c] = Uses[d] => Uses[c] \notin Rechecked
  /\ IsFiniteSet(Callers)
  /\ Size \in Nat \ {0}
  /\ Tickets \in Nat
  /\ Cardinality(Callers) < Tickets /\ Size < Tickets
  /\ Sent \in [Backends -> SUBSET Libraries]
  /\ Usable \subseteq Libraries
  /\ Verified \in Contents
  /\ MaxChanges \in [Backends -> Nat]
  /\ None \notin Libraries \cup Backends \cup Sessions
  /\ None \notin [lib : Libraries, environment : BOOLEAN]

VARIABLES
  ort,       \* the library the binding holds, or None
  slot,      \* RUNTIME: the library recorded and whether its environment is built
  ensuring,  \* the backend whose load holds RUNTIME's mutex, or None
  load,      \* of each backend, how far its load is
  pool,      \* of each backend, its pool
  caller,    \* of each caller, where it is
  line       \* history: who waits for a session, in the order the tickets were taken

loading == <<ort, slot, ensuring, load>>
calling == <<caller, line>>
vars == <<ort, slot, ensuring, load, pool, caller, line>>

-----------------------------------------------------------------------------
(* The state. *)

Closed == [at |-> "closed", lib |-> None, files |-> Verified, changes |-> 0, made |-> <<>>]
Away   == [at |-> "away", ticket |-> 0, session |-> None]

Advance(t) == IF t + 1 = Tickets THEN 0 ELSE t + 1

Open(b) == load[b].at = "open"

\* A pool as the probe leaves it: each session was lent once, the last first, and
\* came back in that order.
Probed == [idle |-> [i \in Sessions |-> Size + 1 - i], next |-> Size, serving |-> Size]

Waiting(c) == caller[c].at \in {"asleep", "awake"}

TypeOK ==
  /\ ort \in Libraries \cup {None}
  /\ slot \in [lib : Libraries, environment : BOOLEAN] \cup {None}
  /\ ensuring \in Backends \cup {None}
  /\ load \in [Backends ->
       [at : {"closed", "asked", "library", "environment", "building", "adopted", "open"},
        lib : Libraries \cup {None}, files : Contents, changes : Nat,
        made : Seq(Contents)]]
  /\ pool \in [Backends -> [idle : Seq(Sessions), next : 0..Tickets - 1,
                            serving : 0..Tickets - 1]]
  /\ caller \in [Callers ->
       [at : {"away", "asleep", "awake", "leased", "runs", "returned"},
        ticket : 0..Tickets - 1, session : Sessions \cup {None}]]
  /\ line \in [Backends -> Seq(Callers)]

Init ==
  /\ ort = None
  /\ slot = None
  /\ ensuring = None
  /\ load = [b \in Backends |-> Closed]
  /\ pool = [b \in Backends |-> Probed]
  /\ caller = [c \in Callers |-> Away]
  /\ line = [b \in Backends |-> <<>>]

-----------------------------------------------------------------------------
(* The runtime library. *)

\* A load begins: the package's checksum is the verified one, the library is named.
Ask(b, lib) ==
  /\ load[b].at = "closed"
  /\ load' = [load EXCEPT ![b] = [Closed EXCEPT !.at = "asked", !.lib = lib]]
  /\ UNCHANGED <<ort, slot, ensuring, pool, calling>>

To(b, at) == load' = [load EXCEPT ![b].at = at]

\* A load that fails leaves nothing of the backend.
Refused(b) == load' = [load EXCEPT ![b] = Closed]

\* ensure_runtime takes the mutex and finds: a library ready, one without its
\* environment, another one, or none.
FindRuntime(b) ==
  /\ load[b].at = "asked"
  /\ ensuring = None
  /\ \/ slot = None /\ To(b, "library") /\ ensuring' = b
     \/ /\ slot # None /\ slot.lib = load[b].lib
        /\ \/ slot.environment /\ To(b, "building") /\ UNCHANGED ensuring
           \/ ~slot.environment /\ To(b, "environment") /\ ensuring' = b
     \/ slot # None /\ slot.lib # load[b].lib /\ Refused(b) /\ UNCHANGED ensuring
  /\ UNCHANGED <<ort, slot, pool, calling>>

\* The library does not pass the backend's checks, or the binding refuses it.
LibraryFails(b) ==
  /\ load[b].at = "library"
  /\ Refused(b)
  /\ ensuring' = None
  /\ UNCHANGED <<ort, slot, pool, calling>>

\* Mutant: what the binding holds is taken for what was asked for.
InitRuntimeUnseen(b) ==
  /\ load[b].at = "library"
  /\ load[b].lib \in Usable
  /\ ort' = IF ort = None THEN load[b].lib ELSE ort
  /\ slot' = [lib |-> load[b].lib, environment |-> FALSE]
  /\ To(b, "environment")
  /\ UNCHANGED <<ensuring, pool, calling>>

\* The binding keeps the library it holds, and the backend commits to the one it
\* asked for only if that is it.
InitRuntime(b) ==
  LET lib  == load[b].lib
      held == IF ort = None THEN lib ELSE ort IN
  /\ load[b].at = "library"
  /\ lib \in Usable
  /\ ort' = held
  /\ \/ /\ held = lib
        /\ slot' = [lib |-> lib, environment |-> FALSE]
        /\ To(b, "environment")
        /\ UNCHANGED ensuring
     \/ /\ held # lib
        /\ Refused(b)
        /\ ensuring' = None
        /\ UNCHANGED slot
  /\ UNCHANGED <<pool, calling>>

\* Another user of the binding in this process gives it a library.
InitOutside(lib) ==
  /\ ort = None
  /\ ort' = lib
  /\ UNCHANGED <<slot, ensuring, load, pool, calling>>

\* The environment is built, or the library stays recorded without one.
BuildEnvironment(b) ==
  /\ load[b].at = "environment"
  /\ ensuring' = None
  /\ \/ slot' = [slot EXCEPT !.environment = TRUE] /\ To(b, "building")
     \/ Refused(b) /\ UNCHANGED slot
  /\ UNCHANGED <<ort, pool, calling>>

-----------------------------------------------------------------------------
(* The sessions. *)

\* Something changes the package's files while the load is under way.
ChangeFiles(b, contents) ==
  /\ load[b].at \notin {"closed", "open"}
  /\ load[b].changes < MaxChanges[b]
  /\ contents # load[b].files
  /\ load' = [load EXCEPT ![b].files = contents, ![b].changes = @ + 1]
  /\ UNCHANGED <<ort, slot, ensuring, pool, calling>>

\* Each session reads the files of its own.
BuildSession(b) ==
  /\ load[b].at = "building"
  /\ Len(load[b].made) < Size
  /\ load' = [load EXCEPT ![b].made = Append(@, load[b].files)]
  /\ UNCHANGED <<ort, slot, ensuring, pool, calling>>

\* The sessions the probe runs on: it holds all of them at once.
ProbedSessions(b) == Range(load[b].made)

\* Every session gives the same vector for the probe, and the backend is adopted.
Probe(b) ==
  /\ load[b].at = "building"
  /\ Len(load[b].made) = Size
  /\ \A x, y \in ProbedSessions(b) : Probes[x] = Probes[y]
  /\ To(b, IF b \in Rechecked THEN "adopted" ELSE "open")
  /\ pool' = [pool EXCEPT ![b] = Probed]
  /\ UNCHANGED <<ort, slot, ensuring, calling>>

\* A session is not built, the probe fails or differs, or the backend does not agree
\* with the configuration.
LoadFails(b) ==
  /\ load[b].at = "building"
  /\ Refused(b)
  /\ UNCHANGED <<ort, slot, ensuring, pool, calling>>

\* Mutant: the package is taken for the one that was verified.
RecheckNothing(b) ==
  /\ load[b].at = "adopted"
  /\ To(b, "open")
  /\ UNCHANGED <<ort, slot, ensuring, pool, calling>>

\* The package is read again: it must be the one that was verified.
Recheck(b) ==
  /\ load[b].at = "adopted"
  /\ IF load[b].files = Verified THEN To(b, "open") ELSE Refused(b)
  /\ UNCHANGED <<ort, slot, ensuring, pool, calling>>

\* The backend is dropped, its sessions with it; the library and environment stay.
Drop(b) ==
  /\ Open(b)
  /\ \A c \in Callers : Uses[c] = b => caller[c].at = "away"
  /\ load' = [load EXCEPT ![b] = Closed]
  /\ UNCHANGED <<ort, slot, ensuring, pool, calling>>

-----------------------------------------------------------------------------
(* The pool. Each step that reads or writes it is one hold of its mutex. *)

\* c finds its turn and a session idle in q: it takes the one that came back last.
Takes(c, ticket, q) ==
  /\ pool' = [pool EXCEPT ![Uses[c]] =
       [q EXCEPT !.idle = SubSeq(@, 1, Len(@) - 1), !.serving = Advance(@)]]
  /\ caller' = [caller EXCEPT ![c] =
       [at |-> "leased", ticket |-> ticket, session |-> q.idle[Len(q.idle)]]]

\* Mutant: whoever looks first takes an idle session.
HasTurnUnordered(ticket, q) == q.idle # <<>>

HasTurn(ticket, q) == q.serving = ticket /\ q.idle # <<>>

\* check_out: a caller takes a ticket, and is served at once or waits.
CheckOut(c) ==
  LET b == Uses[c]
      t == pool[b].next
      q == [pool[b] EXCEPT !.next = Advance(@)] IN
  /\ Open(b)
  /\ caller[c].at = "away"
  /\ \/ /\ HasTurn(t, q)
        /\ Takes(c, t, q)
        /\ UNCHANGED line
     \/ /\ ~HasTurn(t, q)
        /\ pool' = [pool EXCEPT ![b] = q]
        /\ caller' = [caller EXCEPT ![c] = [at |-> "asleep", ticket |-> t, session |-> None]]
        /\ line' = [line EXCEPT ![b] = Append(@, c)]
  /\ UNCHANGED loading

\* A wait may end without a notification.
WakeUnasked(c) ==
  /\ caller[c].at = "asleep"
  /\ caller' = [caller EXCEPT ![c].at = "awake"]
  /\ UNCHANGED <<loading, pool, line>>

\* A line without one of those in it.
Without(l, c) ==
  LET i == CHOOSE j \in DOMAIN l : l[j] = c IN SubSeq(l, 1, i - 1) \o SubSeq(l, i + 1, Len(l))

\* A caller that woke looks again.
LookAgain(c) ==
  LET b == Uses[c] IN
  /\ caller[c].at = "awake"
  /\ \/ /\ HasTurn(caller[c].ticket, pool[b])
        /\ Takes(c, caller[c].ticket, pool[b])
        /\ line' = [line EXCEPT ![b] = Without(@, c)]
     \/ /\ ~HasTurn(caller[c].ticket, pool[b])
        /\ caller' = [caller EXCEPT ![c].at = "asleep"]
        /\ UNCHANGED <<pool, line>>
  /\ UNCHANGED loading

\* notify_all, after the mutex was let go: everyone asleep on c's pool wakes, and c
\* goes on.
NotifyAll(c, goesTo) ==
  /\ caller' = [d \in Callers |->
       IF d = c THEN goesTo
       ELSE IF Uses[d] = Uses[c] /\ caller[d].at = "asleep"
            THEN [caller[d] EXCEPT !.at = "awake"]
            ELSE caller[d]]
  /\ UNCHANGED <<loading, pool, line>>

\* Mutant: who takes a session tells nobody that the turn moved on.
LeasedSilently(c) ==
  /\ caller[c].at = "leased"
  /\ caller' = [caller EXCEPT ![c].at = "runs"]
  /\ UNCHANGED <<loading, pool, line>>

Leased(c) == caller[c].at = "leased" /\ NotifyAll(c, [caller[c] EXCEPT !.at = "runs"])

\* Mutant: a run that fails may lose its session.
CheckInUnlessItFails(c) ==
  /\ caller[c].at = "runs"
  /\ \/ pool' = [pool EXCEPT ![Uses[c]].idle = Append(@, caller[c].session)]
     \/ UNCHANGED pool
  /\ caller' = [caller EXCEPT ![c].at = "returned", ![c].session = None]
  /\ UNCHANGED <<loading, line>>

\* The run ends, with a vector, an error or a panic, and the lease is dropped.
CheckIn(c) ==
  /\ caller[c].at = "runs"
  /\ pool' = [pool EXCEPT ![Uses[c]].idle = Append(@, caller[c].session)]
  /\ caller' = [caller EXCEPT ![c].at = "returned", ![c].session = None]
  /\ UNCHANGED <<loading, line>>

\* The caller goes on to its next text, or leaves.
Returned(c) == caller[c].at = "returned" /\ NotifyAll(c, Away)

-----------------------------------------------------------------------------
LoadStep(b) ==
  \/ \E lib \in Sent[b] : Ask(b, lib)
  \/ FindRuntime(b) \/ LibraryFails(b) \/ InitRuntime(b) \/ BuildEnvironment(b)
  \/ \E contents \in Contents : ChangeFiles(b, contents)
  \/ BuildSession(b) \/ Probe(b) \/ LoadFails(b) \/ Recheck(b) \/ Drop(b)

OwnStep(c) == LookAgain(c) \/ Leased(c) \/ CheckIn(c) \/ Returned(c)

Next ==
  \/ \E b \in Backends : LoadStep(b)
  \/ \E lib \in Usable : InitOutside(lib)
  \/ \E c \in Callers : CheckOut(c) \/ WakeUnasked(c) \/ OwnStep(c)

Spec == Init /\ [][Next]_vars

\* A thread that can run does, and an inference ends. Nobody has to ask, wake
\* unasked, or load.
FairSpec == Spec /\ \A c \in Callers : WF_vars(OwnStep(c))

-----------------------------------------------------------------------------
(* Properties. *)

\* Whatever refusals, retries and outside users of the binding came before: the
\* library recorded is the one the binding holds, and a backend with sessions runs on
\* the library it was sent to, whose environment is built.
OneRuntime ==
  /\ slot # None => slot.lib = ort
  /\ \A b \in Backends : load[b].at \in {"building", "adopted", "open"} =>
       slot # None /\ slot.environment /\ slot.lib = load[b].lib

\* The sessions of an open backend compute alike, and those of one that is rechecked
\* were built of the verified files, unless these were changed and changed back under
\* the load.
ServesOneModel ==
  \A b \in Backends : Open(b) =>
    /\ \A x, y \in Range(load[b].made) : Probes[x] = Probes[y]
    /\ b \in Rechecked /\ load[b].changes < 2 => Range(load[b].made) = {Verified}

\* A caller asleep though it is its turn and a session is idle is about to be woken:
\* someone who changed the pool has yet to notify.
NobodySleepsOnATurn ==
  \A c \in Callers :
    caller[c].at = "asleep" /\ HasTurn(caller[c].ticket, pool[Uses[c]])
    => \E d \in Callers : Uses[d] = Uses[c] /\ caller[d].at \in {"leased", "returned"}

Queue == INSTANCE TurnQueue WITH
           Pools <- Backends, Asks <- Uses,
           lent <- [c \in Callers |-> caller[c].session]

\* The tickets and the condition variable are a first-come, first-served queue: no
\* session is lent twice, and nobody is served before one that asked earlier, not even
\* the caller that just gave the session back.
FirstComeFirstServed == Queue!Spec

\* Every caller that waits is served, while other callers embed batches without end.
Served == \A c \in Callers : Waiting(c) ~> caller[c].at = "runs"

=============================================================================
