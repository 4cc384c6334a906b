----------------------------- MODULE OnnxProofs -----------------------------
(***************************************************************************)
(* Theorems about OnnxBackend, for any backends, callers and libraries,    *)
(* any number of sessions, and any number of tickets larger than that of   *)
(* the callers and that of the sessions.                                   *)
(***************************************************************************)
EXTENDS OnnxBackend, SequenceTheorems, FiniteSetTheorems, TLAPS

-----------------------------------------------------------------------------
(* The invariants the theorems rest on. *)

\* A caller holds a session from its check-out to its check-in.
Holding == \A c \in Callers :
             caller[c].session # None <=> caller[c].at \in {"leased", "runs"}

\* A backend that is not open has nobody in its pool.
Quiet == \A c \in Callers : ~Open(Uses[c]) => caller[c].at = "away"

TypeInv == TypeOK /\ Holding /\ Quiet

-----------------------------------------------------------------------------
(* Types. *)

\* The next ticket is a ticket.
LEMMA AdvanceType == \A t \in 0..Tickets - 1 : Advance(t) \in 0..Tickets - 1
BY OnnxAssumption DEF Advance

\* A pool after the probe is one.
LEMMA ProbedType ==
  Probed \in [idle : Seq(Sessions), next : 0..Tickets - 1, serving : 0..Tickets - 1]
<1>1. [i \in Sessions |-> Size + 1 - i] \in Seq(Sessions)
  <2>1. \A i \in Sessions : Size + 1 - i \in Sessions
    BY OnnxAssumption DEF Sessions
  <2>2. [i \in 1..Size |-> Size + 1 - i] \in [1..Size -> Sessions]
    BY <2>1 DEF Sessions
  <2>3. Size \in Nat
    BY OnnxAssumption
  <2> QED BY <2>2, <2>3 DEF Sessions
<1>2. Size \in 0..Tickets - 1
  BY OnnxAssumption
<1> QED BY <1>1, <1>2 DEF Probed

\* A step of a load leaves the callers alone, and the pools too but for the one of a
\* backend that is not open yet.
LEMMA LoadLeavesCallers ==
  ASSUME NEW b \in Backends, LoadStep(b), TypeOK
  PROVE  /\ UNCHANGED calling
         /\ \A d \in Backends : d # b => load'[d] = load[d]
         /\ pool' = pool \/ (~Open(b) /\ pool' = [pool EXCEPT ![b] = Probed])
         /\ Open(b) => \A c \in Callers : Uses[c] = b => caller[c].at = "away"
<1> USE DEF TypeOK, Open
<1>1. CASE \E lib \in Sent[b] : Ask(b, lib)
  BY <1>1 DEF Ask, Closed
<1>2. CASE FindRuntime(b)
  BY <1>2 DEF FindRuntime, To, Refused, Closed
<1>3. CASE LibraryFails(b)
  BY <1>3 DEF LibraryFails, Refused
<1>4. CASE InitRuntime(b)
  BY <1>4 DEF InitRuntime, Refused, To
<1>5. CASE BuildEnvironment(b)
  BY <1>5 DEF BuildEnvironment, Refused, To
<1>6. CASE \E contents \in Contents : ChangeFiles(b, contents)
  BY <1>6 DEF ChangeFiles
<1>7. CASE BuildSession(b)
  BY <1>7 DEF BuildSession
<1>8. CASE Probe(b)
  BY <1>8 DEF Probe, To
<1>9. CASE LoadFails(b)
  BY <1>9 DEF LoadFails, Refused
<1>10. CASE Recheck(b)
  BY <1>10 DEF Recheck, Refused, To
<1>11. CASE Drop(b)
  BY <1>11 DEF Drop
<1> QED BY <1>1, <1>2, <1>3, <1>4, <1>5, <1>6, <1>7, <1>8, <1>9, <1>10, <1>11 DEF LoadStep

\* A step of a load keeps the types of what loads keep.
LEMMA LoadTypes ==
  ASSUME NEW b \in Backends, LoadStep(b), TypeOK,
         load[b].at = "environment" => slot # None
  PROVE  /\ ort' \in Libraries \cup {None}
         /\ slot' \in [lib : Libraries, environment : BOOLEAN] \cup {None}
         /\ ensuring' \in Backends \cup {None}
         /\ load' \in [Backends ->
              [at : {"closed", "asked", "library", "environment", "building", "adopted", "open"},
               lib : Libraries \cup {None}, files : Contents, changes : Nat,
               made : Seq(Contents)]]
<1> DEFINE Loads == [at : {"closed", "asked", "library", "environment", "building", "adopted",
                           "open"},
                     lib : Libraries \cup {None}, files : Contents, changes : Nat,
                     made : Seq(Contents)]
<1>0. /\ Closed \in Loads
      /\ load \in [Backends -> Loads] /\ load[b] \in Loads
  BY OnnxAssumption DEF TypeOK, Closed
<1>a. \A at \in {"closed", "asked", "library", "environment", "building", "adopted", "open"} :
        \A v \in Loads : [v EXCEPT !.at = at] \in Loads
  OBVIOUS
<1>b. \A v \in Loads, lib \in Libraries, at \in {"asked"} :
        [v EXCEPT !.at = at, !.lib = lib] \in Loads
  OBVIOUS
<1>c. \A v \in Loads, f \in Contents : [v EXCEPT !.files = f, !.changes = @ + 1] \in Loads
  <2> TAKE v \in Loads, f \in Contents
  <2>1. v.changes + 1 \in Nat
    OBVIOUS
  <2>2. [v EXCEPT !.files = f] \in Loads
    OBVIOUS
  <2>3. \A n \in Nat : [v EXCEPT !.files = f, !.changes = n] \in Loads
    BY <2>2
  <2> QED BY <2>1, <2>3
<1>d. \A v \in Loads : /\ v.files \in Contents
                       /\ \A f \in Contents : [v EXCEPT !.made = Append(@, f)] \in Loads
  <2> TAKE v \in Loads
  <2>1. v.files \in Contents /\ v.made \in Seq(Contents)
    OBVIOUS
  <2>2. \A f \in Contents : Append(v.made, f) \in Seq(Contents)
    BY <2>1, AppendProperties
  <2> QED BY <2>1, <2>2
<1> HIDE DEF Loads
<1>r. Refused(b) => load' \in [Backends -> Loads]
  BY <1>0 DEF Refused
<1>t. \A at \in {"library", "environment", "building", "adopted", "open"} :
        To(b, at) => load' \in [Backends -> Loads]
  BY <1>0, <1>a DEF To
<1>1. CASE \E lib \in Sent[b] : Ask(b, lib)
  <2>1. PICK lib \in Sent[b] : Ask(b, lib)
    BY <1>1
  <2>2. lib \in Libraries
    BY OnnxAssumption
  <2>3. [Closed EXCEPT !.at = "asked", !.lib = lib] \in Loads
    BY <2>2, <1>0, <1>b
  <2> QED BY <2>1, <2>3, <1>0 DEF Ask, TypeOK, Loads
<1>2. CASE FindRuntime(b)
  BY <1>2, <1>r, <1>t DEF FindRuntime, TypeOK, Loads
<1>3. CASE LibraryFails(b)
  BY <1>3, <1>r DEF LibraryFails, TypeOK, Loads
<1>4. CASE InitRuntime(b)
  <2>1. load[b].lib \in Libraries /\ load' \in [Backends -> Loads]
    BY <1>4, <1>r, <1>t, OnnxAssumption DEF InitRuntime
  <2>2. [lib |-> load[b].lib, environment |-> FALSE] \in [lib : Libraries, environment : BOOLEAN]
    BY <2>1
  <2> QED BY <1>4, <2>1, <2>2 DEF InitRuntime, TypeOK, Loads
<1>5. CASE BuildEnvironment(b)
  <2>1. load[b].at = "environment" /\ (Refused(b) \/ To(b, "building"))
    BY <1>5 DEF BuildEnvironment
  <2>2. load' \in [Backends -> Loads]
    BY <2>1, <1>r, <1>t
  <2>3. slot # None => [slot EXCEPT !.environment = TRUE]
                         \in [lib : Libraries, environment : BOOLEAN]
    BY DEF TypeOK
  <2> QED BY <1>5, <2>2, <2>3 DEF BuildEnvironment, TypeOK, Loads
<1>6. CASE \E contents \in Contents : ChangeFiles(b, contents)
  <2>1. PICK contents \in Contents : ChangeFiles(b, contents)
    BY <1>6
  <2>2. [load[b] EXCEPT !.files = contents, !.changes = @ + 1] \in Loads
    BY <1>0, <1>c
  <2>3. load' \in [Backends -> Loads]
    BY <2>1, <2>2, <1>0 DEF ChangeFiles
  <2> QED BY <2>1, <2>3 DEF ChangeFiles, TypeOK, Loads
<1>7. CASE BuildSession(b)
  <2>1. [load[b] EXCEPT !.made = Append(@, load[b].files)] \in Loads
    BY <1>0, <1>d
  <2>2. load' \in [Backends -> Loads]
    BY <1>7, <2>1, <1>0 DEF BuildSession
  <2> QED BY <1>7, <2>2 DEF BuildSession, TypeOK, Loads
<1>8. CASE Probe(b)
  BY <1>8, <1>t DEF Probe, TypeOK, Loads
<1>9. CASE LoadFails(b)
  BY <1>9, <1>r DEF LoadFails, TypeOK, Loads
<1>10. CASE Recheck(b)
  BY <1>10, <1>r, <1>t DEF Recheck, TypeOK, Loads
<1>11. CASE Drop(b)
  BY <1>11, <1>0 DEF Drop, TypeOK, Loads
<1> QED BY <1>1, <1>2, <1>3, <1>4, <1>5, <1>6, <1>7, <1>8, <1>9, <1>10, <1>11 DEF LoadStep

-----------------------------------------------------------------------------
(* The runtime library. *)

\* Only the load that holds the mutex is between looking for a library and building
\* its environment; once one is recorded it is the binding's, and stays.
RuntimeOf(b) ==
  /\ load[b].at # "closed" => load[b].lib \in Libraries
  /\ load[b].at \in {"library", "environment"} => ensuring = b
  /\ load[b].at = "library" => slot = None
  /\ load[b].at \in {"environment", "building", "adopted", "open"} =>
       slot # None /\ slot.lib = load[b].lib
  /\ load[b].at \in {"building", "adopted", "open"} => slot.environment

RuntimeInv == /\ slot # None => slot.lib = ort
              /\ \A b \in Backends : RuntimeOf(b)

\* No step of a load breaks RuntimeInv.
LEMMA RuntimeLoadStep ==
  ASSUME NEW b \in Backends, LoadStep(b), TypeOK, RuntimeInv
  PROVE  RuntimeInv'
<1> USE DEF RuntimeInv, RuntimeOf
<1>0. /\ \A d \in Backends : d # b => load'[d] = load[d]
      /\ load[b].at = "environment" => slot # None
  BY LoadLeavesCallers
<1>t. /\ load \in [Backends -> [at : {"closed", "asked", "library", "environment", "building",
                                     "adopted", "open"},
               lib : Libraries \cup {None}, files : Contents, changes : Nat,
               made : Seq(Contents)]]
      /\ slot # None => slot \in [lib : Libraries, environment : BOOLEAN]
      /\ None \notin Libraries /\ None \notin Backends
      /\ b # None
  BY OnnxAssumption DEF TypeOK
<1>c. Refused(b) => load'[b].at = "closed"
  BY <1>t DEF Refused, Closed
<1>d. ASSUME NEW at, To(b, at)
      PROVE  load'[b].at = at /\ load'[b].lib = load[b].lib
  BY <1>t, <1>d DEF To
<1>1. CASE \E lib \in Sent[b] : Ask(b, lib)
  <2>1. PICK lib \in Sent[b] : Ask(b, lib)
    BY <1>1
  <2>2. lib \in Libraries
    BY OnnxAssumption
  <2>3. load'[b].at = "asked" /\ load'[b].lib = lib
    BY <2>1, <1>t DEF Ask, Closed
  <2> QED BY <2>1, <2>2, <2>3, <1>0 DEF Ask
<1>2. CASE FindRuntime(b)
  <2>1. CASE slot = None /\ To(b, "library") /\ ensuring' = b
    BY <1>2, <2>1, <1>d, <1>0, <1>t DEF FindRuntime
  <2>2. CASE slot # None /\ slot.lib = load[b].lib /\ slot.environment /\ To(b, "building")
             /\ UNCHANGED ensuring
    BY <1>2, <2>2, <1>d, <1>0, <1>t DEF FindRuntime
  <2>3. CASE slot # None /\ slot.lib = load[b].lib /\ To(b, "environment") /\ ensuring' = b
    BY <1>2, <2>3, <1>d, <1>0, <1>t DEF FindRuntime
  <2>4. CASE Refused(b) /\ UNCHANGED ensuring
    BY <1>2, <2>4, <1>c, <1>0, <1>t DEF FindRuntime
  <2> QED BY <1>2, <2>1, <2>2, <2>3, <2>4 DEF FindRuntime
<1>3. CASE LibraryFails(b)
  BY <1>3, <1>c, <1>0, <1>t DEF LibraryFails
<1>4. CASE InitRuntime(b)
  <2> DEFINE lib  == load[b].lib
             held == IF ort = None THEN lib ELSE ort
  <2>1. /\ load[b].at = "library" /\ ort' = held /\ slot = None
        /\ ensuring = b
    BY <1>4 DEF InitRuntime
  <2>2. CASE held = lib /\ slot' = [lib |-> lib, environment |-> FALSE] /\ To(b, "environment")
             /\ UNCHANGED ensuring
    <3>1. slot' # None => slot'.lib = ort'
      BY <2>1, <2>2
    <3>2. slot' # None
      <4>1. slot' \in [lib : Libraries, environment : BOOLEAN]
        BY <2>1, <2>2, <1>t
      <4> QED BY <4>1, OnnxAssumption
    <3>3. ASSUME NEW d \in Backends PROVE RuntimeOf(d)'
      <4>1. CASE d = b
        BY <4>1, <2>1, <2>2, <3>2, <1>d, <1>t
      <4>2. CASE d # b
        BY <4>2, <2>1, <2>2, <1>0, <1>t
      <4> QED BY <4>1, <4>2
    <3> QED BY <3>1, <3>3
  <2>3. CASE Refused(b) /\ ensuring' = None /\ UNCHANGED slot
    BY <2>1, <2>3, <1>c, <1>0, <1>t
  <2> QED BY <1>4, <2>2, <2>3 DEF InitRuntime
<1>5. CASE BuildEnvironment(b)
  <2>1. load[b].at = "environment" /\ slot # None /\ slot.lib = load[b].lib /\ ensuring = b
    BY <1>5 DEF BuildEnvironment
  <2>2. CASE slot' = [slot EXCEPT !.environment = TRUE] /\ To(b, "building")
    <3>1. slot'.lib = slot.lib /\ slot'.environment /\ slot' # None
      <4>1. slot' \in [lib : Libraries, environment : BOOLEAN]
        BY <2>1, <2>2, <1>t
      <4> QED BY <4>1, <2>1, <2>2, <1>t, OnnxAssumption
    <3> QED BY <1>5, <2>1, <2>2, <3>1, <1>d, <1>0, <1>t DEF BuildEnvironment
  <2>3. CASE Refused(b) /\ UNCHANGED slot
    BY <1>5, <2>1, <2>3, <1>c, <1>0, <1>t DEF BuildEnvironment
  <2> QED BY <1>5, <2>2, <2>3 DEF BuildEnvironment
<1>6. CASE \E contents \in Contents : ChangeFiles(b, contents)
  BY <1>6, <1>0, <1>t DEF ChangeFiles
<1>7. CASE BuildSession(b)
  BY <1>7, <1>0, <1>t DEF BuildSession
<1>8. CASE Probe(b)
  BY <1>8, <1>0, <1>t, <1>d DEF Probe
<1>9. CASE LoadFails(b)
  BY <1>9, <1>0, <1>t, <1>c DEF LoadFails
<1>10. CASE Recheck(b)
  BY <1>10, <1>0, <1>t, <1>c, <1>d DEF Recheck
<1>11. CASE Drop(b)
  BY <1>11, <1>0, <1>t DEF Drop, Closed
<1> QED BY <1>1, <1>2, <1>3, <1>4, <1>5, <1>6, <1>7, <1>8, <1>9, <1>10, <1>11 DEF LoadStep

\* The rest of a step does not touch what RuntimeInv speaks of, or gives the binding a
\* library when it has none.
LEMMA RuntimeOtherStep ==
  ASSUME TypeOK, RuntimeInv,
         UNCHANGED loading \/ \E lib \in Usable : InitOutside(lib)
  PROVE  RuntimeInv'
<1>1. CASE UNCHANGED loading
  BY <1>1 DEF RuntimeInv, RuntimeOf, loading
<1>2. CASE \E lib \in Usable : InitOutside(lib)
  <2>1. slot = None
    BY <1>2, OnnxAssumption DEF InitOutside, RuntimeInv, TypeOK
  <2> QED BY <1>2, <2>1 DEF InitOutside, RuntimeInv, RuntimeOf
<1> QED BY <1>1, <1>2

-----------------------------------------------------------------------------
(* The files. *)

AllVerified(b) == \A i \in DOMAIN load[b].made : load[b].made[i] = Verified

\* While the files were not changed they are the verified ones, and every session was
\* built of them; after one change they are others.
FilesOf(b) ==
  /\ load[b].changes = 0 => load[b].files = Verified /\ AllVerified(b)
  /\ load[b].changes = 1 => load[b].files # Verified
  /\ load[b].at \in {"adopted", "open"} =>
       /\ Len(load[b].made) = Size
       /\ \A x, y \in Range(load[b].made) : Probes[x] = Probes[y]
  /\ b \in Rechecked /\ load[b].at = "open" => load[b].files = Verified

FilesInv == \A b \in Backends : FilesOf(b)

\* No step of a load breaks FilesInv.
LEMMA FilesLoadStep ==
  ASSUME NEW b \in Backends, LoadStep(b), TypeOK, FilesInv
  PROVE  FilesInv'
<1>0. \A d \in Backends : d # b => load'[d] = load[d]
  BY LoadLeavesCallers
<1>t. /\ load \in [Backends -> [at : {"closed", "asked", "library", "environment", "building",
                                     "adopted", "open"},
               lib : Libraries \cup {None}, files : Contents, changes : Nat,
               made : Seq(Contents)]]
      /\ load[b].files \in Contents /\ load[b].made \in Seq(Contents) /\ load[b].changes \in Nat
  BY DEF TypeOK
<1> SUFFICES FilesOf(b)'
  BY <1>0 DEF FilesInv, FilesOf, AllVerified
<1>f. FilesOf(b)
  BY DEF FilesInv
<1>c. Refused(b) => FilesOf(b)'
  BY <1>t DEF Refused, Closed, FilesOf, AllVerified
<1>d. ASSUME NEW at, To(b, at)
      PROVE  load'[b] = [load[b] EXCEPT !.at = at]
  BY <1>t, <1>d DEF To
<1>e. ASSUME NEW at \in {"library", "environment", "building", "adopted"}, To(b, at),
             at # "adopted" \/ (/\ Len(load[b].made) = Size
                                /\ \A x, y \in Range(load[b].made) : Probes[x] = Probes[y])
      PROVE  FilesOf(b)'
  <2>1. load'[b] = [load[b] EXCEPT !.at = at]
    BY <1>d, <1>e
  <2>2. /\ load'[b].at = at /\ load'[b].files = load[b].files
        /\ load'[b].changes = load[b].changes /\ load'[b].made = load[b].made
    BY <2>1, <1>t
  <2>3. AllVerified(b)' <=> AllVerified(b)
    BY <2>2 DEF AllVerified
  <2>4. at # "open"
    BY <1>e
  <2> QED BY <2>2, <2>3, <2>4, <1>e, <1>f DEF FilesOf
<1>1. CASE \E lib \in Sent[b] : Ask(b, lib)
  <2>1. /\ load'[b].at = "asked" /\ load'[b].made = <<>>
        /\ load'[b].files = Verified /\ load'[b].changes = 0
    BY <1>1, <1>t DEF Ask, Closed
  <2> QED BY <2>1 DEF FilesOf, AllVerified
<1>2. CASE FindRuntime(b)
  BY <1>2, <1>c, <1>e DEF FindRuntime
<1>3. CASE LibraryFails(b)
  BY <1>3, <1>c DEF LibraryFails
<1>4. CASE InitRuntime(b)
  BY <1>4, <1>c, <1>e DEF InitRuntime
<1>5. CASE BuildEnvironment(b)
  BY <1>5, <1>c, <1>e DEF BuildEnvironment
<1>6. CASE \E contents \in Contents : ChangeFiles(b, contents)
  <2>1. PICK contents \in Contents : ChangeFiles(b, contents)
    BY <1>6
  <2>2. /\ load[b].at \notin {"closed", "open"} /\ contents # load[b].files
        /\ load'[b].at = load[b].at /\ load'[b].made = load[b].made
        /\ load'[b].files = contents /\ load'[b].changes = load[b].changes + 1
    BY <2>1, <1>t DEF ChangeFiles
  <2> QED BY <2>2, <1>f, <1>t DEF FilesOf, AllVerified
<1>7. CASE BuildSession(b)
  <2> DEFINE made == load[b].made
  <2>1. /\ load[b].at = "building" /\ load'[b].at = "building"
        /\ load'[b].files = load[b].files /\ load'[b].changes = load[b].changes
        /\ load'[b].made = Append(made, load[b].files)
    BY <1>7, <1>t DEF BuildSession
  <2>2. /\ DOMAIN Append(made, load[b].files) = 1..Len(made) + 1
        /\ \A i \in 1..Len(made) : Append(made, load[b].files)[i] = made[i]
        /\ Append(made, load[b].files)[Len(made) + 1] = load[b].files
        /\ DOMAIN made = 1..Len(made) /\ Len(made) \in Nat
    BY <1>t, AppendProperties, LenProperties
  <2>3. load'[b].changes = 0 => load'[b].files = Verified /\ AllVerified(b)'
    BY <2>1, <2>2, <1>f DEF FilesOf, AllVerified
  <2> QED BY <2>1, <2>3, <1>f DEF FilesOf
<1>8. CASE Probe(b)
  <2>1. /\ Len(load[b].made) = Size
        /\ \A x, y \in Range(load[b].made) : Probes[x] = Probes[y]
    BY <1>8 DEF Probe, ProbedSessions
  <2>2. CASE b \in Rechecked
    BY <1>8, <2>1, <2>2, <1>e DEF Probe
  <2>3. CASE b \notin Rechecked
    BY <1>8, <2>1, <2>3, <1>d, <1>t, <1>f DEF Probe, FilesOf, AllVerified
  <2> QED BY <2>2, <2>3
<1>9. CASE LoadFails(b)
  BY <1>9, <1>c DEF LoadFails
<1>10. CASE Recheck(b)
  <2>1. CASE load[b].files = Verified
    BY <1>10, <2>1, <1>d, <1>t, <1>f DEF Recheck, FilesOf, AllVerified
  <2>2. CASE load[b].files # Verified
    BY <1>10, <2>2, <1>c DEF Recheck
  <2> QED BY <2>1, <2>2
<1>11. CASE Drop(b)
  BY <1>11, <1>c DEF Drop, Refused
<1> QED BY <1>1, <1>2, <1>3, <1>4, <1>5, <1>6, <1>7, <1>8, <1>9, <1>10, <1>11 DEF LoadStep

\* The rest of a step does not touch what FilesInv speaks of.
LEMMA FilesOtherStep ==
  ASSUME FilesInv, UNCHANGED load
  PROVE  FilesInv'
BY DEF FilesInv, FilesOf, AllVerified

-----------------------------------------------------------------------------
(* The line. *)

\* The number k tickets after t.
Follows(t, k) == IF t + k < Tickets THEN t + k ELSE t + k - Tickets

\* Who waits for a session of b waits in b's line, each with the ticket of its place,
\* the first with the one that is served next.
LineOf(b) ==
  /\ \A i, j \in DOMAIN line[b] : line[b][i] = line[b][j] => i = j
  /\ \A i \in DOMAIN line[b] :
       /\ Uses[line[b][i]] = b
       /\ Waiting(line[b][i])
       /\ caller[line[b][i]].ticket = Follows(pool[b].serving, i - 1)
  /\ pool[b].next = Follows(pool[b].serving, Len(line[b]))
  /\ \A c \in Callers : Uses[c] = b /\ Waiting(c) => \E i \in DOMAIN line[b] : line[b][i] = c

LineInv == \A b \in Backends : LineOf(b)

\* The next ticket follows.
LEMMA FollowsAdvance ==
  ASSUME NEW t \in 0..Tickets - 1, NEW k \in Nat, k < Tickets
  PROVE  /\ Advance(Follows(t, k)) = Follows(t, k + 1)
         /\ Follows(Advance(t), k) = Follows(t, k + 1)
         /\ Follows(t, k) = t => k = 0
         /\ Follows(t, 0) = t
BY OnnxAssumption DEF Advance, Follows

\* A line in which nobody is twice is shorter than the tickets are many.
LEMMA LineIsShort ==
  ASSUME NEW l \in Seq(Callers), \A i, j \in DOMAIN l : l[i] = l[j] => i = j
  PROVE  Len(l) < Tickets
<1>1. IsFiniteSet(Callers) /\ Cardinality(Callers) \in Nat /\ Cardinality(Callers) < Tickets
  BY OnnxAssumption, FS_CardinalityType
<1>2. Len(l) \in Nat /\ DOMAIN l = 1..Len(l) /\ l \in [1..Len(l) -> Callers]
  BY LenProperties
<1>3. IsFiniteSet(1..Len(l)) /\ Cardinality(1..Len(l)) = Len(l)
  BY <1>2, FS_Interval
<1>4. l \in Injection(1..Len(l), Callers)
  BY <1>2 DEF Injection, IsInjective
<1>5. Cardinality(1..Len(l)) <= Cardinality(Callers)
  BY <1>1, <1>3, <1>4, FS_Injection DEF ExistsInjection
<1> QED BY <1>1, <1>2, <1>3, <1>5, OnnxAssumption

\* A line without its first is its tail.
LEMMA WithoutFirst ==
  ASSUME NEW S, NEW l \in Seq(S), l # <<>>, NEW c, l[1] = c,
         \A i, j \in DOMAIN l : l[i] = l[j] => i = j
  PROVE  /\ Without(l, c) = Tail(l)
         /\ Tail(l) \in Seq(S) /\ Len(Tail(l)) = Len(l) - 1
         /\ \A i \in 1..Len(l) - 1 : Tail(l)[i] = l[i + 1]
         /\ Head(l) = c
<1>1. /\ Head(l) = c
      /\ Tail(l) \in Seq(S) /\ Len(Tail(l)) = Len(l) - 1
      /\ \A i \in 1..Len(l) - 1 : Tail(l)[i] = l[i + 1]
      /\ Len(l) \in Nat /\ Len(l) # 0 /\ 1 \in DOMAIN l
  BY HeadTailProperties, LenProperties, EmptySeq
<1>2. (CHOOSE j \in DOMAIN l : l[j] = c) = 1
  BY <1>1
<1>3. SubSeq(l, 1, 0) = <<>> /\ SubSeq(l, 2, Len(l)) = Tail(l)
  BY <1>1
<1>4. Without(l, c) = SubSeq(l, 1, 1 - 1) \o SubSeq(l, 1 + 1, Len(l))
  BY <1>2 DEF Without
<1> QED BY <1>1, <1>3, <1>4, ConcatEmptySeq

-----------------------------------------------------------------------------
(* The steps of a caller. *)

PoolStates == [idle : Seq(Sessions), next : 0..Tickets - 1, serving : 0..Tickets - 1]

CallerStates == [at : {"away", "asleep", "awake", "leased", "runs", "returned"},
                 ticket : 0..Tickets - 1, session : Sessions \cup {None}]

\* What a caller does to the pool and to itself when it takes a session.
LEMMA TakesWhat ==
  ASSUME TypeOK, NEW c \in Callers, NEW q \in PoolStates, q.idle # <<>>,
         NEW t \in 0..Tickets - 1, Takes(c, t, q)
  PROVE  LET b == Uses[c] IN
         /\ pool' \in [Backends -> PoolStates] /\ caller' \in [Callers -> CallerStates]
         /\ \A d \in Backends : d # b => pool'[d] = pool[d]
         /\ \A d \in Callers : d # c => caller'[d] = caller[d]
         /\ caller'[c].at = "leased" /\ caller'[c].session = q.idle[Len(q.idle)]
         /\ caller'[c].session \in Sessions /\ caller'[c].session # None
         /\ pool'[b].next = q.next /\ pool'[b].serving = Advance(q.serving)
         /\ pool'[b].idle = SubSeq(q.idle, 1, Len(q.idle) - 1)
         /\ Len(pool'[b].idle) = Len(q.idle) - 1
         /\ \A i \in 1..Len(q.idle) - 1 : pool'[b].idle[i] = q.idle[i]
<1> DEFINE b == Uses[c]
           n == Len(q.idle)
           idle == SubSeq(q.idle, 1, n - 1)
<1>1. b \in Backends /\ None \notin Sessions
  BY OnnxAssumption
<1>2. pool \in [Backends -> PoolStates] /\ caller \in [Callers -> CallerStates]
  BY DEF TypeOK, PoolStates, CallerStates
<1>3. q.idle \in Seq(Sessions) /\ q.next \in 0..Tickets - 1 /\ q.serving \in 0..Tickets - 1
  BY DEF PoolStates
<1>4. n \in Nat /\ n # 0 /\ \A i \in 1..n : q.idle[i] \in Sessions
  BY <1>3, EmptySeq, ElementOfSeq, LenProperties
<1>5. /\ idle \in Seq(Sessions) /\ Len(idle) = n - 1
      /\ \A i \in 1..n - 1 : idle[i] = q.idle[i]
  BY <1>4, SubSeqProperties
<1>6. Advance(q.serving) \in 0..Tickets - 1
  BY <1>3, AdvanceType
<1>7. pool' = [pool EXCEPT ![b] = [q EXCEPT !.idle = idle, !.serving = Advance(q.serving)]]
  BY DEF Takes
<1>8. caller' = [caller EXCEPT ![c] = [at |-> "leased", ticket |-> t, session |-> q.idle[n]]]
  BY DEF Takes
<1>9. [at |-> "leased", ticket |-> t, session |-> q.idle[n]] \in CallerStates
  BY <1>4 DEF CallerStates
<1> HIDE DEF n, idle
<1>10. /\ [q EXCEPT !.idle = idle, !.serving = Advance(q.serving)] \in PoolStates
       /\ [q EXCEPT !.idle = idle, !.serving = Advance(q.serving)].idle = idle
       /\ [q EXCEPT !.idle = idle, !.serving = Advance(q.serving)].next = q.next
       /\ [q EXCEPT !.idle = idle, !.serving = Advance(q.serving)].serving = Advance(q.serving)
  BY <1>5, <1>6 DEF PoolStates
<1>11. /\ pool' \in [Backends -> PoolStates]
       /\ \A d \in Backends : d # b => pool'[d] = pool[d]
       /\ pool'[b].idle = idle /\ pool'[b].next = q.next
       /\ pool'[b].serving = Advance(q.serving)
  BY <1>1, <1>2, <1>7, <1>10
<1>12. /\ caller' \in [Callers -> CallerStates]
       /\ \A d \in Callers : d # c => caller'[d] = caller[d]
       /\ caller'[c].at = "leased" /\ caller'[c].session = q.idle[n]
  BY <1>2, <1>8, <1>9
<1>13. q.idle[n] \in Sessions /\ q.idle[n] # None
  BY <1>1, <1>4
<1> QED BY <1>5, <1>11, <1>12, <1>13 DEF n, idle

\* What notifying everyone does to the callers.
LEMMA NotifyWhat ==
  ASSUME TypeOK, NEW c \in Callers, NEW goesTo \in CallerStates, NotifyAll(c, goesTo)
  PROVE  /\ caller' \in [Callers -> CallerStates]
         /\ caller'[c] = goesTo
         /\ \A d \in Callers : d # c =>
              /\ caller'[d].ticket = caller[d].ticket
              /\ caller'[d].session = caller[d].session
              /\ caller'[d].at = IF Uses[d] = Uses[c] /\ caller[d].at = "asleep" THEN "awake"
                                 ELSE caller[d].at
<1>1. caller \in [Callers -> CallerStates]
  BY DEF TypeOK, CallerStates
<1>2. caller' = [d \in Callers |->
        IF d = c THEN goesTo
        ELSE IF Uses[d] = Uses[c] /\ caller[d].at = "asleep"
             THEN [caller[d] EXCEPT !.at = "awake"]
             ELSE caller[d]]
  BY DEF NotifyAll
<1>3. \A v \in CallerStates : /\ [v EXCEPT !.at = "awake"] \in CallerStates
                              /\ [v EXCEPT !.at = "awake"].at = "awake"
                              /\ [v EXCEPT !.at = "awake"].ticket = v.ticket
                              /\ [v EXCEPT !.at = "awake"].session = v.session
  BY DEF CallerStates
<1> QED BY <1>1, <1>2, <1>3

\* c took the last of its pool's idle sessions, and the pool's turn moved on.
TookOne(c, next) ==
  LET b == Uses[c]
      idle == pool[b].idle
      n == Len(idle) IN
  /\ idle # <<>>
  /\ pool' \in [Backends -> PoolStates] /\ caller' \in [Callers -> CallerStates]
  /\ \A d \in Backends : d # b => pool'[d] = pool[d]
  /\ \A d \in Callers : d # c => caller'[d] = caller[d]
  /\ caller'[c].at = "leased" /\ caller'[c].session = idle[n]
  /\ caller'[c].session \in Sessions /\ caller'[c].session # None
  /\ pool'[b].next = next /\ pool'[b].serving = Advance(pool[b].serving)
  /\ pool'[b].idle = SubSeq(idle, 1, n - 1) /\ Len(pool'[b].idle) = n - 1
  /\ \A i \in 1..n - 1 : pool'[b].idle[i] = idle[i]

\* c took a ticket and fell asleep at the end of the line.
Joined(c) ==
  LET b == Uses[c] IN
  /\ pool' \in [Backends -> PoolStates] /\ caller' \in [Callers -> CallerStates]
  /\ \A d \in Backends : d # b => pool'[d] = pool[d]
  /\ \A d \in Callers : d # c => caller'[d] = caller[d]
  /\ pool'[b].next = Advance(pool[b].next) /\ pool'[b].serving = pool[b].serving
  /\ pool'[b].idle = pool[b].idle
  /\ caller'[c].at = "asleep" /\ caller'[c].ticket = pool[b].next
  /\ caller'[c].session = None
  /\ line' = [line EXCEPT ![b] = Append(line[b], c)]

\* The two ways a check-out goes.
LEMMA CheckOutWhat ==
  ASSUME TypeOK, NEW c \in Callers, CheckOut(c)
  PROVE  LET b == Uses[c] IN
         /\ Open(b) /\ caller[c].at = "away" /\ UNCHANGED loading
         /\ \/ /\ HasTurn(pool[b].next, pool[b])
               /\ TookOne(c, Advance(pool[b].next))
               /\ UNCHANGED line
            \/ ~HasTurn(pool[b].next, pool[b]) /\ Joined(c)
<1> DEFINE b == Uses[c]
           t == pool[b].next
           q == [pool[b] EXCEPT !.next = Advance(t)]
<1>1. b \in Backends
  BY OnnxAssumption
<1>2. /\ pool \in [Backends -> PoolStates] /\ pool[b] \in PoolStates
      /\ caller \in [Callers -> CallerStates]
  BY <1>1 DEF TypeOK, PoolStates, CallerStates
<1>3. t \in 0..Tickets - 1 /\ Advance(t) \in 0..Tickets - 1
  BY <1>2, AdvanceType DEF PoolStates
<1>4. /\ q \in PoolStates /\ q.idle = pool[b].idle /\ q.serving = pool[b].serving
      /\ q.next = Advance(t)
  BY <1>2, <1>3 DEF PoolStates
<1>5. HasTurn(t, q) <=> HasTurn(t, pool[b])
  BY <1>4 DEF HasTurn
<1>6. /\ Open(b) /\ caller[c].at = "away" /\ UNCHANGED loading
      /\ \/ HasTurn(t, q) /\ Takes(c, t, q) /\ UNCHANGED line
         \/ /\ ~HasTurn(t, q)
            /\ pool' = [pool EXCEPT ![b] = q]
            /\ caller' = [caller EXCEPT ![c] = [at |-> "asleep", ticket |-> t, session |-> None]]
            /\ line' = [line EXCEPT ![b] = Append(@, c)]
  BY DEF CheckOut
<1> HIDE DEF q, t
<1>7. CASE HasTurn(t, q) /\ Takes(c, t, q) /\ UNCHANGED line
  <2>1. q.idle # <<>>
    BY <1>7 DEF HasTurn
  <2>2. TookOne(c, Advance(t))
    BY <1>7, <1>3, <1>4, <2>1, TakesWhat DEF TookOne
  <2> QED BY <1>5, <1>6, <1>7, <2>2 DEF t
<1>8. CASE /\ ~HasTurn(t, q)
           /\ pool' = [pool EXCEPT ![b] = q]
           /\ caller' = [caller EXCEPT ![c] = [at |-> "asleep", ticket |-> t, session |-> None]]
           /\ line' = [line EXCEPT ![b] = Append(@, c)]
  <2>1. [at |-> "asleep", ticket |-> t, session |-> None] \in CallerStates
    BY <1>3 DEF CallerStates
  <2>2. /\ caller' \in [Callers -> CallerStates]
        /\ \A d \in Callers : d # c => caller'[d] = caller[d]
        /\ caller'[c] = [at |-> "asleep", ticket |-> t, session |-> None]
    BY <1>2, <1>8, <2>1
  <2>3. /\ pool' \in [Backends -> PoolStates]
        /\ \A d \in Backends : d # b => pool'[d] = pool[d]
        /\ pool'[b] = q
    BY <1>1, <1>2, <1>4, <1>8
  <2>4. line' = [line EXCEPT ![b] = Append(line[b], c)]
    BY <1>8, <1>1 DEF TypeOK
  <2>5. Joined(c)
    BY <1>4, <2>2, <2>3, <2>4 DEF Joined, t
  <2> QED BY <1>5, <1>6, <1>8, <2>5 DEF t
<1> QED BY <1>6, <1>7, <1>8

\* The two ways it goes when a caller looks again.
LEMMA LookAgainWhat ==
  ASSUME TypeOK, NEW c \in Callers, LookAgain(c)
  PROVE  LET b == Uses[c] IN
         /\ caller[c].at = "awake" /\ UNCHANGED loading
         /\ \/ /\ HasTurn(caller[c].ticket, pool[b])
               /\ TookOne(c, pool[b].next)
               /\ line' = [line EXCEPT ![b] = Without(line[b], c)]
            \/ /\ ~HasTurn(caller[c].ticket, pool[b])
               /\ caller' = [caller EXCEPT ![c].at = "asleep"]
               /\ UNCHANGED <<pool, line>>
<1> DEFINE b == Uses[c]
           t == caller[c].ticket
<1>1. b \in Backends
  BY OnnxAssumption
<1>2. pool[b] \in PoolStates /\ t \in 0..Tickets - 1
  BY <1>1 DEF TypeOK, PoolStates
<1>3. /\ caller[c].at = "awake" /\ UNCHANGED loading
      /\ \/ /\ HasTurn(t, pool[b]) /\ Takes(c, t, pool[b])
            /\ line' = [line EXCEPT ![b] = Without(@, c)]
         \/ /\ ~HasTurn(t, pool[b])
            /\ caller' = [caller EXCEPT ![c].at = "asleep"]
            /\ UNCHANGED <<pool, line>>
  BY DEF LookAgain
<1>4. CASE HasTurn(t, pool[b]) /\ Takes(c, t, pool[b])
           /\ line' = [line EXCEPT ![b] = Without(@, c)]
  <2>1. pool[b].idle # <<>>
    BY <1>4 DEF HasTurn
  <2>2. TookOne(c, pool[b].next)
    BY <1>4, <1>2, <2>1, TakesWhat DEF TookOne
  <2>3. line' = [line EXCEPT ![b] = Without(line[b], c)]
    BY <1>4, <1>1 DEF TypeOK
  <2> QED BY <1>3, <1>4, <2>2, <2>3
<1> QED BY <1>3, <1>4

\* What a check-in does: the session goes to the end of the idle ones.
LEMMA CheckInWhat ==
  ASSUME TypeInv, NEW c \in Callers, CheckIn(c)
  PROVE  LET b == Uses[c]
             idle == pool[b].idle
             s == caller[c].session IN
         /\ caller[c].at = "runs" /\ UNCHANGED <<loading, line>>
         /\ pool' \in [Backends -> PoolStates] /\ caller' \in [Callers -> CallerStates]
         /\ \A d \in Backends : d # b => pool'[d] = pool[d]
         /\ \A d \in Callers : d # c => caller'[d] = caller[d]
         /\ caller'[c].at = "returned" /\ caller'[c].session = None
         /\ s \in Sessions /\ s # None
         /\ pool'[b].next = pool[b].next /\ pool'[b].serving = pool[b].serving
         /\ pool'[b].idle = Append(idle, s)
<1> DEFINE b == Uses[c]
           s == caller[c].session
<1>1. b \in Backends /\ None \notin Sessions
  BY OnnxAssumption
<1>2. /\ pool \in [Backends -> PoolStates] /\ pool[b] \in PoolStates
      /\ caller \in [Callers -> CallerStates] /\ caller[c] \in CallerStates
  BY <1>1 DEF TypeInv, TypeOK, PoolStates, CallerStates
<1>3. /\ caller[c].at = "runs" /\ UNCHANGED <<loading, line>>
      /\ pool' = [pool EXCEPT ![b].idle = Append(@, s)]
      /\ caller' = [caller EXCEPT ![c].at = "returned", ![c].session = None]
  BY DEF CheckIn
<1>4. s \in Sessions /\ s # None
  BY <1>1, <1>2, <1>3 DEF TypeInv, Holding, CallerStates
<1>5. pool[b].idle \in Seq(Sessions) /\ Append(pool[b].idle, s) \in Seq(Sessions)
  BY <1>2, <1>4, AppendProperties DEF PoolStates
<1> HIDE DEF s
<1>6. /\ [pool[b] EXCEPT !.idle = Append(pool[b].idle, s)] \in PoolStates
      /\ pool' = [pool EXCEPT ![b] = [pool[b] EXCEPT !.idle = Append(pool[b].idle, s)]]
  BY <1>1, <1>2, <1>3, <1>5 DEF PoolStates
<1>7. /\ pool' \in [Backends -> PoolStates]
      /\ \A d \in Backends : d # b => pool'[d] = pool[d]
      /\ pool'[b] = [pool[b] EXCEPT !.idle = Append(pool[b].idle, s)]
  BY <1>1, <1>2, <1>6
<1>8. /\ pool'[b].idle = Append(pool[b].idle, s) /\ pool'[b].next = pool[b].next
      /\ pool'[b].serving = pool[b].serving
  BY <1>2, <1>7 DEF PoolStates
<1>9. /\ caller' \in [Callers -> CallerStates]
      /\ \A d \in Callers : d # c => caller'[d] = caller[d]
      /\ caller'[c].at = "returned" /\ caller'[c].session = None
  BY <1>2, <1>3 DEF CallerStates
<1> QED BY <1>3, <1>4, <1>7, <1>8, <1>9 DEF s

\* A caller that waits is in its line, so taking it out of the line leaves a line.
LEMMA ServedFirst ==
  ASSUME TypeInv, LineInv, NEW c \in Callers, Waiting(c),
         HasTurn(caller[c].ticket, pool[Uses[c]])
  PROVE  LET l == line[Uses[c]] IN
         /\ l \in Seq(Callers) /\ l # <<>> /\ l[1] = c /\ Head(l) = c
         /\ Without(l, c) = Tail(l) /\ Tail(l) \in Seq(Callers)
         /\ Len(Tail(l)) = Len(l) - 1
         /\ \A i \in 1..Len(l) - 1 : Tail(l)[i] = l[i + 1]
<1> DEFINE b == Uses[c]
           l == line[b]
<1>1. b \in Backends /\ l \in Seq(Callers) /\ LineOf(b)
  BY OnnxAssumption DEF TypeInv, TypeOK, LineInv
<1>2. \A i, j \in DOMAIN l : l[i] = l[j] => i = j
  BY <1>1 DEF LineOf
<1>3. PICK i \in DOMAIN l : l[i] = c
  BY <1>1 DEF LineOf
<1>4. caller[c].ticket = Follows(pool[b].serving, i - 1)
  BY <1>1, <1>3 DEF LineOf
<1>5. pool[b].serving = caller[c].ticket /\ pool[b].serving \in 0..Tickets - 1
  BY <1>1 DEF HasTurn, TypeInv, TypeOK
<1>6. Len(l) \in Nat /\ DOMAIN l = 1..Len(l) /\ Len(l) < Tickets /\ Tickets \in Nat
  BY <1>1, <1>2, LineIsShort, LenProperties, OnnxAssumption
<1>7. i - 1 \in Nat /\ i - 1 < Tickets
  BY <1>3, <1>6
<1>8. i = 1
  BY <1>3, <1>4, <1>5, <1>6, <1>7, FollowsAdvance
<1>9. l # <<>> /\ l[1] = c
  BY <1>3, <1>6, <1>8, <1>1, EmptySeq
<1> HIDE DEF l
<1>10. /\ Without(l, c) = Tail(l) /\ Tail(l) \in Seq(Callers) /\ Len(Tail(l)) = Len(l) - 1
       /\ \A j \in 1..Len(l) - 1 : Tail(l)[j] = l[j + 1]
       /\ Head(l) = c
  BY <1>1, <1>2, <1>9, WithoutFirst
<1> QED BY <1>1, <1>9, <1>10 DEF l

\* The steps of a caller keep TypeInv.
LEMMA CallerTypes ==
  ASSUME TypeInv, LineInv, NEW c \in Callers,
         CheckOut(c) \/ WakeUnasked(c) \/ OwnStep(c)
  PROVE  TypeInv'
<1> DEFINE b == Uses[c]
<1>1. b \in Backends /\ None \notin Sessions
  BY OnnxAssumption
<1>2. /\ TypeOK /\ Holding /\ Quiet
      /\ pool \in [Backends -> PoolStates]
      /\ caller \in [Callers -> CallerStates] /\ caller[c] \in CallerStates
      /\ line \in [Backends -> Seq(Callers)]
  BY DEF TypeInv, TypeOK, PoolStates, CallerStates
<1> DEFINE Keeps ==
             /\ UNCHANGED loading
             /\ pool' \in [Backends -> PoolStates] /\ caller' \in [Callers -> CallerStates]
             /\ line' \in [Backends -> Seq(Callers)]
             /\ Open(b)
             /\ caller'[c].session # None <=> caller'[c].at \in {"leased", "runs"}
             /\ \A d \in Callers : d # c =>
                  /\ caller'[d].session = caller[d].session
                  /\ caller'[d].at = caller[d].at
                     \/ (caller[d].at = "asleep" /\ caller'[d].at = "awake")
<1>3. SUFFICES Keeps
  <2>1. TypeOK'
    BY <1>3, <1>2 DEF TypeOK, PoolStates, CallerStates, loading
  <2>2. Holding'
    BY <1>3, <1>2 DEF Holding
  <2>3. ASSUME NEW d \in Callers, ~Open(Uses[d])' PROVE caller'[d].at = "away"
    <3>1. ~Open(Uses[d])
      BY <1>3, <2>3 DEF Open, loading
    <3>2. d # c /\ caller[d].at = "away"
      BY <3>1, <1>2, <1>3 DEF Quiet
    <3> QED BY <3>2, <1>3
  <2> QED BY <2>1, <2>2, <2>3 DEF TypeInv, Quiet
<1>4. caller[c].at # "away" => Open(b)
  BY <1>2 DEF Quiet
<1>5. ASSUME NEW next, TookOne(c, next), UNCHANGED loading, Open(b),
             line' \in [Backends -> Seq(Callers)]
      PROVE  Keeps
  BY <1>5 DEF TookOne
<1>6. CASE CheckOut(c)
  <2>1. CASE TookOne(c, Advance(pool[b].next)) /\ UNCHANGED line
    BY <1>2, <1>6, <2>1, <1>5, CheckOutWhat
  <2>2. CASE Joined(c)
    <3>1. Append(line[b], c) \in Seq(Callers)
      BY <1>1, <1>2, AppendProperties
    <3> QED BY <1>1, <1>2, <1>6, <2>2, <3>1, CheckOutWhat DEF Joined
  <2> QED BY <1>2, <1>6, <2>1, <2>2, CheckOutWhat
<1>7. CASE WakeUnasked(c)
  BY <1>2, <1>4, <1>7 DEF WakeUnasked, CallerStates, Holding
<1>8. CASE LookAgain(c)
  <2>1. Open(b)
    BY <1>4, <1>8 DEF LookAgain
  <2>2. CASE /\ HasTurn(caller[c].ticket, pool[b]) /\ TookOne(c, pool[b].next)
             /\ line' = [line EXCEPT ![b] = Without(line[b], c)]
    <3>1. Waiting(c)
      BY <1>8 DEF LookAgain, Waiting
    <3>2. Without(line[b], c) \in Seq(Callers)
      BY <3>1, <2>2, ServedFirst
    <3>3. line' \in [Backends -> Seq(Callers)]
      BY <3>2, <2>2, <1>1, <1>2
    <3> QED BY <1>2, <1>8, <2>1, <2>2, <3>3, <1>5, LookAgainWhat
  <2>3. CASE /\ caller' = [caller EXCEPT ![c].at = "asleep"]
             /\ UNCHANGED <<pool, line>>
    <3>1. caller[c].at = "awake" /\ UNCHANGED loading
      BY <1>8 DEF LookAgain
    <3> QED BY <3>1, <1>2, <2>1, <2>3 DEF CallerStates, Holding
  <2> QED BY <1>2, <1>8, <2>2, <2>3, LookAgainWhat
<1>9. CASE Leased(c)
  <2>1. /\ caller[c].at = "leased" /\ NotifyAll(c, [caller[c] EXCEPT !.at = "runs"])
        /\ [caller[c] EXCEPT !.at = "runs"] \in CallerStates
        /\ [caller[c] EXCEPT !.at = "runs"].at = "runs"
        /\ [caller[c] EXCEPT !.at = "runs"].session = caller[c].session
    BY <1>9, <1>2 DEF Leased, CallerStates
  <2>2. caller[c].session # None
    BY <2>1, <1>2 DEF Holding
  <2>3. UNCHANGED <<loading, pool, line>>
    BY <2>1 DEF NotifyAll
  <2> QED BY <1>2, <1>4, <2>1, <2>2, <2>3, NotifyWhat
<1>10. CASE CheckIn(c)
  BY <1>2, <1>4, <1>10, CheckInWhat
<1>11. CASE Returned(c)
  <2>1. /\ caller[c].at = "returned" /\ NotifyAll(c, Away) /\ Away \in CallerStates
    BY <1>11, OnnxAssumption DEF Returned, CallerStates, Away
  <2>2. UNCHANGED <<loading, pool, line>>
    BY <2>1 DEF NotifyAll
  <2>3. Away.at = "away" /\ Away.session = None
    BY DEF Away
  <2> QED BY <1>2, <1>4, <2>1, <2>2, <2>3, NotifyWhat
<1> QED BY <1>6, <1>7, <1>8, <1>9, <1>10, <1>11 DEF OwnStep

-----------------------------------------------------------------------------
(* The line is in the order of the tickets. *)

\* A line nobody joins or leaves stays as it is.
LEMMA LineKept ==
  ASSUME LineInv, TypeOK, NEW b \in Backends,
         line'[b] = line[b], pool'[b].next = pool[b].next, pool'[b].serving = pool[b].serving,
         \A d \in Callers : Uses[d] = b =>
           /\ Waiting(d)' <=> Waiting(d)
           /\ Waiting(d) => caller'[d].ticket = caller[d].ticket
  PROVE  LineOf(b)'
<1>1. LineOf(b) /\ line[b] \in Seq(Callers) /\ \A i \in DOMAIN line[b] : line[b][i] \in Callers
  BY ElementOfSeq, LenProperties DEF LineInv, TypeOK
<1>2. ASSUME NEW i \in DOMAIN line[b]
      PROVE  /\ Uses[line[b][i]] = b
             /\ caller'[line[b][i]].at \in {"asleep", "awake"}
             /\ caller'[line[b][i]].ticket = Follows(pool[b].serving, i - 1)
  BY <1>1, <1>2 DEF LineOf, Waiting
<1>3. ASSUME NEW c \in Callers, Uses[c] = b, Waiting(c)'
      PROVE  \E i \in DOMAIN line[b] : line[b][i] = c
  BY <1>1, <1>3 DEF LineOf
<1> QED BY <1>1, <1>2, <1>3 DEF LineOf, Waiting

\* A caller that is served at once finds the line empty.
LEMMA LineEmpty ==
  ASSUME TypeOK, LineInv, NEW b \in Backends, HasTurn(pool[b].next, pool[b])
  PROVE  line[b] = <<>> /\ Len(line[b]) = 0
<1>1. line[b] \in Seq(Callers) /\ LineOf(b) /\ pool[b].serving \in 0..Tickets - 1
  BY DEF TypeOK, LineInv
<1>2. Len(line[b]) \in Nat /\ Len(line[b]) < Tickets
  BY <1>1, LineIsShort, LenProperties DEF LineOf
<1>3. Len(line[b]) = 0
  BY <1>1, <1>2, FollowsAdvance DEF LineOf, HasTurn
<1> QED BY <1>1, <1>3, EmptySeq

\* The steps of a caller keep the line in order.
LEMMA LineCallerStep ==
  ASSUME TypeInv, LineInv, NEW c \in Callers,
         CheckOut(c) \/ WakeUnasked(c) \/ OwnStep(c)
  PROVE  LineInv'
<1> DEFINE b == Uses[c]
           l == line[b]
           s == pool[b].serving
<1>1. b \in Backends /\ Tickets \in Nat
  BY OnnxAssumption
<1>2. /\ TypeOK /\ LineOf(b) /\ l \in Seq(Callers)
      /\ line \in [Backends -> Seq(Callers)]
      /\ caller \in [Callers -> CallerStates] /\ caller[c] \in CallerStates
      /\ s \in 0..Tickets - 1 /\ pool[b].next = Follows(s, Len(l))
  BY <1>1 DEF TypeInv, TypeOK, CallerStates, LineInv, LineOf
<1>3. /\ Len(l) \in Nat /\ Len(l) < Tickets /\ DOMAIN l = 1..Len(l)
      /\ \A i \in 1..Len(l) : l[i] \in Callers
  BY <1>2, LineIsShort, LenProperties, ElementOfSeq DEF LineOf
<1>4. ASSUME \A d \in Callers : d # c =>
               /\ Waiting(d)' <=> Waiting(d)
               /\ Waiting(d) => caller'[d].ticket = caller[d].ticket,
             \A d \in Backends : d # b => line'[d] = line[d] /\ pool'[d] = pool[d],
             LineOf(b)'
      PROVE  LineInv'
  <2>1. ASSUME NEW d \in Backends, d # b PROVE LineOf(d)'
    BY <2>1, <1>2, <1>4, LineKept
  <2> QED BY <1>4, <2>1 DEF LineInv
<1>5. ASSUME \A d \in Callers : /\ Waiting(d)' <=> Waiting(d)
                                /\ Waiting(d) => caller'[d].ticket = caller[d].ticket,
             UNCHANGED line,
             \A d \in Backends : pool'[d].next = pool[d].next /\ pool'[d].serving = pool[d].serving
      PROVE  LineInv'
  <2>1. ASSUME NEW d \in Backends PROVE LineOf(d)'
    <3>1. /\ line'[d] = line[d] /\ pool'[d].next = pool[d].next
          /\ pool'[d].serving = pool[d].serving
      BY <1>5
    <3>2. \A e \in Callers : Uses[e] = d =>
            /\ Waiting(e)' <=> Waiting(e)
            /\ Waiting(e) => caller'[e].ticket = caller[e].ticket
      BY <1>5
    <3> QED BY <3>1, <3>2, <1>2, LineKept
  <2> QED BY <2>1 DEF LineInv
<1>6. CASE CheckOut(c)
  <2>1. caller[c].at = "away" /\ ~Waiting(c)
    BY <1>2, <1>6, CheckOutWhat DEF Waiting
  <2>2. CASE /\ HasTurn(pool[b].next, pool[b])
             /\ TookOne(c, Advance(pool[b].next)) /\ UNCHANGED line
    <3>1. l = <<>> /\ Len(l) = 0
      BY <1>1, <1>2, <2>2, LineEmpty
    <3>2. pool'[b].next = Follows(pool'[b].serving, 0)
      BY <1>2, <1>3, <2>2, <3>1, FollowsAdvance DEF TookOne
    <3>3. /\ \A d \in Callers : d # c => caller'[d] = caller[d]
          /\ ~Waiting(c)'
          /\ \A d \in Backends : d # b => pool'[d] = pool[d]
      BY <2>2 DEF TookOne, Waiting
    <3>4. LineOf(b)'
      BY <1>2, <1>3, <2>2, <3>1, <3>2, <3>3 DEF LineOf, Waiting
    <3> QED BY <1>4, <2>2, <3>3, <3>4 DEF Waiting
  <2>3. CASE Joined(c)
    <3> DEFINE m == Append(l, c)
    <3>1. /\ line'[b] = m /\ Len(m) = Len(l) + 1 /\ DOMAIN m = 1..Len(l) + 1
          /\ \A i \in 1..Len(l) : m[i] = l[i]
          /\ m[Len(l) + 1] = c
          /\ \A d \in Backends : d # b => line'[d] = line[d] /\ pool'[d] = pool[d]
      BY <1>1, <1>2, <1>3, <2>3, AppendProperties, LenProperties DEF Joined
    <3>2. /\ \A d \in Callers : d # c => caller'[d] = caller[d]
          /\ Waiting(c)' /\ caller'[c].ticket = Follows(s, Len(l))
          /\ pool'[b].serving = s
          /\ pool'[b].next = Follows(s, Len(l) + 1)
      BY <1>2, <1>3, <2>3, FollowsAdvance DEF Joined, Waiting
    <3>3. \A i \in 1..Len(l) : l[i] # c /\ l[i] \in Callers
      BY <1>2, <1>3, <2>1 DEF LineOf
    <3> HIDE DEF m
    <3>4. \A i, j \in DOMAIN m : m[i] = m[j] => i = j
      <4>1. \A i, j \in 1..Len(l) : l[i] = l[j] => i = j
        BY <1>2, <1>3 DEF LineOf
      <4> HIDE DEF l
      <4> QED BY <4>1, <1>3, <3>1, <3>3
    <3>5. ASSUME NEW i \in DOMAIN m
          PROVE  /\ Uses[m[i]] = b /\ caller'[m[i]].at \in {"asleep", "awake"}
                 /\ caller'[m[i]].ticket = Follows(s, i - 1)
      <4>1. CASE i = Len(l) + 1
        BY <4>1, <1>3, <3>1, <3>2 DEF Waiting
      <4>2. CASE i \in 1..Len(l)
        BY <4>2, <1>2, <1>3, <3>1, <3>2, <3>3 DEF LineOf, Waiting
      <4> QED BY <3>1, <3>5, <4>1, <4>2, <1>3
    <3>6. ASSUME NEW d \in Callers, Uses[d] = b, Waiting(d)'
          PROVE  \E i \in DOMAIN m : m[i] = d
      <4>1. CASE d = c
        BY <4>1, <3>1, <1>3
      <4>2. CASE d # c
        <5>1. PICK i \in DOMAIN l : l[i] = d
          BY <4>2, <3>2, <3>6, <1>2 DEF LineOf, Waiting
        <5> QED BY <5>1, <3>1, <1>3
      <4> QED BY <4>1, <4>2
    <3>7. LineOf(b)'
      BY <3>1, <3>2, <3>4, <3>5, <3>6 DEF LineOf, Waiting
    <3> QED BY <1>4, <3>1, <3>2, <3>7 DEF Waiting
  <2> QED BY <1>2, <1>6, <2>2, <2>3, CheckOutWhat
<1>7. CASE WakeUnasked(c)
  BY <1>2, <1>5, <1>7 DEF WakeUnasked, Waiting, CallerStates
<1>8. CASE LookAgain(c)
  <2>1. Waiting(c) /\ caller[c].at = "awake" /\ UNCHANGED loading
    BY <1>8 DEF LookAgain, Waiting
  <2>2. CASE /\ HasTurn(caller[c].ticket, pool[b]) /\ TookOne(c, pool[b].next)
             /\ line' = [line EXCEPT ![b] = Without(line[b], c)]
    <3> DEFINE m == Tail(l)
    <3>1. /\ l # <<>> /\ l[1] = c /\ line' = [line EXCEPT ![b] = m]
          /\ m \in Seq(Callers) /\ Len(m) = Len(l) - 1
          /\ \A i \in 1..Len(l) - 1 : m[i] = l[i + 1]
      BY <2>1, <2>2, ServedFirst
    <3>2. /\ DOMAIN m = 1..Len(l) - 1 /\ line'[b] = m
          /\ \A d \in Backends : d # b => line'[d] = line[d]
          /\ Len(l) # 0
      BY <1>1, <1>2, <3>1, LenProperties, EmptySeq
    <3>3. /\ \A d \in Callers : d # c => caller'[d] = caller[d]
          /\ \A d \in Backends : d # b => pool'[d] = pool[d]
          /\ ~Waiting(c)'
          /\ pool'[b].next = pool[b].next /\ pool'[b].serving = Advance(s)
      BY <2>2 DEF TookOne, Waiting
    <3>4. \A k \in Nat : k < Tickets => Follows(Advance(s), k) = Follows(s, k + 1)
      BY <1>2, FollowsAdvance
    <3> HIDE DEF m
    <3>5. pool'[b].next = Follows(pool'[b].serving, Len(m))
      <4>1. Len(m) \in Nat /\ Len(m) < Tickets /\ Len(m) + 1 = Len(l)
        BY <1>1, <1>3, <3>1, <3>2
      <4> QED BY <1>2, <3>3, <3>4, <4>1
    <3>6. \A i, j \in DOMAIN m : m[i] = m[j] => i = j
      <4> TAKE i, j \in DOMAIN m
      <4>1. i + 1 \in DOMAIN l /\ j + 1 \in DOMAIN l /\ i \in Nat /\ j \in Nat
        BY <1>3, <3>2
      <4>2. m[i] = l[i + 1] /\ m[j] = l[j + 1]
        BY <3>1, <3>2
      <4>3. l[i + 1] = l[j + 1] => i + 1 = j + 1
        BY <4>1, <1>2 DEF LineOf
      <4> QED BY <4>1, <4>2, <4>3
    <3>7. ASSUME NEW i \in DOMAIN m
          PROVE  /\ Uses[m[i]] = b /\ caller'[m[i]].at \in {"asleep", "awake"}
                 /\ caller'[m[i]].ticket = Follows(Advance(s), i - 1)
      <4>1. i + 1 \in DOMAIN l /\ i + 1 # 1 /\ m[i] = l[i + 1] /\ 1 \in DOMAIN l
        BY <1>3, <3>1, <3>2
      <4>2. l[i + 1] # c /\ l[i + 1] \in Callers
        BY <4>1, <1>2, <1>3, <3>1 DEF LineOf
      <4>3. /\ Uses[l[i + 1]] = b /\ Waiting(l[i + 1])
            /\ caller[l[i + 1]].ticket = Follows(s, (i + 1) - 1)
        BY <4>1, <1>2 DEF LineOf
      <4>4. (i + 1) - 1 = (i - 1) + 1 /\ i - 1 \in Nat /\ i - 1 < Tickets
        BY <1>1, <1>3, <3>2
      <4> QED BY <3>3, <3>4, <4>1, <4>2, <4>3, <4>4 DEF Waiting
    <3>8. ASSUME NEW d \in Callers, Uses[d] = b, Waiting(d)'
          PROVE  \E i \in DOMAIN m : m[i] = d
      <4>1. d # c
        BY <3>3, <3>8
      <4>2. PICK i \in DOMAIN l : l[i] = d
        BY <4>1, <3>3, <3>8, <1>2 DEF LineOf, Waiting
      <4>3. i # 1 /\ i - 1 \in DOMAIN m /\ (i - 1) + 1 = i
        BY <4>1, <4>2, <3>1, <3>2, <1>3
      <4>4. m[i - 1] = l[(i - 1) + 1]
        BY <4>3, <3>1, <3>2
      <4> QED BY <4>2, <4>3, <4>4
    <3>9. LineOf(b)'
      BY <3>2, <3>3, <3>5, <3>6, <3>7, <3>8 DEF LineOf, Waiting
    <3> QED BY <1>4, <3>2, <3>3, <3>9 DEF Waiting
  <2>3. CASE /\ caller' = [caller EXCEPT ![c].at = "asleep"]
             /\ UNCHANGED <<pool, line>>
    <3>1. /\ \A d \in Callers : d # c => caller'[d] = caller[d]
          /\ caller'[c].at = "asleep" /\ caller'[c].ticket = caller[c].ticket
      BY <1>2, <2>3 DEF CallerStates
    <3> QED BY <2>1, <2>3, <3>1, <1>5 DEF Waiting
  <2> QED BY <1>2, <1>8, <2>2, <2>3, LookAgainWhat
<1>9. CASE Leased(c)
  <2>1. /\ caller[c].at = "leased" /\ NotifyAll(c, [caller[c] EXCEPT !.at = "runs"])
        /\ [caller[c] EXCEPT !.at = "runs"] \in CallerStates
        /\ [caller[c] EXCEPT !.at = "runs"].at = "runs"
    BY <1>9, <1>2 DEF Leased, CallerStates
  <2>2. UNCHANGED <<loading, pool, line>>
    BY <2>1 DEF NotifyAll
  <2>3. \A d \in Callers : /\ Waiting(d)' <=> Waiting(d)
                           /\ Waiting(d) => caller'[d].ticket = caller[d].ticket
    BY <1>2, <2>1, NotifyWhat DEF Waiting
  <2> QED BY <2>2, <2>3, <1>5
<1>10. CASE CheckIn(c)
  <2>1. \A d \in Callers : /\ Waiting(d)' <=> Waiting(d)
                           /\ Waiting(d) => caller'[d].ticket = caller[d].ticket
    BY <1>10, CheckInWhat DEF Waiting
  <2> QED BY <1>10, <2>1, <1>5, CheckInWhat
<1>11. CASE Returned(c)
  <2>1. /\ caller[c].at = "returned" /\ NotifyAll(c, Away) /\ Away \in CallerStates
    BY <1>11, OnnxAssumption DEF Returned, CallerStates, Away
  <2>2. UNCHANGED <<loading, pool, line>>
    BY <2>1 DEF NotifyAll
  <2>3. \A d \in Callers : /\ Waiting(d)' <=> Waiting(d)
                           /\ Waiting(d) => caller'[d].ticket = caller[d].ticket
    BY <1>2, <2>1, NotifyWhat DEF Waiting, Away
  <2> QED BY <2>2, <2>3, <1>5
<1> QED BY <1>6, <1>7, <1>8, <1>9, <1>10, <1>11 DEF OwnStep

\* The steps of a load keep it: nobody waits in the pool of a backend that is not open.
LEMMA LineLoadStep ==
  ASSUME TypeInv, LineInv, NEW b \in Backends, LoadStep(b)
  PROVE  LineInv'
<1>1. /\ UNCHANGED calling
      /\ pool' = pool \/ (~Open(b) /\ pool' = [pool EXCEPT ![b] = Probed])
  BY LoadLeavesCallers DEF TypeInv
<1>2. UNCHANGED <<caller, line>> /\ TypeOK
  BY <1>1 DEF calling, TypeInv
<1>3. \A d \in Callers : /\ Waiting(d)' <=> Waiting(d)
                         /\ Waiting(d) => caller'[d].ticket = caller[d].ticket
  BY <1>2 DEF Waiting
<1>4. ASSUME NEW d \in Backends, pool'[d] = pool[d] PROVE LineOf(d)'
  BY <1>2, <1>3, <1>4, LineKept
<1>5. CASE ~Open(b) /\ pool' = [pool EXCEPT ![b] = Probed]
  <2>1. /\ \A d \in Backends : d # b => pool'[d] = pool[d]
        /\ pool'[b] = Probed
    BY <1>2, <1>5 DEF TypeOK
  <2>2. \A c \in Callers : Uses[c] = b => ~Waiting(c)
    BY <1>5 DEF TypeInv, Quiet, Waiting
  <2>3. /\ line[b] \in Seq(Callers) /\ LineOf(b)
        /\ \A i \in DOMAIN line[b] : line[b][i] \in Callers
    BY <1>2, ElementOfSeq, LenProperties DEF TypeOK, LineInv
  <2>4. \A i \in DOMAIN line[b] : FALSE
    BY <2>2, <2>3 DEF LineOf
  <2>5. Len(line[b]) = 0
    BY <2>3, <2>4, LenProperties
  <2>6. pool'[b].next = Follows(pool'[b].serving, 0)
    BY <2>1, OnnxAssumption DEF Probed, Follows
  <2>7. LineOf(b)'
    BY <1>2, <2>2, <2>4, <2>5, <2>6 DEF LineOf, Waiting
  <2> QED BY <1>4, <2>1, <2>7 DEF LineInv
<1>6. CASE pool' = pool
  BY <1>4, <1>6 DEF LineInv
<1> QED BY <1>1, <1>5, <1>6

-----------------------------------------------------------------------------
(* The sessions. *)

\* A session is idle in one place, or with one caller.
SessionsOf(b) ==
  /\ \A i, j \in DOMAIN pool[b].idle : pool[b].idle[i] = pool[b].idle[j] => i = j
  /\ \A c \in Callers : Uses[c] = b /\ caller[c].session # None =>
       /\ \A i \in DOMAIN pool[b].idle : pool[b].idle[i] # caller[c].session
       /\ \A d \in Callers : Uses[d] = b /\ caller[d].session = caller[c].session => d = c

SessionsInv == \A b \in Backends : SessionsOf(b)

\* Sessions nobody takes or gives back stay where they are.
LEMMA SessionsKept ==
  ASSUME SessionsInv, NEW b \in Backends, pool'[b].idle = pool[b].idle,
         \A d \in Callers : Uses[d] = b => caller'[d].session = caller[d].session
  PROVE  SessionsOf(b)'
BY DEF SessionsInv, SessionsOf

\* A caller that takes a session is the only one to have it.
LEMMA SessionTaken ==
  ASSUME TypeInv, SessionsInv, NEW c \in Callers, caller[c].session = None,
         NEW next, TookOne(c, next)
  PROVE  SessionsInv'
<1> DEFINE b == Uses[c]
           idle == pool[b].idle
           n == Len(idle)
<1>1. b \in Backends
  BY OnnxAssumption
<1>2. SessionsOf(b) /\ idle \in Seq(Sessions) /\ pool' \in [Backends -> PoolStates]
  BY <1>1 DEF SessionsInv, TypeInv, TypeOK, TookOne
<1>3. n \in Nat /\ n # 0 /\ DOMAIN idle = 1..n
  BY <1>2, LenProperties, EmptySeq DEF TookOne
<1>4. /\ Len(pool'[b].idle) = n - 1 /\ pool'[b].idle \in Seq(Sessions)
      /\ \A i \in 1..n - 1 : pool'[b].idle[i] = idle[i]
      /\ caller'[c].session = idle[n]
      /\ \A d \in Callers : d # c => caller'[d] = caller[d]
      /\ \A d \in Backends : d # b => pool'[d] = pool[d]
  BY <1>1, <1>2 DEF TookOne, PoolStates
<1>5. DOMAIN pool'[b].idle = 1..n - 1
  BY <1>3, <1>4, LenProperties
<1>6. \A i, j \in 1..n : idle[i] = idle[j] => i = j
  BY <1>2, <1>3 DEF SessionsOf
<1>7. \A d \in Callers : Uses[d] = b /\ caller[d].session # None =>
        /\ \A i \in 1..n : idle[i] # caller[d].session
        /\ \A e \in Callers : Uses[e] = b /\ caller[e].session = caller[d].session => e = d
  BY <1>2, <1>3 DEF SessionsOf
<1> HIDE DEF n, idle
<1>8. \A i, j \in 1..n - 1 : pool'[b].idle[i] = pool'[b].idle[j] => i = j
  BY <1>3, <1>4, <1>6
<1>9. ASSUME NEW d \in Callers, Uses[d] = b, caller'[d].session # None
      PROVE  /\ \A i \in 1..n - 1 : pool'[b].idle[i] # caller'[d].session
             /\ \A e \in Callers : Uses[e] = b /\ caller'[e].session = caller'[d].session => e = d
  <2>1. CASE d = c
    <3>1. \A i \in 1..n - 1 : idle[i] # idle[n]
      BY <1>3, <1>6
    <3>2. \A e \in Callers : Uses[e] = b /\ e # c => caller'[e].session # idle[n]
      <4> TAKE e \in Callers
      <4> HAVE Uses[e] = b /\ e # c
      <4>1. caller'[e] = caller[e] /\ n \in 1..n
        BY <1>3, <1>4
      <4>2. caller[e].session # None => idle[n] # caller[e].session
        BY <1>7, <4>1
      <4> QED BY <4>1, <4>2, <1>4, <1>9, <2>1
    <3> QED BY <2>1, <3>1, <3>2, <1>4
  <2>2. CASE d # c
    <3>1. caller'[d] = caller[d] /\ caller[d].session # None
      BY <1>4, <1>9, <2>2
    <3>2. \A i \in 1..n - 1 : idle[i] # caller[d].session
      BY <3>1, <1>3, <1>7, <1>9
    <3>3. idle[n] # caller[d].session
      BY <3>1, <1>3, <1>7, <1>9
    <3> QED BY <3>1, <3>2, <3>3, <1>4, <1>7, <1>9
  <2> QED BY <2>1, <2>2
<1>10. SessionsOf(b)'
  BY <1>5, <1>8, <1>9 DEF SessionsOf
<1>11. ASSUME NEW d \in Backends, d # b PROVE SessionsOf(d)'
  BY <1>4, <1>11, SessionsKept
<1> QED BY <1>10, <1>11 DEF SessionsInv

\* A session that comes back is idle in one place, and with nobody.
LEMMA SessionReturned ==
  ASSUME TypeInv, SessionsInv, NEW c \in Callers, CheckIn(c)
  PROVE  SessionsInv'
<1> DEFINE b == Uses[c]
           idle == pool[b].idle
           n == Len(idle)
           s == caller[c].session
<1>1. b \in Backends
  BY OnnxAssumption
<1>2. SessionsOf(b) /\ idle \in Seq(Sessions) /\ n \in Nat /\ DOMAIN idle = 1..n
  BY <1>1, LenProperties DEF SessionsInv, TypeInv, TypeOK
<1>3. /\ s \in Sessions /\ s # None /\ pool'[b].idle = Append(idle, s)
      /\ caller'[c].session = None
      /\ \A d \in Callers : d # c => caller'[d] = caller[d]
      /\ \A d \in Backends : d # b => pool'[d] = pool[d]
  BY CheckInWhat
<1>4. /\ DOMAIN pool'[b].idle = 1..n + 1
      /\ \A i \in 1..n : pool'[b].idle[i] = idle[i]
      /\ pool'[b].idle[n + 1] = s
  BY <1>2, <1>3, AppendProperties, LenProperties
<1>5. \A i, j \in 1..n : idle[i] = idle[j] => i = j
  BY <1>2 DEF SessionsOf
<1>6. \A d \in Callers : Uses[d] = b /\ caller[d].session # None =>
        /\ \A i \in 1..n : idle[i] # caller[d].session
        /\ \A e \in Callers : Uses[e] = b /\ caller[e].session = caller[d].session => e = d
  BY <1>2 DEF SessionsOf
<1>7. \A i \in 1..n : idle[i] # s
  BY <1>3, <1>6
<1> HIDE DEF n, idle, s
<1>8. \A i, j \in 1..n + 1 : pool'[b].idle[i] = pool'[b].idle[j] => i = j
  <2> TAKE i, j \in 1..n + 1
  <2>1. (i \in 1..n \/ i = n + 1) /\ (j \in 1..n \/ j = n + 1)
    BY <1>2
  <2> QED BY <2>1, <1>4, <1>5, <1>7
<1>9. ASSUME NEW d \in Callers, Uses[d] = b, caller'[d].session # None
      PROVE  /\ \A i \in 1..n + 1 : pool'[b].idle[i] # caller'[d].session
             /\ \A e \in Callers : Uses[e] = b /\ caller'[e].session = caller'[d].session => e = d
  <2>1. d # c /\ caller'[d] = caller[d] /\ caller[d].session # None
    BY <1>3, <1>9
  <2>2. caller[d].session # s
    BY <2>1, <1>3, <1>6, <1>9 DEF s
  <2>3. \A i \in 1..n + 1 : pool'[b].idle[i] # caller'[d].session
    <3> TAKE i \in 1..n + 1
    <3>1. i \in 1..n \/ i = n + 1
      BY <1>2
    <3> QED BY <3>1, <2>1, <2>2, <1>4, <1>6, <1>9
  <2> QED BY <2>1, <2>3, <1>3, <1>6, <1>9
<1>10. SessionsOf(b)'
  BY <1>4, <1>8, <1>9 DEF SessionsOf
<1>11. ASSUME NEW d \in Backends, d # b PROVE SessionsOf(d)'
  BY <1>3, <1>11, SessionsKept
<1> QED BY <1>10, <1>11 DEF SessionsInv

\* What a caller holds and what is idle is not touched by who wakes, sleeps or leaves.
LEMMA SessionsUntouched ==
  ASSUME SessionsInv, \A b \in Backends : pool'[b].idle = pool[b].idle,
         \A d \in Callers : caller'[d].session = caller[d].session
  PROVE  SessionsInv'
BY SessionsKept DEF SessionsInv

\* The steps of a caller keep every session in one place.
LEMMA SessionsCallerStep ==
  ASSUME TypeInv, SessionsInv, NEW c \in Callers,
         CheckOut(c) \/ WakeUnasked(c) \/ OwnStep(c)
  PROVE  SessionsInv'
<1>1. /\ TypeOK /\ Holding
      /\ caller \in [Callers -> CallerStates] /\ caller[c] \in CallerStates
  BY DEF TypeInv, TypeOK, CallerStates
<1>2. caller[c].at \in {"away", "asleep", "awake", "returned"} => caller[c].session = None
  BY <1>1 DEF Holding
<1>3. CASE CheckOut(c)
  <2>1. caller[c].session = None
    BY <1>1, <1>2, <1>3, CheckOutWhat
  <2>2. CASE Joined(c)
    <3>1. \A d \in Callers : caller'[d].session = caller[d].session
      BY <2>1, <2>2 DEF Joined
    <3>2. \A b \in Backends : pool'[b].idle = pool[b].idle
      BY <2>2 DEF Joined
    <3> QED BY <3>1, <3>2, SessionsUntouched
  <2> QED BY <1>1, <1>3, <2>1, <2>2, CheckOutWhat, SessionTaken
<1>4. CASE WakeUnasked(c)
  <2>1. \A d \in Callers : caller'[d].session = caller[d].session
    BY <1>1, <1>4 DEF WakeUnasked, CallerStates
  <2>2. pool' = pool
    BY <1>4 DEF WakeUnasked
  <2> QED BY <2>1, <2>2, SessionsUntouched
<1>5. CASE LookAgain(c)
  <2>1. caller[c].session = None
    BY <1>2, <1>5 DEF LookAgain
  <2>2. CASE caller' = [caller EXCEPT ![c].at = "asleep"] /\ UNCHANGED <<pool, line>>
    <3>1. \A d \in Callers : caller'[d].session = caller[d].session
      BY <1>1, <2>2 DEF CallerStates
    <3> QED BY <3>1, <2>2, SessionsUntouched
  <2> QED BY <1>1, <1>5, <2>1, <2>2, LookAgainWhat, SessionTaken
<1>6. CASE Leased(c)
  <2>1. /\ NotifyAll(c, [caller[c] EXCEPT !.at = "runs"])
        /\ [caller[c] EXCEPT !.at = "runs"] \in CallerStates
        /\ [caller[c] EXCEPT !.at = "runs"].session = caller[c].session
    BY <1>6, <1>1 DEF Leased, CallerStates
  <2>2. \A d \in Callers : caller'[d].session = caller[d].session
    BY <1>1, <2>1, NotifyWhat
  <2>3. pool' = pool
    BY <2>1 DEF NotifyAll
  <2> QED BY <2>2, <2>3, SessionsUntouched
<1>7. CASE CheckIn(c)
  BY <1>7, SessionReturned
<1>8. CASE Returned(c)
  <2>1. /\ NotifyAll(c, Away) /\ Away \in CallerStates /\ Away.session = None
        /\ caller[c].session = None
    BY <1>8, <1>2, OnnxAssumption DEF Returned, Away, CallerStates
  <2>2. \A d \in Callers : caller'[d].session = caller[d].session
    BY <1>1, <2>1, NotifyWhat
  <2>3. pool' = pool
    BY <2>1 DEF NotifyAll
  <2> QED BY <2>2, <2>3, SessionsUntouched
<1> QED BY <1>3, <1>4, <1>5, <1>6, <1>7, <1>8 DEF OwnStep

\* The steps of a load keep it: a pool is made anew only when nobody holds of it.
LEMMA SessionsLoadStep ==
  ASSUME TypeInv, SessionsInv, NEW b \in Backends, LoadStep(b)
  PROVE  SessionsInv'
<1>1. /\ UNCHANGED calling
      /\ pool' = pool \/ (~Open(b) /\ pool' = [pool EXCEPT ![b] = Probed])
  BY LoadLeavesCallers DEF TypeInv
<1>2. UNCHANGED <<caller, line>> /\ TypeOK
  BY <1>1 DEF calling, TypeInv
<1>3. CASE pool' = pool
  BY <1>2, <1>3, SessionsUntouched
<1>4. CASE ~Open(b) /\ pool' = [pool EXCEPT ![b] = Probed]
  <2>1. /\ \A d \in Backends : d # b => pool'[d] = pool[d]
        /\ pool'[b] = Probed
    BY <1>2, <1>4 DEF TypeOK
  <2>2. \A c \in Callers : Uses[c] = b => caller[c].session = None
    BY <1>4 DEF TypeInv, Quiet, Holding
  <2>3. \A i, j \in DOMAIN Probed.idle : Probed.idle[i] = Probed.idle[j] => i = j
    BY OnnxAssumption DEF Probed, Sessions
  <2>4. SessionsOf(b)'
    BY <1>2, <2>1, <2>2, <2>3 DEF SessionsOf
  <2>5. ASSUME NEW d \in Backends, d # b PROVE SessionsOf(d)'
    BY <1>2, <2>1, <2>5, SessionsKept
  <2> QED BY <2>4, <2>5 DEF SessionsInv
<1> QED BY <1>1, <1>3, <1>4

-----------------------------------------------------------------------------
(* Nobody sleeps on a turn. *)

\* No step of a caller leaves one asleep on its turn with nobody about to notify.
LEMMA SleepersCallerStep ==
  ASSUME TypeInv, NobodySleepsOnATurn, NEW c \in Callers,
         CheckOut(c) \/ WakeUnasked(c) \/ OwnStep(c)
  PROVE  NobodySleepsOnATurn'
<1> DEFINE b == Uses[c]
<1>1. /\ TypeOK /\ b \in Backends /\ Uses \in [Callers -> Backends]
      /\ caller \in [Callers -> CallerStates] /\ caller[c] \in CallerStates
  BY OnnxAssumption DEF TypeInv, TypeOK, CallerStates
\* A step after which c is about to notify, and that leaves the others as they are.
<1>2. ASSUME caller'[c].at \in {"leased", "returned"},
             \A d \in Callers : d # c => caller'[d] = caller[d],
             \A d \in Backends : d # b => pool'[d] = pool[d],
             caller[c].at \notin {"leased", "returned"}
      PROVE  NobodySleepsOnATurn'
  <2> SUFFICES ASSUME NEW e \in Callers,
                      caller'[e].at = "asleep",
                      HasTurn(caller'[e].ticket, pool'[Uses[e]])
               PROVE  \E d \in Callers : Uses[d] = Uses[e]
                                         /\ caller'[d].at \in {"leased", "returned"}
    BY DEF NobodySleepsOnATurn, HasTurn
  <2>1. CASE Uses[e] = b
    BY <1>2, <2>1
  <2>2. CASE Uses[e] # b
    <3>1. e # c /\ caller'[e] = caller[e] /\ pool'[Uses[e]] = pool[Uses[e]]
      BY <1>1, <1>2, <2>2
    <3>2. PICK d \in Callers : Uses[d] = Uses[e] /\ caller[d].at \in {"leased", "returned"}
      BY <3>1 DEF NobodySleepsOnATurn, HasTurn
    <3> QED BY <1>2, <3>2
  <2> QED BY <2>1, <2>2
\* A step after which no more are asleep on their turn, and that nobody about to notify takes.
<1>3. ASSUME \A e \in Callers : caller'[e].at = "asleep"
               /\ HasTurn(caller'[e].ticket, pool'[Uses[e]]) =>
                 caller[e].at = "asleep" /\ HasTurn(caller[e].ticket, pool[Uses[e]]),
             \A d \in Callers : caller[d].at \in {"leased", "returned"} =>
               caller'[d].at = caller[d].at
      PROVE  NobodySleepsOnATurn'
  BY <1>3 DEF NobodySleepsOnATurn, HasTurn
\* A step that notifies.
<1>4. ASSUME NEW goesTo \in CallerStates, NotifyAll(c, goesTo), goesTo.at # "asleep"
      PROVE  NobodySleepsOnATurn'
  <2> SUFFICES ASSUME NEW e \in Callers,
                      caller'[e].at = "asleep",
                      HasTurn(caller'[e].ticket, pool'[Uses[e]])
               PROVE  \E d \in Callers : Uses[d] = Uses[e]
                                         /\ caller'[d].at \in {"leased", "returned"}
    BY DEF NobodySleepsOnATurn, HasTurn
  <2>1. /\ caller'[c] = goesTo /\ pool' = pool
        /\ \A d \in Callers : d # c =>
             /\ caller'[d].ticket = caller[d].ticket
             /\ caller'[d].at = IF Uses[d] = b /\ caller[d].at = "asleep" THEN "awake"
                                ELSE caller[d].at
    BY <1>1, <1>4, NotifyWhat DEF NotifyAll
  <2>2. e # c /\ Uses[e] # b /\ caller[e].at = "asleep" /\ caller'[e].ticket = caller[e].ticket
    BY <1>4, <2>1
  <2>3. PICK d \in Callers : Uses[d] = Uses[e] /\ caller[d].at \in {"leased", "returned"}
    BY <2>1, <2>2 DEF NobodySleepsOnATurn, HasTurn
  <2> QED BY <2>1, <2>2, <2>3
<1>5. CASE CheckOut(c)
  <2>1. caller[c].at = "away"
    BY <1>1, <1>5, CheckOutWhat
  <2>2. CASE ~HasTurn(pool[b].next, pool[b]) /\ Joined(c)
    <3>1. /\ \A d \in Callers : d # c => caller'[d] = caller[d]
          /\ \A d \in Backends : d # b => pool'[d] = pool[d]
          /\ pool'[b].serving = pool[b].serving /\ pool'[b].idle = pool[b].idle
          /\ caller'[c].ticket = pool[b].next
      BY <2>2 DEF Joined
    <3>2. ASSUME NEW e \in Callers, caller'[e].at = "asleep",
                 HasTurn(caller'[e].ticket, pool'[Uses[e]])
          PROVE  caller[e].at = "asleep" /\ HasTurn(caller[e].ticket, pool[Uses[e]])
      <4>1. e # c
        BY <2>2, <3>1, <3>2 DEF HasTurn
      <4> QED BY <1>1, <3>1, <3>2, <4>1 DEF HasTurn
    <3> QED BY <1>3, <2>1, <3>1, <3>2
  <2>3. CASE TookOne(c, Advance(pool[b].next))
    BY <1>2, <2>1, <2>3 DEF TookOne
  <2> QED BY <1>1, <1>5, <2>2, <2>3, CheckOutWhat
<1>6. CASE WakeUnasked(c)
  BY <1>1, <1>3, <1>6 DEF WakeUnasked, CallerStates, HasTurn
<1>7. CASE LookAgain(c)
  <2>1. caller[c].at = "awake"
    BY <1>7 DEF LookAgain
  <2>2. CASE TookOne(c, pool[b].next)
    BY <1>2, <2>1, <2>2 DEF TookOne
  <2>3. CASE /\ ~HasTurn(caller[c].ticket, pool[b])
             /\ caller' = [caller EXCEPT ![c].at = "asleep"]
             /\ UNCHANGED <<pool, line>>
    <3>1. /\ \A d \in Callers : d # c => caller'[d] = caller[d]
          /\ caller'[c].ticket = caller[c].ticket
          /\ pool' = pool
      BY <1>1, <2>3 DEF CallerStates
    <3> QED BY <1>3, <2>1, <2>3, <3>1
  <2> QED BY <1>1, <1>7, <2>2, <2>3, LookAgainWhat
<1>8. CASE Leased(c)
  <2>1. /\ NotifyAll(c, [caller[c] EXCEPT !.at = "runs"])
        /\ [caller[c] EXCEPT !.at = "runs"] \in CallerStates
        /\ [caller[c] EXCEPT !.at = "runs"].at = "runs"
    BY <1>8, <1>1 DEF Leased, CallerStates
  <2> QED BY <2>1, <1>4
<1>9. CASE CheckIn(c)
  BY <1>2, <1>9, CheckInWhat
<1>10. CASE Returned(c)
  <2>1. NotifyAll(c, Away) /\ Away \in CallerStates /\ Away.at # "asleep"
    BY <1>10, OnnxAssumption DEF Returned, Away, CallerStates
  <2> QED BY <2>1, <1>4
<1> QED BY <1>5, <1>6, <1>7, <1>8, <1>9, <1>10 DEF OwnStep

\* Nor does a step of a load.
LEMMA SleepersLoadStep ==
  ASSUME TypeInv, NobodySleepsOnATurn, NEW b \in Backends, LoadStep(b)
  PROVE  NobodySleepsOnATurn'
<1>1. /\ UNCHANGED calling /\ TypeOK
      /\ pool' = pool \/ (~Open(b) /\ pool' = [pool EXCEPT ![b] = Probed])
  BY LoadLeavesCallers DEF TypeInv
<1>2. caller' = caller
  BY <1>1 DEF calling
<1>3. ASSUME NEW e \in Callers, caller[e].at = "asleep" PROVE pool'[Uses[e]] = pool[Uses[e]]
  <2>1. Uses[e] \in Backends
    BY OnnxAssumption
  <2>2. Open(Uses[e])
    BY <1>3 DEF TypeInv, Quiet
  <2> QED BY <1>1, <2>1, <2>2 DEF TypeOK
<1> QED BY <1>2, <1>3 DEF NobodySleepsOnATurn, HasTurn

-----------------------------------------------------------------------------
(* The theorems. *)

IInv == /\ TypeInv /\ RuntimeInv /\ FilesInv
        /\ LineInv /\ SessionsInv /\ NobodySleepsOnATurn

\* IInv holds at first.
LEMMA InitInv == Init => IInv
<1> SUFFICES ASSUME Init PROVE IInv
  OBVIOUS
<1>1. /\ \A b \in Backends : load[b] = Closed /\ pool[b] = Probed /\ line[b] = <<>>
      /\ \A c \in Callers : caller[c] = Away
      /\ Uses \in [Callers -> Backends] /\ Verified \in Contents
      /\ 0 \in 0..Tickets - 1
  BY OnnxAssumption DEF Init
<1>2. TypeOK
  <2>1. Closed \in [at : {"closed", "asked", "library", "environment", "building", "adopted",
                          "open"},
                    lib : Libraries \cup {None}, files : Contents, changes : Nat,
                    made : Seq(Contents)]
    BY <1>1 DEF Closed
  <2>2. Away \in CallerStates
    BY <1>1 DEF Away, CallerStates
  <2> QED BY <2>1, <2>2, ProbedType DEF Init, TypeOK, CallerStates
<1>3. Holding /\ Quiet
  BY <1>1 DEF Holding, Quiet, Away
<1>4. RuntimeInv
  BY <1>1 DEF Init, RuntimeInv, RuntimeOf, Closed
<1>5. FilesInv
  BY <1>1 DEF FilesInv, FilesOf, AllVerified, Closed
<1>6. LineInv
  <2>1. Probed.next = Follows(Probed.serving, 0)
    BY OnnxAssumption DEF Probed, Follows
  <2>2. Len(<<>>) = 0 /\ DOMAIN <<>> = {}
    OBVIOUS
  <2>3. \A c \in Callers : ~Waiting(c)
    BY <1>1 DEF Waiting, Away
  <2>4. ASSUME NEW b \in Backends PROVE LineOf(b)
    <3>1. line[b] = <<>> /\ pool[b] = Probed
      BY <1>1
    <3> HIDE DEF Probed
    <3> QED BY <3>1, <2>1, <2>2, <2>3 DEF LineOf
  <2> QED BY <2>4 DEF LineInv
<1>7. SessionsInv
  <2>1. \A i, j \in DOMAIN Probed.idle : Probed.idle[i] = Probed.idle[j] => i = j
    BY OnnxAssumption DEF Probed, Sessions
  <2> QED BY <2>1, <1>1 DEF SessionsInv, SessionsOf, Away
<1>8. NobodySleepsOnATurn
  BY <1>1 DEF NobodySleepsOnATurn, Away
<1> QED BY <1>2, <1>3, <1>4, <1>5, <1>6, <1>7, <1>8 DEF IInv, TypeInv

\* A step of a load keeps TypeInv.
LEMMA LoadTypeInv ==
  ASSUME IInv, NEW b \in Backends, LoadStep(b)
  PROVE  TypeInv'
<1>1. /\ TypeOK /\ Holding /\ Quiet
      /\ load[b].at = "environment" => slot # None
  BY DEF IInv, TypeInv, RuntimeInv, RuntimeOf
<1>2. /\ UNCHANGED calling
      /\ \A d \in Backends : d # b => load'[d] = load[d]
      /\ pool' = pool \/ pool' = [pool EXCEPT ![b] = Probed]
      /\ Open(b) => \A c \in Callers : Uses[c] = b => caller[c].at = "away"
  BY <1>1, LoadLeavesCallers
<1>3. UNCHANGED <<caller, line>>
  BY <1>2 DEF calling
<1>4. pool' \in [Backends -> [idle : Seq(Sessions), next : 0..Tickets - 1,
                              serving : 0..Tickets - 1]]
  BY <1>1, <1>2, ProbedType DEF TypeOK
<1>5. TypeOK'
  BY <1>1, <1>3, <1>4, LoadTypes DEF TypeOK
<1>6. Holding'
  BY <1>1, <1>3 DEF Holding
<1>7. ASSUME NEW c \in Callers, ~Open(Uses[c])' PROVE caller'[c].at = "away"
  <2>1. Uses[c] \in Backends
    BY OnnxAssumption
  <2>2. CASE Uses[c] = b
    BY <2>2, <1>1, <1>2, <1>3 DEF Quiet
  <2>3. CASE Uses[c] # b
    BY <2>1, <2>3, <1>1, <1>2, <1>3, <1>7 DEF Quiet, Open
  <2> QED BY <2>2, <2>3
<1> QED BY <1>5, <1>6, <1>7 DEF TypeInv, Quiet

\* IInv is inductive.
LEMMA NextInv == IInv /\ [Next]_vars => IInv'
<1> SUFFICES ASSUME IInv, [Next]_vars PROVE IInv'
  OBVIOUS
<1>1. /\ TypeInv /\ TypeOK /\ RuntimeInv /\ FilesInv
      /\ LineInv /\ SessionsInv /\ NobodySleepsOnATurn
  BY DEF IInv, TypeInv
<1>2. ASSUME NEW b \in Backends, LoadStep(b) PROVE IInv'
  BY <1>1, <1>2, LoadTypeInv, RuntimeLoadStep, FilesLoadStep, LineLoadStep,
     SessionsLoadStep, SleepersLoadStep DEF IInv
<1>3. ASSUME NEW lib \in Usable, InitOutside(lib) PROVE IInv'
  <2>1. /\ ort' \in Libraries /\ UNCHANGED <<slot, ensuring, load, pool, caller, line>>
    BY <1>3, OnnxAssumption DEF InitOutside, calling
  <2>2. TypeInv'
    BY <1>1, <2>1 DEF TypeInv, TypeOK, Holding, Quiet, Open
  <2>3. RuntimeInv' /\ FilesInv'
    BY <1>1, <1>3, <2>1, RuntimeOtherStep, FilesOtherStep
  <2>4. LineInv' /\ SessionsInv' /\ NobodySleepsOnATurn'
    BY <1>1, <2>1 DEF LineInv, LineOf, Waiting, SessionsInv, SessionsOf, NobodySleepsOnATurn,
                      HasTurn
  <2> QED BY <2>2, <2>3, <2>4 DEF IInv
<1>4. ASSUME NEW c \in Callers, CheckOut(c) \/ WakeUnasked(c) \/ OwnStep(c) PROVE IInv'
  <2>1. UNCHANGED loading /\ UNCHANGED load
    BY <1>4 DEF CheckOut, WakeUnasked, OwnStep, LookAgain, Leased, CheckIn, Returned, NotifyAll,
                loading
  <2> QED BY <1>1, <1>4, <2>1, CallerTypes, RuntimeOtherStep, FilesOtherStep, LineCallerStep,
             SessionsCallerStep, SleepersCallerStep DEF IInv
<1>5. CASE UNCHANGED vars
  BY <1>5, <1>1 DEF vars, IInv, TypeInv, TypeOK, Holding, Quiet, Open, RuntimeInv, RuntimeOf,
     FilesInv, FilesOf, AllVerified, LineInv, LineOf, Waiting, SessionsInv, SessionsOf,
     NobodySleepsOnATurn, HasTurn
<1> QED BY <1>2, <1>3, <1>4, <1>5 DEF Next

\* Every reachable state satisfies IInv.
LEMMA Inductive == Spec => []IInv
BY InitInv, NextInv, PTL DEF Spec

\* Every reachable state has its types.
THEOREM OnnxTypes == Spec => []TypeOK
<1>1. IInv => TypeOK
  BY DEF IInv, TypeInv
<1> QED BY <1>1, Inductive, PTL

\* Every backend with sessions runs on the one library of the process, the one it was
\* sent to, however loads were refused and repeated and whoever else used the binding.
THEOREM OneRuntimeAlways == Spec => []OneRuntime
<1>1. IInv => OneRuntime
  BY DEF IInv, RuntimeInv, RuntimeOf, OneRuntime
<1> QED BY <1>1, Inductive, PTL

\* The sessions of an open backend compute alike, and those of a rechecked one were
\* built of the verified files.
THEOREM OneModelServed == Spec => []ServesOneModel
<1>1. ASSUME IInv PROVE ServesOneModel
  <2> SUFFICES ASSUME NEW b \in Backends, Open(b)
               PROVE  /\ \A x, y \in Range(load[b].made) : Probes[x] = Probes[y]
                      /\ b \in Rechecked /\ load[b].changes < 2 =>
                           Range(load[b].made) = {Verified}
    BY DEF ServesOneModel
  <2>1. /\ FilesOf(b) /\ load[b].made \in Seq(Contents) /\ load[b].changes \in Nat
        /\ load[b].at = "open"
    BY <1>1 DEF IInv, FilesInv, TypeInv, TypeOK, Open
  <2>2. Len(load[b].made) = Size /\ Size \in Nat \ {0} /\ DOMAIN load[b].made = 1..Size
    BY <2>1, OnnxAssumption, LenProperties DEF FilesOf
  <2>3. ASSUME b \in Rechecked, load[b].changes < 2 PROVE Range(load[b].made) = {Verified}
    <3>1. load[b].changes = 0
      BY <2>1, <2>3 DEF FilesOf
    <3>2. AllVerified(b)
      BY <2>1, <3>1 DEF FilesOf
    <3>3. 1 \in DOMAIN load[b].made
      BY <2>2
    <3> QED BY <3>2, <3>3 DEF AllVerified, Range
  <2> QED BY <2>1, <2>3 DEF FilesOf
<1> QED BY <1>1, Inductive, PTL

\* A caller asleep on its turn is about to be woken by someone who has yet to notify.
THEOREM NoSleeperOnATurn == Spec => []NobodySleepsOnATurn
<1>1. IInv => NobodySleepsOnATurn
  BY DEF IInv
<1> QED BY <1>1, Inductive, PTL

-----------------------------------------------------------------------------
(* The pool is a first-come, first-served queue. *)

\* The first state is one of the queue.
LEMMA QueueInit == Init => Queue!Init
BY DEF Init, Queue!Init, Away

\* A caller that takes a session gets one nobody of its pool holds.
LEMMA TakenIsFree ==
  ASSUME IInv, NEW c \in Callers, caller[c].session = None, NEW next, TookOne(c, next)
  PROVE  \E s \in Queue!Free(Uses[c]) :
           [d \in Callers |-> caller'[d].session]
             = [[d \in Callers |-> caller[d].session] EXCEPT ![c] = s]
<1> DEFINE b == Uses[c]
           idle == pool[b].idle
           n == Len(idle)
           s == idle[n]
<1>1. b \in Backends
  BY OnnxAssumption
<1>2. SessionsOf(b) /\ idle \in Seq(Sessions)
  BY <1>1 DEF IInv, SessionsInv, TypeInv, TypeOK
<1>3. n \in DOMAIN idle
  BY <1>2, LenProperties, EmptySeq DEF TookOne
<1>4. /\ caller'[c].session = s /\ s \in Sessions /\ s # None
      /\ \A d \in Callers : d # c => caller'[d] = caller[d]
  BY DEF TookOne
<1>5. \A d \in Callers : Uses[d] = b => caller[d].session # s
  BY <1>2, <1>3, <1>4 DEF SessionsOf
<1> HIDE DEF s
<1>6. s \in Queue!Free(b)
  BY <1>4, <1>5 DEF Queue!Free
<1>7. [d \in Callers |-> caller'[d].session]
        = [[d \in Callers |-> caller[d].session] EXCEPT ![c] = s]
  BY <1>4
<1> QED BY <1>6, <1>7

\* Every step is one of the queue, or nothing to it.
LEMMA QueueStep ==
  IInv /\ [Next]_vars => Queue!Next \/ UNCHANGED Queue!queueVars
<1> SUFFICES ASSUME IInv, [Next]_vars PROVE Queue!Next \/ UNCHANGED Queue!queueVars
  OBVIOUS
<1> DEFINE lent == [d \in Callers |-> caller[d].session]
<1>1. /\ TypeInv /\ TypeOK /\ Holding /\ LineInv
      /\ caller \in [Callers -> CallerStates]
  BY DEF IInv, TypeInv, TypeOK, CallerStates
<1>2. ASSUME UNCHANGED line, \A d \in Callers : caller'[d].session = caller[d].session
      PROVE  UNCHANGED Queue!queueVars
  BY <1>2 DEF Queue!queueVars
<1>3. CASE \E b \in Backends : LoadStep(b)
  BY <1>1, <1>2, <1>3, LoadLeavesCallers DEF calling
<1>4. CASE \E lib \in Usable : InitOutside(lib)
  BY <1>2, <1>4 DEF InitOutside, calling
<1>5. CASE UNCHANGED vars
  BY <1>2, <1>5 DEF vars
<1>6. ASSUME NEW c \in Callers, CheckOut(c) \/ WakeUnasked(c) \/ OwnStep(c)
      PROVE  Queue!Next \/ UNCHANGED Queue!queueVars
  <2> DEFINE b == Uses[c]
  <2>1. b \in Backends /\ LineOf(b) /\ caller[c] \in CallerStates
    BY <1>1, OnnxAssumption DEF LineInv
  <2>2. caller[c].at \in {"away", "asleep", "awake", "returned"} => lent[c] = None
    BY <1>1 DEF Holding
  <2>3. CASE CheckOut(c)
    <3>1. caller[c].at = "away" /\ lent[c] = None
      BY <1>1, <2>2, <2>3, CheckOutWhat
    <3>2. CASE /\ HasTurn(pool[b].next, pool[b])
               /\ TookOne(c, Advance(pool[b].next)) /\ UNCHANGED line
      <4>1. line[b] = <<>>
        BY <1>1, <2>1, <3>2, LineEmpty
      <4>2. Queue!JoinServed(b, c)
        BY <3>1, <3>2, <4>1, TakenIsFree DEF Queue!JoinServed
      <4> QED BY <2>1, <4>2 DEF Queue!Next
    <3>3. CASE Joined(c)
      <4>1. line' = [line EXCEPT ![b] = Append(line[b], c)]
        BY <3>3 DEF Joined
      <4>2. \A d \in Callers : caller'[d].session = caller[d].session
        BY <3>1, <3>3 DEF Joined
      <4>3. \A i \in DOMAIN line[b] : line[b][i] # c
        BY <2>1, <3>1 DEF LineOf, Waiting
      <4>4. Queue!Join(b, c)
        BY <2>1, <3>1, <4>1, <4>2, <4>3 DEF Queue!Join
      <4> QED BY <2>1, <4>4 DEF Queue!Next
    <3> QED BY <1>1, <2>3, <3>2, <3>3, CheckOutWhat
  <2>4. CASE WakeUnasked(c)
    <3>1. UNCHANGED line /\ \A d \in Callers : caller'[d].session = caller[d].session
      BY <1>1, <2>4 DEF WakeUnasked, CallerStates
    <3> QED BY <1>2, <3>1
  <2>5. CASE LookAgain(c)
    <3>1. caller[c].at = "awake" /\ Waiting(c) /\ lent[c] = None
      BY <2>2, <2>5 DEF LookAgain, Waiting
    <3>2. CASE /\ HasTurn(caller[c].ticket, pool[b]) /\ TookOne(c, pool[b].next)
               /\ line' = [line EXCEPT ![b] = Without(line[b], c)]
      <4>1. /\ line[b] # <<>> /\ Head(line[b]) = c
            /\ line' = [line EXCEPT ![b] = Tail(line[b])]
        BY <1>1, <3>1, <3>2, ServedFirst
      <4>2. Queue!Serve(b)
        BY <2>1, <3>1, <3>2, <4>1, TakenIsFree DEF Queue!Serve
      <4> QED BY <2>1, <4>2 DEF Queue!Next
    <3>3. CASE caller' = [caller EXCEPT ![c].at = "asleep"] /\ UNCHANGED <<pool, line>>
      <4>1. \A d \in Callers : caller'[d].session = caller[d].session
        BY <1>1, <3>3 DEF CallerStates
      <4> QED BY <1>2, <3>3, <4>1
    <3> QED BY <1>1, <2>5, <3>2, <3>3, LookAgainWhat
  <2>6. CASE Leased(c)
    <3>1. /\ NotifyAll(c, [caller[c] EXCEPT !.at = "runs"])
          /\ [caller[c] EXCEPT !.at = "runs"] \in CallerStates
          /\ [caller[c] EXCEPT !.at = "runs"].session = caller[c].session
      BY <2>1, <2>6 DEF Leased, CallerStates
    <3>2. UNCHANGED line /\ \A d \in Callers : caller'[d].session = caller[d].session
      BY <1>1, <3>1, NotifyWhat DEF NotifyAll
    <3> QED BY <1>2, <3>2
  <2>7. CASE CheckIn(c)
    <3>1. /\ lent[c] # None /\ UNCHANGED line
          /\ caller'[c].session = None
          /\ \A d \in Callers : d # c => caller'[d] = caller[d]
      BY <1>1, <2>7, CheckInWhat
    <3>2. Queue!GiveBack(c)
      BY <3>1 DEF Queue!GiveBack
    <3> QED BY <3>2 DEF Queue!Next
  <2>8. CASE Returned(c)
    <3>1. /\ NotifyAll(c, Away) /\ Away \in CallerStates /\ Away.session = None
          /\ caller[c].session = None
      BY <2>2, <2>8, OnnxAssumption DEF Returned, Away, CallerStates
    <3>2. UNCHANGED line /\ \A d \in Callers : caller'[d].session = caller[d].session
      BY <1>1, <3>1, NotifyWhat DEF NotifyAll
    <3> QED BY <1>2, <3>2
  <2> QED BY <1>6, <2>3, <2>4, <2>5, <2>6, <2>7, <2>8 DEF OwnStep
<1> QED BY <1>3, <1>4, <1>5, <1>6 DEF Next

\* The tickets and the condition variable implement the queue: nobody is served before
\* one that asked earlier, and no session is lent twice.
THEOREM FirstComeFirstServedHolds == Spec => FirstComeFirstServed
<1>1. IInv /\ [Next]_vars => [Queue!Next]_(Queue!queueVars)
  BY QueueStep
<1> QED BY <1>1, QueueInit, Inductive, PTL DEF Spec, FirstComeFirstServed, Queue!Spec
=============================================================================
