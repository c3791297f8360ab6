------------------------------ MODULE Journal ------------------------------
(***************************************************************************)
(* RunJournal (telemetry/journal.py): the append-only events.jsonl of one  *)
(* run, its recovery after a crash, and the two projections written from   *)
(* what the journal object remembers.                                      *)
(*                                                                         *)
(* The file is a sequence of pieces.  The line of an event is three of     *)
(* them, head, tail and newline, so that a write cut short leaves nothing, *)
(* part of the text, the text without its newline, or all of the line, and *)
(* so that a line can be glued to an unfinished one before it.  Every call *)
(* of the journal runs to its end without yielding, and one process at a   *)
(* time has the run open: an action is one call with one of its outcomes.  *)
(* A crash inside a call shows on disk as one of the failed outcomes       *)
(* followed by Crash.                                                      *)
(*                                                                         *)
(* The file object buffers: a flush that fails has written a prefix of the *)
(* buffer and keeps the rest for the next flush.  A file object that is    *)
(* dropped is closed by the interpreter, which tries once more to flush.   *)
(*                                                                         *)
(* A close() that raises drops the file object and leaves the journal      *)
(* open: what is emitted next goes behind the text that it cut, and makes  *)
(* one line with it.                                                       *)
(***************************************************************************)
EXTENDS Naturals, Sequences, FiniteSetsExt

CONSTANTS
  MaxCalls,     \* bound: events serialized in a behaviour
  MaxFaults,    \* bound: failing I/O calls in a behaviour
  MaxCrashes    \* bound: crashes in a behaviour

ASSUME BoundAssumption == MaxCalls \in Nat /\ MaxFaults \in Nat /\ MaxCrashes \in Nat

VARIABLES
  file,         \* events.jsonl
  synced,       \* length of the prefix an fsync has put on the disk
  journal,      \* no object, an open one, or a closed one
  handle,       \* whether _fh is an open file object
  buffer,       \* what the file object has not written yet
  seq,          \* _seq
  events,       \* _events
  summary,      \* the events summary.json was computed from
  snapshot,     \* the events learning_snapshot.json was computed from
  calls,        \* events serialized so far
  faults,       \* failing I/O calls so far
  crashes,      \* crashes so far
  cut,          \* history: the file ends in text that a close() which raised cut
  glued,        \* history: the events returned whose line went behind such text
  returned      \* history: the events that an emit() returned

object  == <<handle, buffer, seq, events>>
disk    == <<file, synced>>
caches  == <<summary, snapshot>>
history == <<cut, glued, returned>>
vars    == <<disk, journal, object, caches, calls, faults, crashes, history>>

Event   == [n : Nat, call : Nat]
NoEvent == [n |-> 0, call |-> 0]
Piece   == [event : Event, part : {"left", "right", "newline"}]

Left(e)  == [event |-> e, part |-> "left"]
Right(e) == [event |-> e, part |-> "right"]
Newline  == [event |-> NoEvent, part |-> "newline"]

Init ==
  /\ file = <<>> /\ synced = 0
  /\ journal = "absent"
  /\ handle = FALSE /\ buffer = <<>> /\ seq = 0 /\ events = {}
  /\ summary = {} /\ snapshot = {}
  /\ calls = 0 /\ faults = 0 /\ crashes = 0
  /\ cut = FALSE /\ glued = {} /\ returned = {}
-----------------------------------------------------------------------------
(***************************************************************************)
(* What _scan_existing makes of a file f: a line that is an event and      *)
(* nothing else is a record, any other text is torn.                       *)
(***************************************************************************)
Prefix(s, k) == SubSeq(s, 1, k)

Reads(f, i) ==
  /\ i + 2 <= Len(f)
  /\ i = 1 \/ f[i - 1] = Newline
  /\ f[i] = Left(f[i].event) /\ f[i + 1] = Right(f[i].event) /\ f[i + 2] = Newline

Records(f) == {f[i].event : i \in {j \in 1..Len(f) : Reads(f, j)}}

Torn(f) == {f[i].event : i \in {j \in 1..Len(f) : f[j] # Newline}} \ Records(f)

TornTail(f) == f # <<>> /\ f[Len(f)] # Newline

Damaged(f) == TornTail(f) \/ Torn(f) # {}

\* Mutant of LastNumber: the record with the last number is left out.
LastNumberOfOthers(f) ==
  Max({0} \cup {e.n : e \in {d \in Records(f) : \E c \in Records(f) : d.n < c.n}})

LastNumber(f) == Max({0} \cup {e.n : e \in Records(f)})
-----------------------------------------------------------------------------
(***************************************************************************)
(* _append.  An event gets the number after the last one, and its line     *)
(* goes behind what the file object still holds.  The newline that ends a  *)
(* torn tail (_pending_newline) is owed only inside the constructor, which *)
(* emits journal.recovered whenever there is a torn tail.                  *)
(***************************************************************************)
NextEvent(last) == [n |-> last + 1, call |-> calls + 1]

Line(e) == <<Left(e), Right(e), Newline>>

\* Mutant of PendingNewline: the torn tail is never ended.
PendingNewlineForgotten(f) == <<>>

PendingNewline(f) == IF TornTail(f) THEN <<Newline>> ELSE <<>>

IOFails == faults < MaxFaults /\ faults' = faults + 1

\* The line is written and synced; only then do the number and the memory advance.
Appended(data, e, known) ==
  /\ file' = file \o data /\ synced' = Len(file')
  /\ journal' = "open" /\ handle' = TRUE
  /\ buffer' = <<>> /\ seq' = e.n
  /\ events' = known \cup {e}
  /\ returned' = returned \cup {e}
  /\ UNCHANGED faults

\* open() fails: nothing was written.
OpenFailed ==
  /\ ~handle /\ IOFails
  /\ UNCHANGED <<disk, journal, object, history>>

\* Mutant of AppendFailed: the event is remembered before it is written.
AppendFailedRemembers(data) ==
  /\ IOFails
  /\ \E k \in 0..Len(data) :
       file' = file \o Prefix(data, k) /\ buffer' = SubSeq(data, k + 1, Len(data))
  /\ handle' = TRUE
  /\ events' = events \cup {data[Len(data) - 1].event}
  /\ UNCHANGED <<synced, journal, seq, returned>>

\* flush() has written a prefix, or fsync() fails and all of it is written.
AppendFailed(data) ==
  /\ IOFails
  /\ \E k \in 0..Len(data) :
       file' = file \o Prefix(data, k) /\ buffer' = SubSeq(data, k + 1, Len(data))
  /\ handle' = TRUE
  /\ UNCHANGED <<synced, journal, seq, events, returned>>

\* emit() asks for nothing but an open journal, whatever close() has raised.
Emit ==
  /\ journal = "open" /\ calls < MaxCalls
  /\ LET e    == NextEvent(seq)
         data == buffer \o Line(e)
     IN  \/ /\ Appended(data, e, events)
            /\ glued' = glued \cup (IF cut THEN {e} ELSE {})
            /\ cut' = FALSE
         \/ AppendFailed(data) /\ cut' = FALSE /\ UNCHANGED glued
         \/ OpenFailed
  /\ calls' = calls + 1
  /\ UNCHANGED <<caches, crashes>>
-----------------------------------------------------------------------------
(***************************************************************************)
(* RunJournal(ctx).  A clean file is taken as it is; one with torn text    *)
(* gets a journal.recovered event before the constructor returns.          *)
(***************************************************************************)
NoObject ==
  /\ handle' = FALSE /\ buffer' = <<>> /\ seq' = 0 /\ events' = {}

\* Mutants of OpenClean: the numbers start again, or what the file holds is forgotten.
OpenCleanRenumbers ==
  /\ ~Damaged(file)
  /\ journal' = "open" /\ handle' = FALSE /\ buffer' = <<>>
  /\ seq' = 0 /\ events' = Records(file)
  /\ UNCHANGED <<disk, calls, faults, returned>>

OpenCleanForgets ==
  /\ ~Damaged(file)
  /\ journal' = "open" /\ handle' = FALSE /\ buffer' = <<>>
  /\ seq' = LastNumber(file) /\ events' = {}
  /\ UNCHANGED <<disk, calls, faults, returned>>

OpenClean ==
  /\ ~Damaged(file)
  /\ journal' = "open" /\ handle' = FALSE /\ buffer' = <<>>
  /\ seq' = LastNumber(file) /\ events' = Records(file)
  /\ UNCHANGED <<disk, calls, faults, returned>>

\* The emit of journal.recovered raises: there is no object, and its file
\* object may have written any prefix when it was dropped.
ConstructorFailed(data) ==
  /\ IOFails
  /\ \E k \in 0..Len(data) : file' = file \o Prefix(data, k)
  /\ journal' = "absent" /\ NoObject
  /\ UNCHANGED <<synced, returned>>

OpenTorn ==
  /\ Damaged(file) /\ calls < MaxCalls
  /\ LET e    == NextEvent(LastNumber(file))
         data == PendingNewline(file) \o Line(e)
     IN  Appended(data, e, Records(file)) \/ ConstructorFailed(data)
  /\ calls' = calls + 1

Open ==
  /\ journal # "open"
  /\ OpenClean \/ OpenTorn
  /\ cut' = FALSE
  /\ UNCHANGED <<caches, crashes, glued>>
-----------------------------------------------------------------------------
(***************************************************************************)
(* close(): flush, sync and close the file, then write the projections.    *)
(***************************************************************************)
\* The file object is dropped whatever failed, and the object stays open.
CloseFailed ==
  /\ journal = "open" /\ handle /\ IOFails
  /\ \E k \in 0..Len(buffer) : file' = file \o Prefix(buffer, k)
  /\ handle' = FALSE /\ buffer' = <<>> /\ cut' = TornTail(file')
  /\ UNCHANGED <<synced, journal, seq, events, caches>>

\* Each projection is replaced atomically; the second may fail after the first.
Project ==
  \/ summary' = events /\ snapshot' = events /\ UNCHANGED faults
  \/ summary' \in {summary, events} /\ UNCHANGED snapshot /\ IOFails

CloseFile ==
  /\ file' = file \o buffer
  /\ synced' = IF handle THEN Len(file') ELSE synced
  /\ journal' = "closed" /\ handle' = FALSE /\ buffer' = <<>>
  /\ Project
  /\ UNCHANGED <<seq, events, cut>>

Close ==
  /\ journal # "absent"
  /\ CloseFailed \/ CloseFile
  /\ UNCHANGED <<calls, crashes, glued, returned>>

\* write_summary() and write_learning_snapshot(), in any state of the object.
WriteSummary ==
  /\ journal # "absent" /\ summary' = events
  /\ UNCHANGED <<disk, journal, object, snapshot, calls, faults, crashes, history>>

WriteSnapshot ==
  /\ journal # "absent" /\ snapshot' = events
  /\ UNCHANGED <<disk, journal, object, summary, calls, faults, crashes, history>>

\* abandon(): the file object is closed, its errors are ignored.
Abandon ==
  /\ journal # "absent"
  /\ \E k \in 0..Len(buffer) : file' = file \o Prefix(buffer, k)
  /\ journal' = "closed" /\ handle' = FALSE /\ buffer' = <<>>
  /\ UNCHANGED <<synced, seq, events, caches, calls, faults, crashes, history>>

\* The process dies, or the machine does and what was not synced may be lost.
Crash ==
  /\ crashes < MaxCrashes /\ crashes' = crashes + 1
  /\ \E k \in synced..Len(file) : file' = Prefix(file, k)
  /\ journal' = "absent" /\ NoObject /\ cut' = FALSE
  /\ UNCHANGED <<synced, caches, calls, faults, glued, returned>>

Next ==
  Open \/ Emit \/ Close \/ WriteSummary \/ WriteSnapshot \/ Abandon \/ Crash

Spec == Init /\ [][Next]_vars
-----------------------------------------------------------------------------
TypeOK ==
  /\ file \in Seq(Piece) /\ buffer \in Seq(Piece)
  /\ synced \in 0..Len(file)
  /\ journal \in {"absent", "open", "closed"}
  /\ handle \in BOOLEAN /\ cut \in BOOLEAN
  /\ seq \in Nat
  /\ events \subseteq Event /\ summary \subseteq Event /\ snapshot \subseteq Event
  /\ glued \subseteq Event /\ returned \subseteq Event
  /\ calls \in Nat /\ faults \in Nat /\ crashes \in Nat

\* What a reopened journal does not know any more although an emit() returned it.
Lost == glued \ events

\* "Each event is flushed and fsynced before seq advances, so a torn final
\* record can only ever lose the event being written": an event that an emit()
\* returned can be read from the part of the file a crash leaves alone.  The
\* code does not keep this: see Durable.
TornLosesOnlyUnwritten == returned \subseteq Records(Prefix(file, synced))

\* An event that an emit() returned can be read from the part of the file a
\* crash leaves alone, whatever failed before or after it and however often the
\* run was reopened, unless it is the first one behind the text that a close()
\* which raised cut: a raised close() costs one acknowledged event at most.
Durable == returned \ Records(Prefix(file, synced)) \subseteq glued

\* An emit() returns a number above every number returned before it, in this
\* process or in one that crashed ("the sequence continues after the last
\* valid record"), but for the numbers of the events that the file lost.
NumbersAdvance ==
  [][\A e \in returned' \ returned : \A d \in returned \ Lost' : d.n < e.n]_vars

\* The records of the file are in the order of their numbers, failed and
\* recovered writes included ("a later retry cannot tear the record ordering"),
\* as long as no reopening has forgotten an acknowledged event.
FileInOrder ==
  Lost = {} =>
    \A i, j \in 1..Len(file) :
      i < j /\ Reads(file, i) /\ Reads(file, j) => file[i].event.n <= file[j].event.n

\* What an object remembers is in the file, so that no projection it writes
\* shows an event the journal does not hold, but for one glued to cut text.
MemoryInFile == journal # "absent" => events \ Records(file) \subseteq glued

\* A projection written after a restart still covers the acknowledged events
\* of the projection it replaces ("summaries written after a restart cover
\* pre-crash history too"), but for those that the file lost.
ProjectionsGrow ==
  [][/\ summary \cap returned \subseteq summary' \cup Lost
     /\ snapshot \cap returned \subseteq snapshot' \cup Lost]_vars
=============================================================================
