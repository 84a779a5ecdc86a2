---------------------------- MODULE ActionQueue ----------------------------
(* The dashboard's request queue: a journal of accepted requests, archives *)
(* of it with their receipts, and the one server process that owns them.   *)
(* Requests are served one at a time under the queue's lock, in steps, one *)
(* per file operation; any of these may fail, and between any two of them  *)
(* the process may be killed or the machine lose power.                    *)
EXTENDS Naturals, FiniteSets, Sequences

CONSTANTS
  Ids,         \* request ids
  Actions,     \* what an action request asks: template, priority, context
  Models,      \* contents of the pinned model and template registry
  Journals,    \* the journals a server may find when it first starts
  Calls,       \* the requests clients send: an id and what it asks
  MaxFaults, MaxEvents   \* bounds: file errors; stops, power failures and edits

Legacy == [id |-> "legacy", ask |-> "legacy", at |-> 0, model |-> "none"]
NoCall == [id |-> "none", ask |-> "none"]
Startup == [id |-> "none", ask |-> "start"]

\* Whoever asks for a change names the request (_canonical_uuid).
ASSUME CallsAssumption ==
  /\ Calls \subseteq [id : Ids, ask : Actions \cup {"archive"}] \cup [id : {"none"}, ask : {"read"}]
  /\ Actions \cap {"archive", "read", "none", "start", "legacy"} = {}
  /\ "none" \notin Ids /\ "legacy" \notin Ids
  /\ "none" \notin Models /\ "torn" \notin Models

ASSUME BoundsAssumption == MaxFaults \in Nat /\ MaxEvents \in Nat

RowsOf(asks) == [id : Ids, ask : asks, at : Nat, model : Models] \cup {Legacy}

\* No journal names a request twice: _validated_history opens no other.
ASSUME JournalsAssumption ==
  \A rows \in Journals :
    rows \in Seq(RowsOf(Actions)) /\ \A i, j \in DOMAIN rows : rows[i].id = rows[j].id => i = j

VARIABLES
  fs,         \* the files as the process sees them
  survivors,  \* what may be left of them after a power failure
  model,      \* the model on disk, or "torn": not matching its manifest
  pinned,     \* the model this process pinned, "none" if it could not
  pc, call, draft, clock,
  uncertain,  \* _durability_uncertain
  lost,       \* _history_error: unavailable until a restart
  told,       \* rows and archives that were ever shown or receipted
  faults, events

memory == <<pinned, pc, call, draft, uncertain, lost>>
disk == <<fs, survivors>>
bounds == <<faults, events>>
vars == <<disk, model, memory, clock, told, bounds>>

-----------------------------------------------------------------------------
(* What the files say *)

\* A receipt and its data share a file name: the time and the request.
Name(a) == <<a.at, a.id>>
Names(S) == {Name(a) : a \in S}
Pending(f) == {a \in f.receipts : Name(a) \notin Names(f.data)}

Resumable(f) ==
  /\ Names(f.data) \subseteq Names(f.receipts)
  /\ Cardinality(Pending(f)) <= 1
  /\ \A a \in Pending(f) : a.rows = f.inbox

\* Mutant: the archive is created empty and the journal unlinked.
MoveInboxEmpty(f, a) ==
  [f EXCEPT !.data = @ \cup {[a EXCEPT !.rows = <<>>]}, !.inbox = <<>>, !.has = FALSE]

\* Mutant: the journal is copied to its archive and stays.
MoveInboxCopied(f, a) == [f EXCEPT !.data = @ \cup {[a EXCEPT !.rows = f.inbox]}]

MoveInbox(f, a) == [f EXCEPT !.data = @ \cup {[a EXCEPT !.rows = f.inbox]}, !.inbox = <<>>, !.has = FALSE]

Resumed(f) == IF Pending(f) = {} THEN f ELSE MoveInbox(f, CHOOSE a \in Pending(f) : TRUE)

\* Every row of every file, with its place.
Entries(f) ==
  LET Of(file, rows) == {[file |-> file, n |-> i, row |-> rows[i]] : i \in DOMAIN rows}
  IN  Of(<<0, "inbox">>, f.inbox) \cup UNION {Of(Name(a), a.rows) : a \in f.data}
Rows(f) == {e.row : e \in Entries(f)}

\* Receipts match their data, and no identity is used twice.
Valid(f) ==
  /\ f.receipts = f.data
  /\ \A a, b \in f.receipts : a.id = b.id => a = b
  /\ \A x, y \in Entries(f) : x.row.id = y.row.id => x = y
  /\ \A x \in Entries(f), a \in f.receipts : x.row.id # a.id

Init ==
  /\ \E rows \in Journals :
       fs = [inbox |-> rows, has |-> rows # <<>>, receipts |-> {}, data |-> {}, temps |-> {}]
  /\ survivors = {fs}
  /\ model \in Models /\ pinned = "none"
  /\ pc = "down" /\ call = NoCall /\ draft = NoCall /\ clock = 0
  /\ uncertain = FALSE /\ lost = FALSE /\ told = {}
  /\ faults = 0 /\ events = 0

-----------------------------------------------------------------------------
(* File operations *)

Goto(label) == pc' = label
Return == Goto("idle") /\ call' = NoCall /\ draft' = NoCall
Refuse == Return /\ UNCHANGED <<disk, uncertain, lost>>

\* A change of names is visible at once and durable once synced.
Change(f) == fs' = f /\ survivors' = survivors \cup {f}
Sync == UNCHANGED fs /\ survivors' = {fs}
Fault == faults < MaxFaults /\ faults' = faults + 1
NoFault == UNCHANGED faults

\* A failed write tries to remove its temporary file.
Leftovers(temp) == \E left \in {{}, {temp}} : Change([fs EXCEPT !.temps = (@ \ {temp}) \cup left])

GiveUp ==
  /\ Return
  /\ lost' = (lost \/ call = Startup)
  /\ UNCHANGED uncertain

Quiet == UNCHANGED <<model, pinned, clock, told, events>>

-----------------------------------------------------------------------------
(* Starting, and making the history available again *)

\* The model and its manifest agree and satisfy the model's schema.
Loadable == model # "torn"

\* The model on disk is still the one this process pinned.
Current == Loadable /\ model = pinned

\* Mutant: the hash is taken from a model its manifest does not match.
StartTorn ==
  /\ pc = "down" /\ pinned' = model /\ Goto("tidy") /\ call' = Startup
  /\ UNCHANGED <<disk, model, draft, clock, uncertain, lost, told, bounds>>

Start ==
  /\ pc = "down"
  /\ pinned' = IF Loadable THEN model ELSE "none"
  /\ Goto("tidy") /\ call' = Startup
  /\ UNCHANGED <<disk, model, draft, clock, uncertain, lost, told, bounds>>

\* Abandoned temporaries of the inbox, then those of the archive.
Tidy ==
  LET temp == IF "inbox" \in fs.temps THEN "inbox" ELSE "archive"
      without == [fs EXCEPT !.temps = @ \ {temp}]
  IN  /\ pc = "tidy" /\ Quiet
      /\ \/ /\ fs.temps = {} /\ Goto("resume") /\ NoFault
            /\ UNCHANGED <<disk, call, draft, uncertain, lost>>
         \/ /\ fs.temps # {} /\ NoFault
            /\ fs' = without /\ survivors' = {without}
            /\ UNCHANGED <<pc, call, draft, uncertain, lost>>
         \/ /\ fs.temps # {} /\ Fault /\ GiveUp
            /\ UNCHANGED disk \/ Change(without)

\* Mutant: an unfinished archive is completed only by a restart.
ResumeAtStart ==
  /\ pc = "resume" /\ Quiet
  /\ \/ /\ Resumable(fs) /\ Pending(fs) = {} /\ Goto("sync") /\ NoFault
        /\ UNCHANGED <<disk, call, draft, uncertain, lost>>
     \/ /\ Resumable(fs) /\ Pending(fs) # {} /\ call = Startup /\ NoFault
        /\ Change(Resumed(fs)) /\ Goto("resumed")
        /\ UNCHANGED <<call, draft, uncertain, lost>>
     \/ (~Resumable(fs) \/ Pending(fs) # {}) /\ call # Startup /\ GiveUp /\ NoFault /\ UNCHANGED disk

\* An archive whose receipt was written and whose rows were not moved.
Resume ==
  /\ pc = "resume" /\ Quiet
  /\ \/ /\ Resumable(fs) /\ Pending(fs) = {} /\ Goto("sync") /\ NoFault
        /\ UNCHANGED <<disk, call, draft, uncertain, lost>>
     \/ /\ Resumable(fs) /\ Pending(fs) # {} /\ NoFault
        /\ Change(Resumed(fs)) /\ Goto("resumed")
        /\ UNCHANGED <<call, draft, uncertain, lost>>
     \/ /\ Resumable(fs) /\ Pending(fs) # {} /\ Fault /\ GiveUp
        /\ IF fs.has THEN UNCHANGED disk ELSE Leftovers("archive")
     \/ /\ ~Resumable(fs) /\ GiveUp /\ NoFault /\ UNCHANGED disk

SyncResumed ==
  /\ pc = "resumed" /\ Quiet
  /\ \/ /\ Sync /\ Goto("sync") /\ NoFault /\ UNCHANGED <<call, draft, uncertain, lost>>
     \/ /\ GiveUp /\ Fault /\ UNCHANGED disk

\* Mutant: a failed sync at the start is forgotten.
SyncAllAtStart ==
  /\ pc = "sync" /\ Quiet
  /\ \/ /\ call = Startup /\ ~Valid(fs) /\ GiveUp /\ NoFault /\ UNCHANGED disk
     \/ /\ call = Startup /\ Valid(fs) /\ Return /\ UNCHANGED <<lost, uncertain>>
        /\ (Sync /\ NoFault) \/ (UNCHANGED disk /\ Fault)
     \/ /\ call # Startup /\ Sync /\ NoFault
        /\ Goto("serve") /\ uncertain' = FALSE /\ UNCHANGED <<call, draft, lost>>
     \/ call # Startup /\ Fault /\ Refuse

\* At the start the history is validated before it is synced, and a failed
\* sync is tried again by the first request.
SyncAll ==
  /\ pc = "sync" /\ Quiet
  /\ \/ /\ call = Startup /\ ~Valid(fs) /\ GiveUp /\ NoFault /\ UNCHANGED disk
     \/ /\ call = Startup /\ Valid(fs) /\ Return /\ UNCHANGED lost
        /\ \/ Sync /\ NoFault /\ UNCHANGED uncertain
           \/ UNCHANGED disk /\ Fault /\ uncertain' = TRUE
     \/ /\ call # Startup /\ Sync /\ NoFault
        /\ Goto("serve") /\ uncertain' = FALSE /\ UNCHANGED <<call, draft, lost>>
     \/ call # Startup /\ Fault /\ Refuse

-----------------------------------------------------------------------------
(* Serving one request *)

Request(c) ==
  /\ pc = "idle" /\ ~lost /\ Current
  /\ call' = c /\ Goto(IF uncertain THEN "tidy" ELSE "serve")
  /\ UNCHANGED <<disk, model, pinned, draft, clock, uncertain, lost, told, bounds>>

Used(id) == {r \in Rows(fs) : r.id = id}
Archives(id) == {a \in fs.receipts : a.id = id}
Tell(S) == told' = told \cup S /\ Refuse /\ UNCHANGED clock
Draft(d) == draft' = d /\ clock' = clock + 1 /\ Goto("temp") /\ UNCHANGED <<call, told, disk, uncertain, lost>>
NewRow == [id |-> call.id, ask |-> call.ask, at |-> clock + 1, model |-> pinned]
NewArchive == [id |-> call.id, at |-> clock + 1, rows |-> fs.inbox]

\* Mutant: only the journal is searched for the id, not the archives.
EnqueueActive ==
  /\ call.ask \in Actions /\ Valid(fs)
  /\ LET used == {fs.inbox[i] : i \in {j \in DOMAIN fs.inbox : fs.inbox[j].id = call.id}}
     IN  \/ Archives(call.id) # {} /\ Tell({})
         \/ Archives(call.id) = {} /\ used # {} /\ Tell({r \in used : r.ask = call.ask /\ r.model = pinned})
         \/ Archives(call.id) = {} /\ used = {} /\ Draft(NewRow)

Enqueue ==
  /\ call.ask \in Actions /\ Valid(fs)
  /\ \/ Archives(call.id) # {} /\ Tell({})
     \/ /\ Archives(call.id) = {} /\ Used(call.id) # {}
        /\ Tell({r \in Used(call.id) : r.ask = call.ask /\ r.model = pinned})
     \/ Archives(call.id) = {} /\ Used(call.id) = {} /\ Draft(NewRow)

Archive ==
  /\ call.ask = "archive" /\ Valid(fs)
  /\ \/ Archives(call.id) # {} /\ Tell(Archives(call.id))
     \/ Archives(call.id) = {} /\ Used(call.id) # {} /\ Tell({})
     \/ Archives(call.id) = {} /\ Used(call.id) = {} /\ Draft(NewArchive)

Read == call.ask = "read" /\ Valid(fs) /\ Tell({fs.inbox[i] : i \in DOMAIN fs.inbox})
Corrupt == ~Valid(fs) /\ Tell({})

Serve ==
  /\ pc = "serve"
  /\ Enqueue \/ Archive \/ Read \/ Corrupt
  /\ UNCHANGED <<model, pinned, bounds>>

-----------------------------------------------------------------------------
(* Writing what was accepted *)

IsArchive == call.ask = "archive"
Temp == IF IsArchive THEN "archive" ELSE "inbox"
Step(label) == Goto(label) /\ NoFault /\ UNCHANGED <<call, draft, uncertain, lost>>

\* The error reaches the client as "unavailable": what was done stands, and
\* the next request makes it durable before it looks at it.
Fails == Fault /\ uncertain' = TRUE /\ UNCHANGED lost /\ Return

\* A receipt whose rows could not be moved is taken back.
MustRollBack(f) == draft \in f.receipts /\ Name(draft) \notin Names(f.data) /\ f.has
ArchiveFails ==
  /\ Fault /\ uncertain' = TRUE /\ UNCHANGED lost
  /\ IF MustRollBack(fs') THEN Goto("rollback") /\ UNCHANGED <<call, draft>> ELSE Return

WriteTemp ==
  /\ pc = "temp" /\ Quiet
  /\ \/ Change([fs EXCEPT !.temps = @ \cup {Temp}]) /\ Step(IF IsArchive THEN "intent" ELSE "replace")
     \/ Leftovers(Temp) /\ Fails

ReplaceInbox ==
  /\ pc = "replace" /\ Quiet
  /\ \/ /\ Change([fs EXCEPT !.inbox = Append(@, draft), !.has = TRUE, !.temps = @ \ {"inbox"}])
        /\ Step("flush")
     \/ Leftovers("inbox") /\ Fails

Acknowledge ==
  /\ told' = told \cup {draft} /\ Return /\ NoFault
  /\ UNCHANGED <<model, pinned, clock, events, uncertain, lost>>

\* Mutant: an error after the journal was replaced is taken for a refusal.
FlushInboxCalm ==
  /\ pc = "flush"
  /\ \/ Sync /\ Acknowledge
     \/ UNCHANGED <<disk, uncertain, lost>> /\ Fault /\ Return /\ Quiet

FlushInbox ==
  /\ pc = "flush"
  /\ \/ Sync /\ Acknowledge
     \/ UNCHANGED disk /\ Fails /\ Quiet

WriteReceipt ==
  /\ pc = "intent" /\ Quiet
  /\ \/ /\ Change([fs EXCEPT !.receipts = @ \cup {draft}, !.temps = @ \ {"archive"}])
        /\ Step("commit")
     \/ Leftovers("archive") /\ ArchiveFails

CommitReceipt ==
  /\ pc = "commit" /\ Quiet
  /\ \/ Sync /\ Step("move")
     \/ UNCHANGED disk /\ ArchiveFails

\* The journal is renamed; an archive of nothing is written empty.
MoveRows ==
  /\ pc = "move" /\ Quiet
  /\ \/ Change(MoveInbox(fs, draft)) /\ Step("moved")
     \/ /\ IF fs.has THEN UNCHANGED disk ELSE Leftovers("archive")
        /\ ArchiveFails

FlushArchive ==
  /\ pc = "moved"
  /\ \/ Sync /\ Acknowledge
     \/ UNCHANGED disk /\ ArchiveFails /\ Quiet

RollBack ==
  LET without == [fs EXCEPT !.receipts = @ \ {draft}]
  IN  /\ pc = "rollback" /\ Quiet /\ Return /\ UNCHANGED <<uncertain, lost>>
      /\ \/ fs' = without /\ survivors' = {without} /\ NoFault
         \/ (UNCHANGED disk \/ Change(without)) /\ Fault

-----------------------------------------------------------------------------
(* The world *)

Stop ==
  /\ pc # "down" /\ events < MaxEvents /\ events' = events + 1
  /\ Goto("down") /\ call' = NoCall /\ draft' = NoCall /\ pinned' = "none"
  /\ uncertain' = FALSE /\ lost' = FALSE
  /\ UNCHANGED <<model, clock, told, faults>>

Kill == Stop /\ UNCHANGED disk
PowerLoss == Stop /\ fs' \in survivors /\ survivors' = {fs'}

EditModel ==
  /\ events < MaxEvents /\ events' = events + 1
  /\ model' \in (Models \cup {"torn"}) \ {model}
  /\ UNCHANGED <<disk, memory, clock, told, faults>>

Recovery == Tidy \/ Resume \/ SyncResumed \/ SyncAll
Writing ==
  \/ WriteTemp \/ ReplaceInbox \/ FlushInbox
  \/ WriteReceipt \/ CommitReceipt \/ MoveRows \/ FlushArchive \/ RollBack
Work == Recovery \/ Serve \/ Writing

Next == Start \/ (\E c \in Calls : Request(c)) \/ Work \/ Kill \/ PowerLoss \/ EditModel

\* The server goes on with a request it has taken, and a client repeats
\* its request until it is answered.
Fairness ==
  /\ WF_vars(Work) /\ WF_vars(Start)
  /\ \A c \in {d \in Calls : d.id \in Ids} : SF_vars(Request(c))
Spec == Init /\ [][Next]_vars /\ Fairness

-----------------------------------------------------------------------------
(* What holds *)

ArchiveRecords == [id : Ids, at : Nat, rows : Seq(RowsOf(Actions))]
Files == [inbox : Seq(RowsOf(Actions)), has : BOOLEAN, receipts : SUBSET ArchiveRecords,
          data : SUBSET ArchiveRecords, temps : SUBSET {"inbox", "archive"}]

\* The type of every variable; what the process sees is one of the states a
\* power failure may leave, and an empty journal exists only as a file.
TypeOK ==
  /\ survivors \subseteq Files /\ fs \in survivors
  /\ \A f \in survivors : f.inbox # <<>> => f.has
  /\ model \in Models \cup {"torn"} /\ pinned \in Models \cup {"none"}
  /\ pc \in {"down", "idle", "tidy", "resume", "resumed", "sync", "serve", "temp", "replace",
            "flush", "intent", "commit", "move", "moved", "rollback"}
  /\ call \in Calls \cup {NoCall, Startup}
  /\ draft \in RowsOf(Actions) \cup ArchiveRecords \cup {NoCall}
  /\ told \subseteq RowsOf(Actions) \cup ArchiveRecords
  /\ clock \in Nat /\ uncertain \in BOOLEAN /\ lost \in BOOLEAN
  /\ faults \in 0..MaxFaults /\ events \in 0..MaxEvents

\* What a client was told, a row in the journal, a receipt, an archive, is
\* in the journal or its archives whatever fails afterwards: enqueue and
\* archive answer only what is durable, and reads look only at that.
ToldIsDurable == \A f \in survivors : told \subseteq Rows(f) \cup (f.receipts \cap f.data)

\* A request id has one answer: retries, restarts and archives between two
\* attempts never make a second row or a second receipt of it.
OneAnswer == \A x, y \in told : x.id = y.id => x = y

\* Whatever a failure leaves, the next start can open it: at most one
\* archive is unfinished, its rows are still the journal's, and no identity
\* is in two places (_recover_archive_transactions, _validated_history).
AlwaysOpens == \A f \in survivors : Resumable(f) /\ Valid(Resumed(f))

\* A queue that serves and has no doubt has nothing to repair: no
\* unfinished archive, no temporary file, nothing unsynced.
CertainIsClean ==
  (pc = "idle" /\ ~uncertain /\ ~lost) => survivors = {fs} /\ Pending(fs) = {} /\ fs.temps = {}

\* No failure needs a person: a start finds files it can open, and a server
\* that has no doubt left nothing to repair.
Repairable == TypeOK /\ AlwaysOpens /\ CertainIsClean

\* While the server runs with the model it pinned and can read its history,
\* a client that repeats its request is answered, or its id turns out to be
\* taken: doubt after an error is overcome without a restart.
Available == pc # "down" /\ ~lost /\ Current
Settled(id) == \E x \in told \cup {r \in Rows(fs) : r.model # pinned} : x.id = id
Answered == \A id \in Ids : <>[]Available => <>Settled(id)
=============================================================================
