------------------------- MODULE ActionQueueProofs -------------------------
(***************************************************************************)
(* Proofs about the dashboard's request queue, for any number of clients,  *)
(* requests, file errors, stops and power failures at any moment.          *)
(***************************************************************************)
EXTENDS ActionQueue, FiniteSetTheorems, SequenceTheorems, TLAPS

-----------------------------------------------------------------------------
(* The inductive invariant.                                                *)

Distinct(rows) == \A i, j \in DOMAIN rows : rows[i].id = rows[j].id => i = j
Apart(rows, others) == \A i \in DOMAIN rows, j \in DOMAIN others : rows[i].id # others[j].id

\* Archives are receipts whose rows were moved; one at most is still to be
\* moved, and its rows are the journal's. No identity is in two places.
Sound(f) ==
  /\ f.data \subseteq f.receipts
  /\ \A a, b \in f.receipts : a.id = b.id => a = b
  /\ \A a, b \in f.receipts \ f.data : a = b
  /\ \A a \in f.receipts \ f.data : a.rows = f.inbox
  /\ Distinct(f.inbox)
  /\ \A a \in f.data : Distinct(a.rows) /\ Apart(f.inbox, a.rows)
  /\ \A a, b \in f.data : a # b => Apart(a.rows, b.rows)
  /\ \A r \in Rows(f), a \in f.receipts : r.id # a.id

\* What was told is there.
Keeps(f) == told \subseteq Rows(f) \cup f.data

Fresh(f, id) == (\A a \in f.receipts : a.id # id) /\ (\A r \in Rows(f) : r.id # id)

Recovering == {"tidy", "resume", "resumed", "sync"}
WritesRow == {"replace", "flush"}
WritesArchive == {"intent", "commit", "move", "moved", "rollback"}
Settles == {"resumed", "sync", "serve", "temp"} \cup WritesRow \cup {"intent", "moved"}

\* A repair is made by a start or by a request that finds a doubt.
Serving ==
  /\ pc \in Recovering => call = Startup \/ (call \in Calls /\ uncertain)
  /\ pc \notin Recovering \cup {"down", "idle"} => call \in Calls
  /\ call \in Calls => pinned \in Models
  /\ pc \in WritesRow => call.ask \in Actions
  /\ pc \in WritesArchive => call.ask = "archive"
  /\ pc = "temp" => call.ask \in Actions \cup {"archive"}
  /\ pc = "rollback" => uncertain

\* What the steps so far have left in the files.
Steady ==
  /\ pc = "serve" => survivors = {fs}
  /\ pc \in {"resume", "resumed", "sync", "serve", "temp", "flush", "commit", "move", "moved"} => fs.temps = {}
  /\ pc = "replace" => fs.temps = {"inbox"}
  /\ pc = "intent" => fs.temps = {"archive"}
  /\ pc \in Settles => fs.receipts = fs.data

Drafted ==
  /\ pc = "replace" \/ (pc = "temp" /\ call.ask \in Actions) =>
       draft \in RowsOf(Actions) /\ Fresh(fs, draft.id)
  /\ pc = "flush" => draft \in Rows(fs)
  /\ pc = "intent" \/ (pc = "temp" /\ call.ask = "archive") =>
       draft \in ArchiveRecords /\ draft.rows = fs.inbox /\ Fresh(fs, draft.id)
  /\ pc \in {"commit", "move", "rollback"} => draft \in fs.receipts \ fs.data
  /\ pc = "moved" => draft \in fs.data


\* What the files may look like after any failure.
Good(f) == f \in Files /\ (f.inbox # <<>> => f.has) /\ Sound(f)

DiskInv == fs \in survivors /\ \A f \in survivors : Good(f) /\ Keeps(f)

MemoryTypes ==
  /\ model \in Models \cup {"torn"} /\ pinned \in Models \cup {"none"}
  /\ pc \in {"down", "idle", "tidy", "resume", "resumed", "sync", "serve", "temp", "replace",
            "flush", "intent", "commit", "move", "moved", "rollback"}
  /\ call \in Calls \cup {NoCall, Startup}
  /\ draft \in RowsOf(Actions) \cup ArchiveRecords \cup {NoCall}
  /\ told \subseteq RowsOf(Actions) \cup ArchiveRecords
  /\ clock \in Nat /\ uncertain \in BOOLEAN /\ lost \in BOOLEAN
  /\ faults \in 0..MaxFaults /\ events \in 0..MaxEvents

QueueInv == DiskInv /\ MemoryTypes /\ Serving /\ Steady /\ Drafted /\ CertainIsClean

-----------------------------------------------------------------------------
(* The files.                                                              *)

LEMMA RowsIn ==
  ASSUME NEW f, NEW r
  PROVE  r \in Rows(f) <=> \/ \E i \in DOMAIN f.inbox : r = f.inbox[i]
                           \/ \E a \in f.data : \E i \in DOMAIN a.rows : r = a.rows[i]
<1>1. ASSUME NEW e \in Entries(f)
      PROVE  \/ \E i \in DOMAIN f.inbox : e.row = f.inbox[i]
             \/ \E a \in f.data : \E i \in DOMAIN a.rows : e.row = a.rows[i]
  BY DEF Entries
<1>2. ASSUME NEW i \in DOMAIN f.inbox
      PROVE  [file |-> <<0, "inbox">>, n |-> i, row |-> f.inbox[i]] \in Entries(f)
  BY DEF Entries
<1>3. ASSUME NEW a \in f.data, NEW i \in DOMAIN a.rows
      PROVE  [file |-> Name(a), n |-> i, row |-> a.rows[i]] \in Entries(f)
  BY DEF Entries
<1>4. ASSUME r \in Rows(f)
      PROVE  \/ \E i \in DOMAIN f.inbox : r = f.inbox[i]
             \/ \E a \in f.data : \E i \in DOMAIN a.rows : r = a.rows[i]
  BY <1>1, <1>4 DEF Rows
<1>5. ASSUME NEW i \in DOMAIN f.inbox, r = f.inbox[i] PROVE r \in Rows(f)
  <2>1. \E e \in Entries(f) : e.row = r
    BY <1>2, <1>5
  <2> QED
    BY <2>1 DEF Rows
<1>6. ASSUME NEW a \in f.data, NEW i \in DOMAIN a.rows, r = a.rows[i] PROVE r \in Rows(f)
  <2>1. \E e \in Entries(f) : e.row = r
    BY <1>3, <1>6
  <2> QED
    BY <2>1 DEF Rows
<1> QED
  BY <1>4, <1>5, <1>6

LEMMA SameRows ==
  ASSUME NEW f, NEW g, f.inbox = g.inbox, f.data = g.data
  PROVE  Rows(f) = Rows(g)
<1>1. \A r : r \in Rows(f) <=> r \in Rows(g)
  BY RowsIn
<1> QED
  BY <1>1

LEMMA FileTypes ==
  ASSUME NEW f \in Files
  PROVE  /\ f.inbox \in Seq(RowsOf(Actions)) /\ f.has \in BOOLEAN
         /\ f.receipts \subseteq ArchiveRecords /\ f.data \subseteq ArchiveRecords
         /\ f.temps \subseteq {"inbox", "archive"}
         /\ Rows(f) \subseteq RowsOf(Actions)
<1>1. /\ f.inbox \in Seq(RowsOf(Actions)) /\ f.has \in BOOLEAN
      /\ f.receipts \subseteq ArchiveRecords /\ f.data \subseteq ArchiveRecords
      /\ f.temps \subseteq {"inbox", "archive"}
  BY DEF Files
<1>2. \A a \in f.data : a.rows \in Seq(RowsOf(Actions))
  BY <1>1 DEF ArchiveRecords
<1>3. Rows(f) \subseteq RowsOf(Actions)
  BY <1>1, <1>2, RowsIn, ElementOfSeq, LenProperties
<1> QED
  BY <1>1, <1>3

\* An archive is pending when its rows were not moved.
LEMMA PendingIs ==
  ASSUME NEW f, Sound(f)
  PROVE  Pending(f) = f.receipts \ f.data
BY DEF Sound, Pending, Names, Name

LEMMA SoundPending ==
  ASSUME NEW f, Sound(f)
  PROVE  Resumable(f)
<1>1. Names(f.data) \subseteq Names(f.receipts)
  BY DEF Names, Sound
<1>2. Cardinality(Pending(f)) <= 1
  <2>1. CASE Pending(f) = {}
    BY <2>1, FS_EmptySet
  <2>2. CASE Pending(f) # {}
    <3>1. PICK a : a \in Pending(f)
      BY <2>2
    <3>2. Pending(f) = {a}
      BY <3>1, PendingIs DEF Sound
    <3>3. Cardinality({a}) = 1
      BY FS_Singleton
    <3> QED
      BY <3>2, <3>3
  <2> QED
    BY <2>1, <2>2
<1> QED
  BY <1>1, <1>2, PendingIs DEF Resumable, Sound

LEMMA SoundValid ==
  ASSUME NEW f, Sound(f), f.receipts = f.data
  PROVE  Valid(f)
<1>1. ASSUME NEW x \in Entries(f)
      PROVE  \/ \E i \in DOMAIN f.inbox : x = [file |-> <<0, "inbox">>, n |-> i, row |-> f.inbox[i]]
             \/ \E a \in f.data : \E i \in DOMAIN a.rows :
                     x = [file |-> Name(a), n |-> i, row |-> a.rows[i]]
  BY DEF Entries
<1>2. \A x, y \in Entries(f) : x.row.id = y.row.id => x = y
  <2> SUFFICES ASSUME NEW x \in Entries(f), NEW y \in Entries(f), x.row.id = y.row.id
               PROVE  x = y
    OBVIOUS
  <2>1. CASE \E i \in DOMAIN f.inbox : x = [file |-> <<0, "inbox">>, n |-> i, row |-> f.inbox[i]]
    <3>1. PICK i \in DOMAIN f.inbox : x = [file |-> <<0, "inbox">>, n |-> i, row |-> f.inbox[i]]
      BY <2>1
    <3>2. ASSUME NEW a \in f.data, NEW j \in DOMAIN a.rows,
                 y = [file |-> Name(a), n |-> j, row |-> a.rows[j]]
          PROVE  FALSE
      BY <3>1, <3>2 DEF Sound, Apart
    <3>3. PICK j \in DOMAIN f.inbox : y = [file |-> <<0, "inbox">>, n |-> j, row |-> f.inbox[j]]
      BY <1>1, <3>2
    <3>4. i = j
      BY <3>1, <3>3 DEF Sound, Distinct
    <3> QED
      BY <3>1, <3>3, <3>4
  <2>2. CASE \E a \in f.data : \E i \in DOMAIN a.rows :
                 x = [file |-> Name(a), n |-> i, row |-> a.rows[i]]
    <3>1. PICK a \in f.data : \E i \in DOMAIN a.rows :
                 x = [file |-> Name(a), n |-> i, row |-> a.rows[i]]
      BY <2>2
    <3>2. PICK i \in DOMAIN a.rows : x = [file |-> Name(a), n |-> i, row |-> a.rows[i]]
      BY <3>1
    <3>3. ASSUME NEW j \in DOMAIN f.inbox,
                 y = [file |-> <<0, "inbox">>, n |-> j, row |-> f.inbox[j]]
          PROVE  FALSE
      BY <3>2, <3>3 DEF Sound, Apart
    <3>4. PICK b \in f.data : \E j \in DOMAIN b.rows :
                 y = [file |-> Name(b), n |-> j, row |-> b.rows[j]]
      BY <1>1, <3>3
    <3>5. PICK j \in DOMAIN b.rows : y = [file |-> Name(b), n |-> j, row |-> b.rows[j]]
      BY <3>4
    <3>6. a = b
      BY <3>2, <3>5 DEF Sound, Apart
    <3>7. i = j
      BY <3>2, <3>5, <3>6 DEF Sound, Distinct
    <3> QED
      BY <3>2, <3>5, <3>6, <3>7
  <2> QED
    BY <1>1, <2>1, <2>2
<1>3. \A x \in Entries(f), a \in f.receipts : x.row.id # a.id
  BY DEF Sound, Rows
<1> QED
  BY <1>2, <1>3 DEF Valid, Sound

-----------------------------------------------------------------------------
(* What the file operations keep.                                          *)

\* Temporary files are not looked at.
LEMMA TempsGood ==
  ASSUME NEW f, Good(f), Keeps(f), NEW T, T \subseteq {"inbox", "archive"},
         NEW g, g = [f EXCEPT !.temps = T]
  PROVE  /\ Good(g) /\ Keeps(g)
         /\ g.inbox = f.inbox /\ g.has = f.has /\ g.receipts = f.receipts /\ g.data = f.data
         /\ g.temps = T /\ Rows(g) = Rows(f)
<1>1. f \in Files
  BY DEF Good
<1>2. /\ g.inbox = f.inbox /\ g.has = f.has /\ g.receipts = f.receipts /\ g.data = f.data
      /\ g.temps = T /\ g \in Files
  BY <1>1 DEF Files
<1>3. Rows(g) = Rows(f)
  BY <1>2, SameRows
<1>4. Sound(g)
  BY <1>2, <1>3 DEF Good, Sound
<1> QED
  BY <1>2, <1>3, <1>4 DEF Good, Keeps

\* The journal becomes the rows of its archive.
LEMMA MoveGood ==
  ASSUME NEW f, Good(f), Keeps(f), NEW a \in f.receipts \ f.data, NEW g, g = MoveInbox(f, a)
  PROVE  /\ Good(g) /\ Keeps(g)
         /\ g.inbox = <<>> /\ ~ g.has /\ g.receipts = f.receipts /\ g.data = f.receipts
         /\ a \in g.data /\ g.temps = f.temps /\ Rows(g) = Rows(f)
<1>1. f \in Files /\ a \in ArchiveRecords /\ a.rows = f.inbox
  BY FileTypes DEF Good, Sound
<1>2. [a EXCEPT !.rows = f.inbox] = a
  BY <1>1 DEF ArchiveRecords
<1>3. f.data \cup {a} = f.receipts
  BY DEF Good, Sound
<1>4. /\ g.inbox = <<>> /\ g.has = FALSE /\ g.receipts = f.receipts /\ g.data = f.data \cup {a}
      /\ g.temps = f.temps /\ g \in Files
  <2>1. g = [f EXCEPT !.data = f.data \cup {a}, !.inbox = <<>>, !.has = FALSE]
    BY <1>2 DEF MoveInbox
  <2>2. PICK d : d = f.data \cup {a}
    OBVIOUS
  <2>3. PICK e \in Seq(RowsOf(Actions)) : e = <<>>
    BY EmptySeq
  <2>4. d \in SUBSET ArchiveRecords
    BY <1>1, <2>2, FileTypes
  <2>5. g = [f EXCEPT !.data = d, !.inbox = e, !.has = FALSE]
    BY <2>1, <2>2, <2>3
  <2>6. /\ g.inbox = e /\ g.has = FALSE /\ g.receipts = f.receipts /\ g.data = d
        /\ g.temps = f.temps /\ g \in Files
    BY <1>1, <2>4, <2>5 DEF Files
  <2> QED
    BY <2>2, <2>3, <2>6
<1>5. DOMAIN g.inbox = {}
  BY <1>4
<1>6. Rows(g) = Rows(f)
  <2>1. ASSUME NEW r
        PROVE  r \in Rows(g) <=> r \in Rows(f)
    <3>1. r \in Rows(g) <=> \E b \in f.data \cup {a} : \E i \in DOMAIN b.rows : r = b.rows[i]
      BY <1>4, <1>5, RowsIn
    <3>2. r \in Rows(f) <=> \/ \E i \in DOMAIN a.rows : r = a.rows[i]
                            \/ \E b \in f.data : \E i \in DOMAIN b.rows : r = b.rows[i]
      BY <1>1, RowsIn
    <3> QED
      BY <3>1, <3>2
  <2> QED
    BY <2>1
<1>7. Sound(g)
  <2>1. \A x, y \in g.receipts : x.id = y.id => x = y
    BY <1>4 DEF Good, Sound
  <2>2. Distinct(g.inbox) /\ \A b \in g.data : Distinct(b.rows) /\ Apart(g.inbox, b.rows)
    BY <1>1, <1>4, <1>5 DEF Good, Sound, Distinct, Apart
  <2>3. \A x, y \in g.data : x # y => Apart(x.rows, y.rows)
    BY <1>1, <1>4 DEF Good, Sound, Apart
  <2>4. \A r \in Rows(g), x \in g.receipts : r.id # x.id
    BY <1>4, <1>6 DEF Good, Sound
  <2> QED
    BY <1>3, <1>4, <2>1, <2>2, <2>3, <2>4 DEF Sound
<1> QED
  BY <1>3, <1>4, <1>6, <1>7 DEF Good, Keeps

\* What the next start finds: the files as they are, or with the one pending
\* archive completed.
LEMMA ResumedIs ==
  ASSUME NEW f, Good(f)
  PROVE  \/ Pending(f) = {} /\ Resumed(f) = f /\ f.receipts = f.data
         \/ \E a \in f.receipts \ f.data : Pending(f) # {} /\ Resumed(f) = MoveInbox(f, a)
<1>1. Pending(f) = f.receipts \ f.data /\ f.data \subseteq f.receipts
  BY PendingIs DEF Good, Sound
<1>2. CASE Pending(f) = {}
  BY <1>1, <1>2 DEF Resumed
<1>3. CASE Pending(f) # {}
  <2>1. (CHOOSE a \in Pending(f) : TRUE) \in Pending(f)
    BY <1>3
  <2> QED
    BY <1>1, <1>3, <2>1 DEF Resumed
<1> QED
  BY <1>2, <1>3

LEMMA ResumedGood ==
  ASSUME NEW f, Good(f), Keeps(f), NEW g, g = Resumed(f)
  PROVE  /\ Good(g) /\ Keeps(g) /\ g.receipts = g.data /\ g.temps = f.temps
         /\ Resumable(f)
<1>1. Resumable(f)
  BY SoundPending DEF Good
<1>2. CASE Pending(f) = {} /\ Resumed(f) = f /\ f.receipts = f.data
  BY <1>1, <1>2
<1>3. ASSUME NEW a \in f.receipts \ f.data, Resumed(f) = MoveInbox(f, a)
      PROVE  Good(g) /\ Keeps(g) /\ g.receipts = g.data /\ g.temps = f.temps
  BY <1>3, MoveGood
<1> QED
  BY <1>1, <1>2, <1>3, ResumedIs

\* A journal with one more row.
OneMore(rows, more, r) ==
  \E n : /\ DOMAIN more = DOMAIN rows \cup {n}
         /\ \A i \in DOMAIN rows : more[i] = rows[i]
         /\ more[n] = r

LEMMA RowsOneMore ==
  ASSUME NEW f, NEW g, NEW r, OneMore(f.inbox, g.inbox, r), g.data = f.data
  PROVE  Rows(g) = Rows(f) \cup {r}
<1>0. PICK n : /\ DOMAIN g.inbox = DOMAIN f.inbox \cup {n}
               /\ \A i \in DOMAIN f.inbox : g.inbox[i] = f.inbox[i]
               /\ g.inbox[n] = r
  BY DEF OneMore
<1>1. ASSUME NEW q PROVE q \in Rows(g) <=> q \in Rows(f) \/ q = r
  <2>1. q \in Rows(g) <=> \/ \E i \in DOMAIN g.inbox : q = g.inbox[i]
                          \/ \E a \in g.data : \E i \in DOMAIN a.rows : q = a.rows[i]
    BY RowsIn
  <2>2. q \in Rows(f) <=> \/ \E i \in DOMAIN f.inbox : q = f.inbox[i]
                          \/ \E a \in f.data : \E i \in DOMAIN a.rows : q = a.rows[i]
    BY RowsIn
  <2>3. ASSUME NEW i \in DOMAIN g.inbox, q = g.inbox[i]
        PROVE  (\E j \in DOMAIN f.inbox : q = f.inbox[j]) \/ q = r
    <3>1. CASE i = n
      BY <1>0, <2>3, <3>1
    <3>2. CASE i \in DOMAIN f.inbox
      <4>1. q = f.inbox[i]
        BY <1>0, <2>3, <3>2
      <4> QED
        BY <3>2, <4>1
    <3> QED
      BY <1>0, <2>3, <3>1, <3>2
  <2>4. ASSUME NEW i \in DOMAIN f.inbox, q = f.inbox[i]
        PROVE  \E j \in DOMAIN g.inbox : q = g.inbox[j]
    <3>1. i \in DOMAIN g.inbox /\ g.inbox[i] = q
      BY <1>0, <2>4
    <3> QED
      BY <3>1
  <2>5. ASSUME q = r PROVE \E j \in DOMAIN g.inbox : q = g.inbox[j]
    <3>1. n \in DOMAIN g.inbox /\ g.inbox[n] = q
      BY <1>0, <2>5
    <3> QED
      BY <3>1
  <2> QED
    BY <1>0, <2>1, <2>2, <2>3, <2>4, <2>5
<1> QED
  BY <1>1

\* A new row in the journal.
WithRow(f, r) == [f EXCEPT !.inbox = Append(@, r), !.has = TRUE, !.temps = {}]

LEMMA RowGood ==
  ASSUME NEW f, Good(f), Keeps(f), f.receipts = f.data,
         NEW r \in RowsOf(Actions), Fresh(f, r.id),
         NEW g, g = WithRow(f, r)
  PROVE  /\ Good(g) /\ Keeps(g)
         /\ g.receipts = g.data /\ g.temps = {} /\ r \in Rows(g)
<1>1. f \in Files /\ f.inbox \in Seq(RowsOf(Actions)) /\ Append(f.inbox, r) \in Seq(RowsOf(Actions))
  BY FileTypes DEF Good
<1>2. /\ g.inbox = Append(f.inbox, r) /\ g.has = TRUE /\ g.receipts = f.receipts /\ g.data = f.data
      /\ g.temps = {} /\ g \in Files
  BY <1>1 DEF Files, WithRow
<1>3. /\ DOMAIN g.inbox = DOMAIN f.inbox \cup {Len(f.inbox) + 1}
      /\ Len(f.inbox) + 1 \notin DOMAIN f.inbox
      /\ \A i \in DOMAIN f.inbox : g.inbox[i] = f.inbox[i]
      /\ g.inbox[Len(f.inbox) + 1] = r
  BY <1>1, <1>2
<1>4. Rows(g) = Rows(f) \cup {r}
  <2>1. PICK h : h = g
    OBVIOUS
  <2>2. OneMore(f.inbox, h.inbox, r)
    BY <1>3, <2>1 DEF OneMore
  <2>3. h.data = f.data
    BY <1>2, <2>1
  <2>4. Rows(h) = Rows(f) \cup {r}
    BY <2>2, <2>3, RowsOneMore
  <2> QED
    BY <2>1, <2>4
<1>5. \A i \in DOMAIN f.inbox : f.inbox[i].id # r.id
  BY RowsIn DEF Fresh
<1>6. \A b \in f.data : \A i \in DOMAIN b.rows : b.rows[i].id # r.id
  BY RowsIn DEF Fresh
<1>7. Sound(g)
  <2>1. Distinct(g.inbox)
    BY <1>3, <1>5 DEF Good, Sound, Distinct
  <2>2. \A b \in g.data : Apart(g.inbox, b.rows)
    BY <1>2, <1>3, <1>6 DEF Good, Sound, Apart
  <2>3. \A q \in Rows(g), x \in g.receipts : q.id # x.id
    BY <1>2, <1>4 DEF Good, Sound, Fresh
  <2> QED
    BY <1>2, <2>1, <2>2, <2>3 DEF Good, Sound
<1> QED
  BY <1>2, <1>4, <1>7 DEF Good, Keeps

\* A new receipt, whose rows are the journal's.
WithReceipt(f, a) == [f EXCEPT !.receipts = @ \cup {a}, !.temps = {}]

LEMMA ReceiptGood ==
  ASSUME NEW f, Good(f), Keeps(f), f.receipts = f.data,
         NEW a \in ArchiveRecords, a.rows = f.inbox, Fresh(f, a.id),
         NEW g, g = WithReceipt(f, a)
  PROVE  /\ Good(g) /\ Keeps(g) /\ a \in g.receipts \ g.data /\ g.temps = {}
<1>1. f \in Files
  BY DEF Good
<1>2. /\ g.inbox = f.inbox /\ g.has = f.has /\ g.receipts = f.receipts \cup {a} /\ g.data = f.data
      /\ g.temps = {} /\ g \in Files
  BY <1>1 DEF Files, WithReceipt
<1>3. Rows(g) = Rows(f)
  BY <1>2, SameRows
<1>4. a \notin f.receipts
  BY DEF Fresh
<1>5. Sound(g)
  BY <1>2, <1>3, <1>4 DEF Good, Sound, Fresh
<1> QED
  BY <1>2, <1>3, <1>4, <1>5 DEF Good, Keeps

\* A receipt whose rows were not moved is taken back.
LEMMA WithoutGood ==
  ASSUME NEW f, Good(f), Keeps(f), NEW a \in f.receipts \ f.data,
         NEW g, g = [f EXCEPT !.receipts = @ \ {a}]
  PROVE  Good(g) /\ Keeps(g)
<1>1. f \in Files
  BY DEF Good
<1>2. /\ g.inbox = f.inbox /\ g.has = f.has /\ g.receipts = f.receipts \ {a} /\ g.data = f.data
      /\ g \in Files
  BY <1>1 DEF Files
<1>3. Rows(g) = Rows(f)
  BY <1>2, SameRows
<1>4. Sound(g)
  BY <1>2, <1>3 DEF Good, Sound
<1> QED
  BY <1>2, <1>3, <1>4 DEF Good, Keeps

-----------------------------------------------------------------------------
(* What a step makes of the files.                                         *)

LEMMA DiskSame ==
  ASSUME DiskInv, UNCHANGED disk, UNCHANGED told
  PROVE  DiskInv'
BY DEF DiskInv, disk, Keeps

LEMMA DiskChanged ==
  ASSUME DiskInv, NEW g, Good(g), Keeps(g), fs' = g, survivors' = survivors \cup {g},
         UNCHANGED told
  PROVE  DiskInv'
BY DEF DiskInv, Keeps

LEMMA DiskSettled ==
  ASSUME NEW g, Good(g), Keeps(g), fs' = g, survivors' = {g}, UNCHANGED told
  PROVE  DiskInv'
BY DEF DiskInv, Keeps

LEMMA DiskTold ==
  ASSUME DiskInv, fs' = fs, survivors' = {fs},
         NEW S, S \subseteq Rows(fs) \cup fs.data, told' = told \cup S
  PROVE  DiskInv'
BY DEF DiskInv, Keeps

LEMMA NowGood ==
  ASSUME DiskInv
  PROVE  Good(fs) /\ Keeps(fs)
BY DEF DiskInv

\* What a failed write leaves.
LEMMA DiskLeftovers ==
  ASSUME DiskInv, NEW temp \in {"inbox", "archive"}, Leftovers(temp), UNCHANGED told
  PROVE  DiskInv'
<1>1. PICK left \in {{}, {temp}} :
        /\ fs' = [fs EXCEPT !.temps = (@ \ {temp}) \cup left]
        /\ survivors' = survivors \cup {fs'}
  BY DEF Leftovers, Change
<1>2. PICK T : T = (fs.temps \ {temp}) \cup left
  OBVIOUS
<1>3. T \subseteq {"inbox", "archive"}
  BY <1>2, NowGood, FileTypes DEF Good
<1>4. PICK g : g = [fs EXCEPT !.temps = T]
  OBVIOUS
<1>5. Good(g) /\ Keeps(g)
  BY <1>3, <1>4, NowGood, TempsGood
<1> QED
  BY <1>1, <1>2, <1>4, <1>5, DiskChanged

LEMMA TempsChange ==
  ASSUME DiskInv, NEW T, T \subseteq {"inbox", "archive"}, NEW g, g = [fs EXCEPT !.temps = T]
  PROVE  /\ Good(g) /\ Keeps(g)
         /\ g.inbox = fs.inbox /\ g.has = fs.has /\ g.receipts = fs.receipts /\ g.data = fs.data
         /\ g.temps = T /\ Rows(g) = Rows(fs)
BY NowGood, TempsGood

-----------------------------------------------------------------------------
(* Starting, and making the history available again.                       *)

LEMMA CallsAre ==
  /\ NoCall \notin Calls /\ Startup \notin Calls
  /\ \A c \in Calls : c.ask \in Actions \cup {"archive"} => c.id \in Ids
  /\ "archive" \notin Actions /\ "none" \notin Models /\ "torn" \notin Models
BY CallsAssumption DEF NoCall, Startup

\* Nothing is asked of the files when no request is being served.
LEMMA Idle ==
  ASSUME pc' \in {"idle", "down"}, call' \notin Calls
  PROVE  Serving' /\ Steady' /\ Drafted'
BY DEF Serving, Steady, Drafted, Recovering, Settles, WritesRow, WritesArchive

LEMMA StartStep ==
  ASSUME QueueInv, Start
  PROVE  QueueInv'
<1>1. DiskInv'
  BY DiskSame DEF QueueInv, Start
<1>2. MemoryTypes'
  BY DEF QueueInv, Start, MemoryTypes, Loadable, bounds, Goto
<1>3. Serving' /\ Steady' /\ Drafted' /\ CertainIsClean'
  BY CallsAre DEF Start, Goto, Serving, Steady, Drafted, CertainIsClean,
     Recovering, Settles, WritesRow, WritesArchive
<1> QED
  BY <1>1, <1>2, <1>3 DEF QueueInv

\* A repair that fails leaves a doubt, or a queue that is lost.
LEMMA GiveUpStep ==
  ASSUME QueueInv, pc \in Recovering, Quiet, GiveUp, NoFault \/ Fault, DiskInv'
  PROVE  QueueInv'
<1>1. MemoryTypes'
  BY BoundsAssumption DEF QueueInv, MemoryTypes, Quiet, GiveUp, Fault, NoFault, Return, Goto
<1>2. Serving' /\ Steady' /\ Drafted'
  BY CallsAre, Idle DEF GiveUp, Return, Goto
<1>3. CertainIsClean'
  BY DEF QueueInv, Serving, Recovering, GiveUp, CertainIsClean
<1> QED
  BY <1>1, <1>2, <1>3 DEF QueueInv

LEMMA TidyStep ==
  ASSUME QueueInv, Tidy
  PROVE  QueueInv'
<1>1. PICK T : T = fs.temps \ {IF "inbox" \in fs.temps THEN "inbox" ELSE "archive"}
  OBVIOUS
<1>2. T \subseteq {"inbox", "archive"} /\ fs.temps \subseteq {"inbox", "archive"}
  BY <1>1, NowGood, FileTypes DEF Good, QueueInv
<1>3. PICK g : g = [fs EXCEPT !.temps = T]
  OBVIOUS
<1>4. Good(g) /\ Keeps(g)
  BY <1>2, <1>3, TempsChange DEF QueueInv
<1>5. pc = "tidy" /\ Quiet
  BY DEF Tidy
<1>6. CASE fs.temps = {} /\ Goto("resume") /\ NoFault /\ UNCHANGED <<disk, call, draft, uncertain, lost>>
  <2>1. DiskInv'
    BY <1>5, <1>6, DiskSame DEF QueueInv, Quiet
  <2>2. MemoryTypes'
    BY <1>5, <1>6 DEF QueueInv, MemoryTypes, Quiet, Goto, NoFault
  <2>3. Serving' /\ Steady' /\ Drafted' /\ CertainIsClean'
    BY <1>5, <1>6 DEF QueueInv, Quiet, Goto, Serving, Steady, Drafted, CertainIsClean,
       Recovering, Settles, WritesRow, WritesArchive, disk
  <2> QED
    BY <2>1, <2>2, <2>3 DEF QueueInv
<1>7. CASE NoFault /\ fs' = g /\ survivors' = {g} /\ UNCHANGED <<pc, call, draft, uncertain, lost>>
  <2>1. DiskInv'
    BY <1>4, <1>5, <1>7, DiskSettled DEF Quiet
  <2>2. MemoryTypes'
    BY <1>5, <1>7 DEF QueueInv, MemoryTypes, Quiet, NoFault
  <2>3. Serving' /\ Steady' /\ Drafted' /\ CertainIsClean'
    BY <1>5, <1>7 DEF QueueInv, Quiet, Serving, Steady, Drafted, CertainIsClean,
       Recovering, Settles, WritesRow, WritesArchive
  <2> QED
    BY <2>1, <2>2, <2>3 DEF QueueInv
<1>8. CASE Fault /\ GiveUp /\ (UNCHANGED disk \/ (fs' = g /\ survivors' = survivors \cup {g}))
  <2>1. DiskInv'
    BY <1>4, <1>5, <1>8, DiskSame, DiskChanged DEF QueueInv, Quiet
  <2> QED
    BY <1>5, <1>8, <2>1, GiveUpStep DEF Recovering
<1> QED
  BY <1>1, <1>3, <1>6, <1>7, <1>8 DEF Tidy, Change

LEMMA ResumeStep ==
  ASSUME QueueInv, Resume
  PROVE  QueueInv'
<1>1. pc = "resume" /\ Quiet /\ fs.temps = {} /\ Good(fs) /\ Keeps(fs)
  BY NowGood DEF Resume, QueueInv, Steady
<1>2. CASE Pending(fs) = {} /\ Goto("sync") /\ NoFault /\ UNCHANGED <<disk, call, draft, uncertain, lost>>
  <2>1. DiskInv'
    BY <1>1, <1>2, DiskSame DEF QueueInv, Quiet
  <2>2. MemoryTypes'
    BY <1>1, <1>2 DEF QueueInv, MemoryTypes, Quiet, Goto, NoFault
  <2>3. fs.receipts = fs.data
    BY <1>1, <1>2, ResumedIs
  <2>4. Serving' /\ Steady' /\ Drafted' /\ CertainIsClean'
    BY <1>1, <1>2, <2>3 DEF QueueInv, Quiet, Goto, Serving, Steady, Drafted, CertainIsClean,
       Recovering, Settles, WritesRow, WritesArchive, disk
  <2> QED
    BY <2>1, <2>2, <2>4 DEF QueueInv
<1>3. CASE NoFault /\ Change(Resumed(fs)) /\ Goto("resumed") /\ UNCHANGED <<call, draft, uncertain, lost>>
  <2>1. PICK g : g = Resumed(fs)
    OBVIOUS
  <2>2. Good(g) /\ Keeps(g) /\ g.receipts = g.data /\ g.temps = {}
    BY <1>1, <2>1, ResumedGood
  <2>3. fs' = g /\ survivors' = survivors \cup {g}
    BY <1>3, <2>1 DEF Change
  <2>4. DiskInv'
    BY <1>1, <2>2, <2>3, DiskChanged DEF QueueInv, Quiet
  <2>5. MemoryTypes'
    BY <1>1, <1>3 DEF QueueInv, MemoryTypes, Quiet, Goto, NoFault
  <2>6. Serving' /\ Steady' /\ Drafted' /\ CertainIsClean'
    BY <1>1, <1>3, <2>2, <2>3 DEF QueueInv, Quiet, Goto, Serving, Steady, Drafted, CertainIsClean,
       Recovering, Settles, WritesRow, WritesArchive
  <2> QED
    BY <2>4, <2>5, <2>6 DEF QueueInv
<1>4. CASE Fault /\ GiveUp /\ (IF fs.has THEN UNCHANGED disk ELSE Leftovers("archive"))
  <2>1. DiskInv'
    BY <1>1, <1>4, DiskSame, DiskLeftovers DEF QueueInv, Quiet
  <2> QED
    BY <1>1, <1>4, <2>1, GiveUpStep DEF Recovering
<1>5. CASE GiveUp /\ NoFault /\ UNCHANGED disk
  <2>1. DiskInv'
    BY <1>1, <1>5, DiskSame DEF QueueInv, Quiet
  <2> QED
    BY <1>1, <1>5, <2>1, GiveUpStep DEF Recovering
<1> QED
  BY <1>2, <1>3, <1>4, <1>5 DEF Resume

\* A sync leaves what the process sees.
LEMMA DiskSynced ==
  ASSUME DiskInv, Sync, UNCHANGED told
  PROVE  DiskInv'
BY DEF DiskInv, Sync, Keeps

LEMMA SyncResumedStep ==
  ASSUME QueueInv, SyncResumed
  PROVE  QueueInv'
<1>1. pc = "resumed" /\ Quiet
  BY DEF SyncResumed
<1>2. CASE Sync /\ Goto("sync") /\ NoFault /\ UNCHANGED <<call, draft, uncertain, lost>>
  <2>1. DiskInv'
    BY <1>1, <1>2, DiskSynced DEF QueueInv, Quiet
  <2>2. MemoryTypes'
    BY <1>1, <1>2 DEF QueueInv, MemoryTypes, Quiet, Goto, NoFault
  <2>3. Serving' /\ Steady' /\ Drafted' /\ CertainIsClean'
    BY <1>1, <1>2 DEF QueueInv, Quiet, Goto, Sync, Serving, Steady, Drafted, CertainIsClean,
       Recovering, Settles, WritesRow, WritesArchive
  <2> QED
    BY <2>1, <2>2, <2>3 DEF QueueInv
<1>3. CASE GiveUp /\ Fault /\ UNCHANGED disk
  <2>1. DiskInv'
    BY <1>1, <1>3, DiskSame DEF QueueInv, Quiet
  <2> QED
    BY <1>1, <1>3, <2>1, GiveUpStep DEF Recovering
<1> QED
  BY <1>2, <1>3 DEF SyncResumed

\* A step that returns, and leaves a doubt or files that are clean.
LEMMA ReturnStep ==
  ASSUME QueueInv, Return, Quiet, NoFault \/ Fault, UNCHANGED lost,
         uncertain' \in BOOLEAN, DiskInv', CertainIsClean'
  PROVE  QueueInv'
<1>1. MemoryTypes'
  BY BoundsAssumption DEF QueueInv, MemoryTypes, Quiet, Fault, NoFault, Return, Goto
<1>2. Serving' /\ Steady' /\ Drafted'
  BY CallsAre, Idle DEF Return, Goto
<1> QED
  BY <1>1, <1>2 DEF QueueInv

LEMMA SyncAllStep ==
  ASSUME QueueInv, SyncAll
  PROVE  QueueInv'
<1>1. pc = "sync" /\ Quiet /\ fs.temps = {} /\ fs.receipts = fs.data /\ Good(fs)
  BY NowGood DEF SyncAll, QueueInv, Steady, Settles
<1>2. Pending(fs) = {}
  BY <1>1, PendingIs DEF Good
<1>3. CASE GiveUp /\ NoFault /\ UNCHANGED disk
  <2>1. DiskInv'
    BY <1>1, <1>3, DiskSame DEF QueueInv, Quiet
  <2> QED
    BY <1>1, <1>3, <2>1, GiveUpStep DEF Recovering
<1>4. CASE Return /\ UNCHANGED lost /\ Sync /\ NoFault /\ UNCHANGED uncertain
  <2>1. DiskInv'
    BY <1>1, <1>4, DiskSynced DEF QueueInv, Quiet
  <2>2. CertainIsClean'
    BY <1>1, <1>2, <1>4 DEF CertainIsClean, Sync
  <2>3. uncertain' \in BOOLEAN
    BY <1>4 DEF QueueInv, MemoryTypes
  <2> QED
    BY <1>1, <1>4, <2>1, <2>2, <2>3, ReturnStep
<1>5. CASE Return /\ UNCHANGED lost /\ UNCHANGED disk /\ Fault /\ uncertain' = TRUE
  <2>1. DiskInv'
    BY <1>1, <1>5, DiskSame DEF QueueInv, Quiet
  <2>2. CertainIsClean'
    BY <1>5 DEF CertainIsClean
  <2> QED
    BY <1>1, <1>5, <2>1, <2>2, ReturnStep
<1>6. CASE /\ call # Startup /\ Sync /\ NoFault
           /\ Goto("serve") /\ uncertain' = FALSE /\ UNCHANGED <<call, draft, lost>>
  <2>1. DiskInv'
    BY <1>1, <1>6, DiskSynced DEF QueueInv, Quiet
  <2>2. MemoryTypes'
    BY <1>1, <1>6 DEF QueueInv, MemoryTypes, Quiet, Goto, NoFault
  <2>3. Serving' /\ Steady' /\ Drafted' /\ CertainIsClean'
    BY <1>1, <1>6 DEF QueueInv, Quiet, Goto, Sync, Serving, Steady, Drafted, CertainIsClean,
       Recovering, Settles, WritesRow, WritesArchive
  <2> QED
    BY <2>1, <2>2, <2>3 DEF QueueInv
<1>7. CASE call # Startup /\ Fault /\ Refuse
  <2>1. DiskInv'
    BY <1>1, <1>7, DiskSame DEF QueueInv, Quiet, Refuse
  <2>2. uncertain' = TRUE /\ UNCHANGED lost
    BY <1>1, <1>7 DEF QueueInv, MemoryTypes, Serving, Recovering, Refuse
  <2>3. CertainIsClean'
    BY <2>2 DEF CertainIsClean
  <2> QED
    BY <1>1, <1>7, <2>1, <2>2, <2>3, ReturnStep DEF Refuse
<1> QED
  BY <1>3, <1>4, <1>5, <1>6, <1>7 DEF SyncAll

-----------------------------------------------------------------------------
(* Serving one request.                                                    *)

LEMMA RequestStep ==
  ASSUME QueueInv, NEW c \in Calls, Request(c)
  PROVE  QueueInv'
<1>1. DiskInv'
  BY DiskSame DEF QueueInv, Request
<1>2. MemoryTypes'
  <2>1. call' = c /\ pc' \in {"tidy", "serve"}
    BY DEF Request, Goto
  <2>2. UNCHANGED <<model, pinned, draft, clock, uncertain, lost, told, faults, events>>
    BY DEF Request, bounds
  <2> QED
    BY <2>1, <2>2 DEF QueueInv, MemoryTypes
<1>3. Serving'
  <2>1. call' = c /\ pinned' = pinned /\ pinned \in Models
    BY DEF QueueInv, MemoryTypes, Request, Current, Loadable
  <2>2. pc' = "serve" \/ (pc' = "tidy" /\ uncertain')
    BY DEF Request, Goto
  <2>3. pc' \notin WritesRow \cup WritesArchive \cup {"temp", "rollback"}
    BY <2>2 DEF WritesRow, WritesArchive
  <2> QED
    BY <2>1, <2>2, <2>3 DEF Serving, Recovering
<1>4. fs.receipts = fs.data \/ Pending(fs) # {}
  <2>1. Sound(fs)
    BY NowGood DEF QueueInv, Good
  <2>2. Pending(fs) = fs.receipts \ fs.data
    BY <2>1, PendingIs
  <2> QED
    BY <2>1, <2>2 DEF Sound
<1>5. Steady'
  BY <1>4 DEF QueueInv, MemoryTypes, CertainIsClean, Request, Goto, Steady, disk, Settles,
     WritesRow
<1>6. Drafted' /\ CertainIsClean'
  BY DEF Request, Goto, Drafted, CertainIsClean
<1> QED
  BY <1>1, <1>2, <1>3, <1>5, <1>6 DEF QueueInv

\* An answer that needs no write.
LEMMA TellStep ==
  ASSUME QueueInv, pc = "serve", UNCHANGED <<model, pinned, bounds>>,
         NEW S, S \subseteq Rows(fs) \cup fs.data, Tell(S)
  PROVE  QueueInv'
<1>1. survivors = {fs} /\ fs.temps = {} /\ fs.receipts = fs.data /\ Good(fs)
  BY NowGood DEF QueueInv, Steady, Settles
<1>2. S \subseteq RowsOf(Actions) \cup ArchiveRecords
  BY <1>1, FileTypes DEF Good
<1>3. DiskInv'
  BY <1>1, DiskTold DEF QueueInv, Tell, Refuse, disk
<1>4. MemoryTypes'
  BY <1>2 DEF QueueInv, MemoryTypes, Tell, Refuse, Return, Goto, bounds
<1>5. Serving' /\ Steady' /\ Drafted'
  BY CallsAre, Idle DEF Tell, Refuse, Return, Goto
<1>6. Pending(fs) = {}
  BY <1>1, PendingIs DEF Good
<1>7. CertainIsClean'
  BY <1>1, <1>6 DEF CertainIsClean, Tell, Refuse, disk
<1> QED
  BY <1>3, <1>4, <1>5, <1>7 DEF QueueInv

\* An identity that nobody has used is given to a new row or archive.
LEMMA DraftStep ==
  ASSUME QueueInv, pc = "serve", UNCHANGED <<model, pinned, bounds>>, NEW d, Draft(d),
         Archives(call.id) = {}, Used(call.id) = {}, d.id = call.id,
         \/ call.ask \in Actions /\ d \in RowsOf(Actions)
         \/ call.ask = "archive" /\ d \in ArchiveRecords /\ d.rows = fs.inbox
  PROVE  QueueInv'
<1>1. survivors = {fs} /\ fs.temps = {} /\ fs.receipts = fs.data /\ Good(fs)
  BY NowGood DEF QueueInv, Steady, Settles
<1>2. Fresh(fs, d.id)
  BY DEF Fresh, Archives, Used
<1>3. DiskInv'
  BY DiskSame DEF QueueInv, Draft
<1>4. MemoryTypes'
  BY DEF QueueInv, MemoryTypes, Draft, Goto, bounds
<1>5. Serving'
  BY DEF QueueInv, Serving, Draft, Goto, Recovering, WritesRow, WritesArchive
<1>6. Steady' /\ CertainIsClean'
  BY <1>1 DEF Steady, CertainIsClean, Draft, Goto, disk, Settles, WritesRow
<1>7. Drafted'
  BY <1>2, CallsAre DEF Drafted, Draft, Goto, disk
<1> QED
  BY <1>3, <1>4, <1>5, <1>6, <1>7 DEF QueueInv

LEMMA ServeStep ==
  ASSUME QueueInv, Serve
  PROVE  QueueInv'
<1>1. pc = "serve" /\ UNCHANGED <<model, pinned, bounds>> /\ fs.receipts = fs.data /\ Good(fs)
  BY NowGood DEF QueueInv, Steady, Settles, Serve
<1>2. call \in Calls /\ pinned \in Models /\ clock \in Nat
  BY <1>1 DEF QueueInv, Serving, Recovering, MemoryTypes
<1>3. CASE Enqueue
  <2>1. CASE Tell({})
    BY <1>1, <2>1, TellStep
  <2>2. CASE Tell({r \in Used(call.id) : r.ask = call.ask /\ r.model = pinned})
    <3>1. {r \in Used(call.id) : r.ask = call.ask /\ r.model = pinned} \subseteq Rows(fs) \cup fs.data
      BY DEF Used
    <3> QED
      BY <1>1, <2>2, <3>1, TellStep
  <2>3. CASE Archives(call.id) = {} /\ Used(call.id) = {} /\ Draft(NewRow)
    <3>1. NewRow \in RowsOf(Actions) /\ NewRow.id = call.id
      BY <1>2, <1>3, CallsAre DEF NewRow, RowsOf, Enqueue
    <3> QED
      BY <1>1, <1>3, <2>3, <3>1, DraftStep DEF Enqueue
  <2> QED
    BY <1>3, <2>1, <2>2, <2>3 DEF Enqueue
<1>4. CASE Archive
  <2>1. CASE Tell({})
    BY <1>1, <2>1, TellStep
  <2>2. CASE Tell(Archives(call.id))
    <3>1. Archives(call.id) \subseteq Rows(fs) \cup fs.data
      BY <1>1 DEF Archives
    <3> QED
      BY <1>1, <2>2, <3>1, TellStep
  <2>3. CASE Archives(call.id) = {} /\ Used(call.id) = {} /\ Draft(NewArchive)
    <3>1. /\ NewArchive \in ArchiveRecords /\ NewArchive.id = call.id
          /\ NewArchive.rows = fs.inbox
      BY <1>1, <1>2, <1>4, CallsAre, FileTypes DEF NewArchive, ArchiveRecords, Archive, Good
    <3> QED
      BY <1>1, <1>4, <2>3, <3>1, DraftStep DEF Archive
  <2> QED
    BY <1>4, <2>1, <2>2, <2>3 DEF Archive
<1>5. CASE Read
  <2>1. {fs.inbox[i] : i \in DOMAIN fs.inbox} \subseteq Rows(fs) \cup fs.data
    BY RowsIn
  <2> QED
    BY <1>1, <1>5, <2>1, TellStep DEF Read
<1>6. CASE Corrupt
  BY <1>1, <1>6, TellStep DEF Corrupt
<1> QED
  BY <1>3, <1>4, <1>5, <1>6 DEF Serve

-----------------------------------------------------------------------------
(* Writing what was accepted.                                              *)

\* A step of the write that changes files and goes on.
LEMMA GoesOn ==
  ASSUME QueueInv, pc \notin Recovering \cup {"down", "idle"}, Quiet, NEW label, Step(label),
         label \in WritesRow \cup {"intent", "commit", "move", "moved"},
         label \in WritesRow => call.ask \in Actions,
         label \notin WritesRow => call.ask = "archive",
         DiskInv', Steady', Drafted'
  PROVE  QueueInv'
<1>1. MemoryTypes'
  BY DEF QueueInv, MemoryTypes, Quiet, Step, Goto, NoFault, WritesRow
<1>2. Serving'
  BY CallsAre DEF QueueInv, Serving, Quiet, Step, Goto, Recovering, WritesRow, WritesArchive
<1>3. CertainIsClean'
  BY DEF CertainIsClean, Step, Goto, WritesRow
<1> QED
  BY <1>1, <1>2, <1>3 DEF QueueInv

LEMMA FailsStep ==
  ASSUME QueueInv, Quiet, Fails, DiskInv'
  PROVE  QueueInv'
<1>1. CertainIsClean'
  BY DEF CertainIsClean, Fails
<1> QED
  BY <1>1, ReturnStep DEF Fails

LEMMA ArchiveFailsStep ==
  ASSUME QueueInv, pc \in WritesArchive, Quiet, ArchiveFails, DiskInv'
  PROVE  QueueInv'
<1>1. CASE Return
  <2>1. Fails
    BY <1>1 DEF ArchiveFails, Fails
  <2> QED
    BY <2>1, FailsStep
<1>2. CASE MustRollBack(fs') /\ Goto("rollback") /\ UNCHANGED <<call, draft>>
  <2>1. draft \in fs'.receipts \ fs'.data
    BY <1>2 DEF MustRollBack, Names
  <2>2. Fault /\ uncertain' = TRUE /\ UNCHANGED lost
    BY DEF ArchiveFails
  <2>3. MemoryTypes'
    BY <1>2, <2>2, BoundsAssumption DEF QueueInv, MemoryTypes, Quiet, Fault, Goto
  <2>4. Serving' /\ Steady' /\ Drafted' /\ CertainIsClean'
    BY <1>2, <2>1, <2>2, CallsAre DEF QueueInv, Serving, Steady, Drafted, CertainIsClean, Quiet, Goto,
       Recovering, Settles, WritesRow, WritesArchive
  <2> QED
    BY <2>3, <2>4 DEF QueueInv
<1> QED
  BY <1>1, <1>2 DEF ArchiveFails

\* What was written is durable, and the client is told.
LEMMA AcknowledgeStep ==
  ASSUME QueueInv, pc \in {"flush", "moved"}, Sync, Acknowledge
  PROVE  QueueInv'
<1>1. /\ fs.temps = {} /\ fs.receipts = fs.data /\ Good(fs)
      /\ draft \in Rows(fs) \cup fs.data
  BY NowGood DEF QueueInv, Steady, Settles, WritesRow, Drafted
<1>2. DiskInv'
  <2>1. {draft} \subseteq Rows(fs) \cup fs.data
    BY <1>1
  <2> QED
    BY <2>1, DiskTold DEF QueueInv, Sync, Acknowledge
<1>3. draft \in RowsOf(Actions) \cup ArchiveRecords
  BY <1>1, FileTypes DEF Good
<1>4. MemoryTypes'
  BY <1>3 DEF QueueInv, MemoryTypes, Acknowledge, Return, Goto, NoFault
<1>5. Serving' /\ Steady' /\ Drafted'
  BY CallsAre, Idle DEF Acknowledge, Return, Goto
<1>6. Pending(fs) = {}
  BY <1>1, PendingIs DEF Good
<1>7. CertainIsClean'
  BY <1>1, <1>6 DEF CertainIsClean, Sync
<1> QED
  BY <1>2, <1>4, <1>5, <1>7 DEF QueueInv

LEMMA WriteTempStep ==
  ASSUME QueueInv, WriteTemp
  PROVE  QueueInv'
<1>1. /\ pc = "temp" /\ Quiet /\ Good(fs) /\ Keeps(fs)
      /\ fs.temps = {} /\ fs.receipts = fs.data /\ call.ask \in Actions \cup {"archive"}
      /\ Temp \in {"inbox", "archive"}
  BY NowGood DEF WriteTemp, QueueInv, Steady, Settles, Serving, Temp
<1>2. CASE /\ Change([fs EXCEPT !.temps = @ \cup {Temp}])
           /\ Step(IF IsArchive THEN "intent" ELSE "replace")
  <2>1. PICK T : T = {Temp}
    OBVIOUS
  <2>2. PICK g : g = [fs EXCEPT !.temps = T]
    OBVIOUS
  <2>3. T \subseteq {"inbox", "archive"} /\ T = fs.temps \cup {Temp}
    BY <1>1, <2>1
  <2>4. /\ Good(g) /\ Keeps(g) /\ g.inbox = fs.inbox /\ g.receipts = fs.receipts /\ g.data = fs.data
        /\ g.temps = T /\ Rows(g) = Rows(fs)
    <3>1. DiskInv /\ T \subseteq {"inbox", "archive"}
      BY <2>3 DEF QueueInv
    <3> QED
      BY <2>2, <3>1, TempsChange
  <2>5. fs' = g /\ survivors' = survivors \cup {g}
    BY <1>2, <2>2, <2>3 DEF Change
  <2>6. DiskInv'
    BY <1>1, <2>4, <2>5, DiskChanged DEF QueueInv, Quiet
  <2>7. Fresh(g, draft.id) <=> Fresh(fs, draft.id)
    BY <2>4 DEF Fresh
  <2>8. CASE call.ask = "archive"
    <3>1. Step("intent") /\ Temp = "archive"
      BY <1>2, <2>8 DEF IsArchive, Temp
    <3>2. Steady'
      BY <1>1, <2>1, <2>4, <2>5, <3>1 DEF Steady, Step, Goto, Settles, WritesRow
    <3>3. Drafted'
      BY <1>1, <2>4, <2>5, <2>7, <2>8, <3>1, CallsAre DEF QueueInv, Drafted, Step, Goto
    <3> QED
      BY <1>1, <2>6, <2>8, <3>1, <3>2, <3>3, GoesOn DEF Recovering, WritesRow
  <2>9. CASE call.ask \in Actions
    <3>1. Step("replace") /\ Temp = "inbox"
      BY <1>2, <2>9, CallsAre DEF IsArchive, Temp
    <3>2. Steady'
      BY <1>1, <2>1, <2>4, <2>5, <3>1 DEF Steady, Step, Goto, Settles, WritesRow
    <3>3. Drafted'
      BY <1>1, <2>4, <2>5, <2>7, <2>9, <3>1, CallsAre DEF QueueInv, Drafted, Step, Goto
    <3> QED
      BY <1>1, <2>6, <2>9, <3>1, <3>2, <3>3, GoesOn DEF Recovering, WritesRow
  <2> QED
    BY <1>1, <2>8, <2>9
<1>3. CASE Leftovers(Temp) /\ Fails
  <2>1. DiskInv'
    BY <1>1, <1>3, DiskLeftovers DEF QueueInv, Quiet
  <2> QED
    BY <1>1, <1>3, <2>1, FailsStep
<1> QED
  BY <1>2, <1>3 DEF WriteTemp

LEMMA ReplaceInboxStep ==
  ASSUME QueueInv, ReplaceInbox
  PROVE  QueueInv'
<1>1. /\ pc = "replace" /\ Quiet /\ Good(fs) /\ Keeps(fs) /\ call.ask \in Actions
      /\ fs.temps = {"inbox"} /\ fs.receipts = fs.data
      /\ draft \in RowsOf(Actions) /\ Fresh(fs, draft.id)
  BY NowGood DEF ReplaceInbox, QueueInv, Steady, Settles, WritesRow, Serving, Drafted
<1>2. CASE /\ Change([fs EXCEPT !.inbox = Append(@, draft), !.has = TRUE, !.temps = @ \ {"inbox"}])
           /\ Step("flush")
  <2>1. PICK g : g = WithRow(fs, draft)
    OBVIOUS
  <2>2. Good(g) /\ Keeps(g) /\ g.receipts = g.data /\ g.temps = {} /\ draft \in Rows(g)
    BY <1>1, <2>1, RowGood
  <2>3. fs' = g /\ survivors' = survivors \cup {g}
    BY <1>1, <1>2, <2>1 DEF Change, WithRow
  <2>4. DiskInv'
    BY <1>1, <2>2, <2>3, DiskChanged DEF QueueInv, Quiet
  <2>5. Steady' /\ Drafted'
    BY <1>2, <2>2, <2>3 DEF Steady, Drafted, Step, Goto, Settles, WritesRow
  <2> QED
    BY <1>1, <1>2, <2>4, <2>5, GoesOn DEF Recovering, WritesRow
<1>3. CASE Leftovers("inbox") /\ Fails
  <2>1. DiskInv'
    BY <1>1, <1>3, DiskLeftovers DEF QueueInv, Quiet
  <2> QED
    BY <1>1, <1>3, <2>1, FailsStep
<1> QED
  BY <1>2, <1>3 DEF ReplaceInbox

LEMMA FlushInboxStep ==
  ASSUME QueueInv, FlushInbox
  PROVE  QueueInv'
<1>1. CASE Sync /\ Acknowledge
  BY <1>1, AcknowledgeStep DEF FlushInbox
<1>2. CASE UNCHANGED disk /\ Fails /\ Quiet
  BY <1>2, DiskSame, FailsStep DEF QueueInv, Quiet
<1> QED
  BY <1>1, <1>2 DEF FlushInbox

LEMMA WriteReceiptStep ==
  ASSUME QueueInv, WriteReceipt
  PROVE  QueueInv'
<1>1. /\ pc = "intent" /\ Quiet /\ Good(fs) /\ Keeps(fs) /\ call.ask = "archive"
      /\ fs.temps = {"archive"} /\ fs.receipts = fs.data
      /\ draft \in ArchiveRecords /\ draft.rows = fs.inbox /\ Fresh(fs, draft.id)
  BY NowGood DEF WriteReceipt, QueueInv, Steady, Settles, WritesArchive, Serving, Drafted
<1>2. CASE /\ Change([fs EXCEPT !.receipts = @ \cup {draft}, !.temps = @ \ {"archive"}])
           /\ Step("commit")
  <2>1. PICK g : g = WithReceipt(fs, draft)
    OBVIOUS
  <2>2. Good(g) /\ Keeps(g) /\ draft \in g.receipts \ g.data /\ g.temps = {}
    BY <1>1, <2>1, ReceiptGood
  <2>3. fs' = g /\ survivors' = survivors \cup {g}
    BY <1>1, <1>2, <2>1 DEF Change, WithReceipt
  <2>4. DiskInv'
    BY <1>1, <2>2, <2>3, DiskChanged DEF QueueInv, Quiet
  <2>5. Steady' /\ Drafted'
    BY <1>2, <2>2, <2>3 DEF Steady, Drafted, Step, Goto, Settles, WritesRow
  <2> QED
    BY <1>1, <1>2, <2>4, <2>5, GoesOn DEF Recovering, WritesRow
<1>3. CASE Leftovers("archive") /\ ArchiveFails
  <2>1. DiskInv'
    BY <1>1, <1>3, DiskLeftovers DEF QueueInv, Quiet
  <2> QED
    BY <1>1, <1>3, <2>1, ArchiveFailsStep DEF WritesArchive
<1> QED
  BY <1>2, <1>3 DEF WriteReceipt

LEMMA CommitReceiptStep ==
  ASSUME QueueInv, CommitReceipt
  PROVE  QueueInv'
<1>1. /\ pc = "commit" /\ Quiet /\ call.ask = "archive" /\ fs.temps = {}
      /\ draft \in fs.receipts \ fs.data
  BY DEF CommitReceipt, QueueInv, Steady, WritesArchive, Serving, Drafted
<1>2. CASE Sync /\ Step("move")
  <2>1. DiskInv'
    BY <1>1, <1>2, DiskSynced DEF QueueInv, Quiet
  <2>2. Steady' /\ Drafted'
    BY <1>1, <1>2 DEF Steady, Drafted, Step, Goto, Sync, Settles, WritesRow
  <2> QED
    BY <1>1, <1>2, <2>1, <2>2, GoesOn DEF Recovering, WritesRow
<1>3. CASE UNCHANGED disk /\ ArchiveFails
  <2>1. DiskInv'
    BY <1>1, <1>3, DiskSame DEF QueueInv, Quiet
  <2> QED
    BY <1>1, <1>3, <2>1, ArchiveFailsStep DEF WritesArchive
<1> QED
  BY <1>2, <1>3 DEF CommitReceipt

LEMMA MoveRowsStep ==
  ASSUME QueueInv, MoveRows
  PROVE  QueueInv'
<1>1. /\ pc = "move" /\ Quiet /\ call.ask = "archive" /\ fs.temps = {} /\ Good(fs) /\ Keeps(fs)
      /\ draft \in fs.receipts \ fs.data
  BY NowGood DEF MoveRows, QueueInv, Steady, WritesArchive, Serving, Drafted
<1>2. CASE Change(MoveInbox(fs, draft)) /\ Step("moved")
  <2>1. PICK g : g = MoveInbox(fs, draft)
    OBVIOUS
  <2>2. Good(g) /\ Keeps(g) /\ g.receipts = g.data /\ draft \in g.data /\ g.temps = {}
    BY <1>1, <2>1, MoveGood
  <2>3. fs' = g /\ survivors' = survivors \cup {g}
    BY <1>2, <2>1 DEF Change
  <2>4. DiskInv'
    BY <1>1, <2>2, <2>3, DiskChanged DEF QueueInv, Quiet
  <2>5. Steady' /\ Drafted'
    BY <1>2, <2>2, <2>3 DEF Steady, Drafted, Step, Goto, Settles, WritesRow
  <2> QED
    BY <1>1, <1>2, <2>4, <2>5, GoesOn DEF Recovering, WritesRow
<1>3. CASE (IF fs.has THEN UNCHANGED disk ELSE Leftovers("archive")) /\ ArchiveFails
  <2>1. DiskInv'
    BY <1>1, <1>3, DiskSame, DiskLeftovers DEF QueueInv, Quiet
  <2> QED
    BY <1>1, <1>3, <2>1, ArchiveFailsStep DEF WritesArchive
<1> QED
  BY <1>2, <1>3 DEF MoveRows

LEMMA FlushArchiveStep ==
  ASSUME QueueInv, FlushArchive
  PROVE  QueueInv'
<1>1. CASE Sync /\ Acknowledge
  BY <1>1, AcknowledgeStep DEF FlushArchive
<1>2. CASE UNCHANGED disk /\ ArchiveFails /\ Quiet
  BY <1>2, DiskSame, ArchiveFailsStep DEF FlushArchive, QueueInv, Quiet, WritesArchive
<1> QED
  BY <1>1, <1>2 DEF FlushArchive

LEMMA RollBackStep ==
  ASSUME QueueInv, RollBack
  PROVE  QueueInv'
<1>1. /\ pc = "rollback" /\ Quiet /\ Good(fs) /\ Keeps(fs) /\ draft \in fs.receipts \ fs.data
      /\ uncertain
  BY NowGood DEF RollBack, QueueInv, Drafted, Serving
<1>2. PICK g : g = [fs EXCEPT !.receipts = @ \ {draft}]
  OBVIOUS
<1>3. Good(g) /\ Keeps(g)
  BY <1>1, <1>2, WithoutGood
<1>4. \/ UNCHANGED disk \/ (fs' = g /\ survivors' = survivors \cup {g})
      \/ fs' = g /\ survivors' = {g}
  BY <1>2 DEF RollBack, Change
<1>5. DiskInv'
  BY <1>1, <1>3, <1>4, DiskSame, DiskChanged, DiskSettled DEF QueueInv, Quiet
<1>6. uncertain' = TRUE
  BY <1>1 DEF RollBack, QueueInv, MemoryTypes
<1>7. CertainIsClean'
  BY <1>6 DEF CertainIsClean
<1> QED
  BY <1>1, <1>5, <1>6, <1>7, ReturnStep DEF RollBack

-----------------------------------------------------------------------------
(* The world.                                                              *)

LEMMA StopStep ==
  ASSUME QueueInv, Kill \/ PowerLoss
  PROVE  QueueInv'
<1>1. Stop
  BY DEF Kill, PowerLoss
<1>2. DiskInv'
  <2>1. CASE Kill
    BY <1>1, <2>1, DiskSame DEF QueueInv, Kill, Stop
  <2>2. CASE PowerLoss
    <3>1. PICK g \in survivors : fs' = g /\ survivors' = {g}
      BY <2>2 DEF PowerLoss
    <3>2. Good(g) /\ Keeps(g)
      BY DEF QueueInv, DiskInv
    <3> QED
      BY <1>1, <3>1, <3>2, DiskSettled DEF Stop
  <2> QED
    BY <2>1, <2>2
<1>3. MemoryTypes'
  <2>1. events' \in 0..MaxEvents /\ faults' \in 0..MaxFaults
    BY <1>1, BoundsAssumption DEF QueueInv, MemoryTypes, Stop
  <2>2. pc' = "down" /\ call' = NoCall /\ draft' = NoCall /\ pinned' = "none"
    BY <1>1 DEF Stop, Goto
  <2> QED
    BY <1>1, <2>1, <2>2 DEF QueueInv, MemoryTypes, Stop
<1>4. Serving' /\ Steady' /\ Drafted'
  BY <1>1, CallsAre, Idle DEF Stop, Goto
<1>5. CertainIsClean'
  BY <1>1 DEF Stop, Goto, CertainIsClean
<1> QED
  BY <1>2, <1>3, <1>4, <1>5 DEF QueueInv

LEMMA EditModelStep ==
  ASSUME QueueInv, EditModel
  PROVE  QueueInv'
<1>1. DiskInv'
  BY DiskSame DEF QueueInv, EditModel
<1>2. MemoryTypes'
  BY BoundsAssumption DEF QueueInv, MemoryTypes, EditModel, memory
<1>3. Serving' /\ Steady' /\ Drafted' /\ CertainIsClean'
  BY DEF QueueInv, EditModel, memory, disk, Serving, Steady, Drafted, CertainIsClean
<1> QED
  BY <1>1, <1>2, <1>3 DEF QueueInv

-----------------------------------------------------------------------------
(* The theorems.                                                           *)

LEMMA InitInv ==
  ASSUME Init
  PROVE  QueueInv
<1>1. PICK rows \in Journals :
        fs = [inbox |-> rows, has |-> rows # <<>>, receipts |-> {}, data |-> {}, temps |-> {}]
  BY DEF Init
<1>2. rows \in Seq(RowsOf(Actions)) /\ Distinct(rows)
  BY JournalsAssumption DEF Distinct
<1>3. /\ fs.inbox = rows /\ fs.has = (rows # <<>>) /\ fs.receipts = {} /\ fs.data = {}
      /\ fs.temps = {} /\ fs \in Files
  BY <1>1, <1>2 DEF Files
<1>4. Good(fs) /\ Keeps(fs)
  <2>1. Sound(fs)
    BY <1>2, <1>3 DEF Sound
  <2>2. Good(fs)
    BY <1>3, <2>1 DEF Good
  <2> QED
    BY <2>2 DEF Keeps, Init
<1>5. DiskInv
  BY <1>4 DEF Init, DiskInv
<1>6. MemoryTypes
  <2>1. /\ model \in Models /\ pinned = "none" /\ pc = "down" /\ call = NoCall /\ draft = NoCall
        /\ clock = 0 /\ uncertain = FALSE /\ lost = FALSE /\ told = {} /\ faults = 0 /\ events = 0
    BY DEF Init
  <2> QED
    <3>1. faults \in 0..MaxFaults /\ events \in 0..MaxEvents /\ clock \in Nat
      BY <2>1, BoundsAssumption
    <3>2. uncertain \in BOOLEAN /\ lost \in BOOLEAN
      BY <2>1
    <3>3. told \subseteq RowsOf(Actions) \cup ArchiveRecords
      BY <2>1
    <3>4. /\ model \in Models \cup {"torn"} /\ pinned \in Models \cup {"none"}
          /\ call \in Calls \cup {NoCall, Startup}
          /\ draft \in RowsOf(Actions) \cup ArchiveRecords \cup {NoCall}
      BY <2>1
    <3> QED
      BY <2>1, <3>1, <3>2, <3>3, <3>4 DEF MemoryTypes
<1>7. Serving /\ Steady /\ Drafted /\ CertainIsClean
  BY CallsAre DEF Init, Serving, Steady, Drafted, CertainIsClean, Recovering, Settles, WritesRow,
     WritesArchive
<1> QED
  BY <1>5, <1>6, <1>7 DEF QueueInv

LEMMA QueueSteps ==
  ASSUME QueueInv, [Next]_vars
  PROVE  QueueInv'
<1>1. CASE Start
  BY <1>1, StartStep
<1>2. ASSUME NEW c \in Calls, Request(c) PROVE QueueInv'
  BY <1>2, RequestStep
<1>3. CASE Recovery
  BY <1>3, TidyStep, ResumeStep, SyncResumedStep, SyncAllStep DEF Recovery
<1>4. CASE Serve
  BY <1>4, ServeStep
<1>5. CASE Writing
  BY <1>5, WriteTempStep, ReplaceInboxStep, FlushInboxStep, WriteReceiptStep, CommitReceiptStep,
     MoveRowsStep, FlushArchiveStep, RollBackStep DEF Writing
<1>6. CASE Kill \/ PowerLoss
  BY <1>6, StopStep
<1>7. CASE EditModel
  BY <1>7, EditModelStep
<1>8. CASE UNCHANGED vars
  <2>1. DiskInv'
    BY <1>8, DiskSame DEF QueueInv, vars
  <2>2. MemoryTypes'
    BY <1>8 DEF QueueInv, MemoryTypes, vars, memory, bounds
  <2>3. Serving' /\ Steady' /\ Drafted' /\ CertainIsClean'
    BY <1>8 DEF QueueInv, vars, memory, disk, Serving, Steady, Drafted, CertainIsClean
  <2> QED
    BY <2>1, <2>2, <2>3 DEF QueueInv
<1> QED
  BY <1>1, <1>2, <1>3, <1>4, <1>5, <1>6, <1>7, <1>8 DEF Next, Work

\* The inductive invariant holds whatever fails, and in whatever order.
THEOREM QueueCorrect == Spec => []QueueInv
<1>1. Init => QueueInv
  BY InitInv
<1>2. QueueInv /\ [Next]_vars => QueueInv'
  BY QueueSteps
<1> QED
  BY <1>1, <1>2, PTL DEF Spec

\* No answer is taken back: what a client was told is in the journal or its
\* archives in every state a failure may leave (enqueue, archive, read).
THEOREM AnswersAreDurable == Spec => []ToldIsDurable
<1>1. QueueInv => ToldIsDurable
  <2> SUFFICES ASSUME QueueInv, NEW f \in survivors
               PROVE  told \subseteq Rows(f) \cup (f.receipts \cap f.data)
    BY DEF ToldIsDurable
  <2>1. Good(f) /\ Keeps(f)
    BY DEF QueueInv, DiskInv
  <2> QED
    BY <2>1 DEF Good, Keeps, Sound
<1> QED
  BY <1>1, QueueCorrect, PTL

LEMMA RowsApart ==
  ASSUME NEW f, Sound(f), NEW x \in Rows(f), NEW y \in Rows(f), x.id = y.id
  PROVE  x = y
<1>1. CASE \E i \in DOMAIN f.inbox : x = f.inbox[i]
  <2>1. PICK i \in DOMAIN f.inbox : x = f.inbox[i]
    BY <1>1
  <2>2. ASSUME NEW a \in f.data, NEW j \in DOMAIN a.rows, y = a.rows[j]
        PROVE  FALSE
    BY <2>1, <2>2 DEF Sound, Apart
  <2>3. PICK j \in DOMAIN f.inbox : y = f.inbox[j]
    BY <2>2, RowsIn
  <2> QED
    BY <2>1, <2>3 DEF Sound, Distinct
<1>2. CASE \E a \in f.data : \E i \in DOMAIN a.rows : x = a.rows[i]
  <2>1. PICK a \in f.data : \E i \in DOMAIN a.rows : x = a.rows[i]
    BY <1>2
  <2>2. PICK i \in DOMAIN a.rows : x = a.rows[i]
    BY <2>1
  <2>3. ASSUME NEW j \in DOMAIN f.inbox, y = f.inbox[j]
        PROVE  FALSE
    BY <2>2, <2>3 DEF Sound, Apart
  <2>4. PICK b \in f.data : \E j \in DOMAIN b.rows : y = b.rows[j]
    BY <2>3, RowsIn
  <2>5. PICK j \in DOMAIN b.rows : y = b.rows[j]
    BY <2>4
  <2>6. a = b
    BY <2>2, <2>5 DEF Sound, Apart
  <2> QED
    BY <2>2, <2>5, <2>6 DEF Sound, Distinct
<1> QED
  BY <1>1, <1>2, RowsIn

\* A request id has one answer, however often it is repeated and whatever
\* happened in between (enqueue and archive search every file for the id).
THEOREM AnswersAreUnique == Spec => []OneAnswer
<1>1. QueueInv => OneAnswer
  <2> SUFFICES ASSUME QueueInv, NEW x \in told, NEW y \in told, x.id = y.id
               PROVE  x = y
    BY DEF OneAnswer
  <2>1. Sound(fs) /\ told \subseteq Rows(fs) \cup fs.data
    BY NowGood DEF QueueInv, Good, Keeps
  <2>2. CASE x \in Rows(fs) /\ y \in Rows(fs)
    BY <2>1, <2>2, RowsApart
  <2>3. CASE x \in fs.data \/ y \in fs.data
    BY <2>1, <2>3 DEF Sound
  <2> QED
    BY <2>1, <2>2, <2>3
<1> QED
  BY <1>1, QueueCorrect, PTL

\* No failure needs a person: the next start opens what is left of the files,
\* and a queue without a doubt has nothing to repair.
THEOREM QueueIsRepairable == Spec => []Repairable
<1>1. QueueInv => TypeOK
  <2> SUFFICES ASSUME QueueInv PROVE TypeOK
    OBVIOUS
  <2>1. survivors \subseteq Files /\ fs \in survivors /\ \A f \in survivors : f.inbox # <<>> => f.has
    BY DEF QueueInv, DiskInv, Good
  <2> QED
    BY <2>1 DEF QueueInv, MemoryTypes, TypeOK
<1>2. QueueInv => AlwaysOpens
  <2> SUFFICES ASSUME QueueInv, NEW f \in survivors
               PROVE  Resumable(f) /\ Valid(Resumed(f))
    BY DEF AlwaysOpens
  <2>1. Good(f) /\ Keeps(f)
    BY DEF QueueInv, DiskInv
  <2>2. PICK g : g = Resumed(f)
    OBVIOUS
  <2>3. Good(g) /\ g.receipts = g.data /\ Resumable(f)
    BY <2>1, <2>2, ResumedGood
  <2> QED
    BY <2>2, <2>3, SoundValid DEF Good
<1>3. QueueInv => CertainIsClean
  BY DEF QueueInv
<1> QED
  BY <1>1, <1>2, <1>3, QueueCorrect, PTL DEF Repairable
=============================================================================
