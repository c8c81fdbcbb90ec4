------------------------------ MODULE Startup -------------------------------
(***************************************************************************)
(* What one process keeps on disk, and how it starts again after a crash   *)
(* between any two statements: the history of messages (pkg/msgstore), the *)
(* migrations and the seed (internal/db), and the ids that it draws for    *)
(* new rows (internal/service).  No two statements share a transaction.    *)
(***************************************************************************)
EXTENDS Naturals, Sequences, FiniteSetsExt

CONSTANTS
    Seeds,      \* the rows of seed.json for this node: numbers, by table
    MaxHistory, \* Store.max
    LongLines,  \* messages whose line is too long for the scanner that loads it
    MaxClock,   \* bound: values of the clock that idCounter starts from
    MaxSaves,   \* bound: messages that are saved
    MaxDraws,   \* bound: rows that are added
    MaxCrashes  \* bound: crashes

Tables == {"INGENIEROS", "USUARIOS", "DISPOSITIVOS"}
Migrations == {1, 2}

AllSeeds == UNION {Seeds[t] : t \in Tables}

\* A file is finite, so that there is a largest number; it names an engineer.
ASSUME SeedsAssumption ==
    /\ Seeds \in [Tables -> SUBSET (Nat \ {0})] /\ Seeds["INGENIEROS"] # {}
    /\ \E last \in AllSeeds : \A s \in AllSeeds : s <= last
ASSUME StartupBounds ==
    /\ MaxHistory \in Nat \ {0} /\ LongLines \subseteq 1..MaxSaves
    /\ {MaxClock, MaxSaves, MaxDraws, MaxCrashes} \subseteq Nat

VARIABLES
    stage,    \* where the process stands
    pos,      \* the lines that the scanner of loadFromFile has read
    version,  \* _schema_version, 0 without a row
    schema,   \* the migrations whose statement was run
    rows,     \* the ids in each table, without the prefix of the node
    counter,  \* idCounter
    entries,  \* Store.entries; at the stage "load", entries of loadFromFile
    file,     \* the lines of the JSONL file
    saved, draws, crashes, \* history: how often
    gap,      \* history: a crash came between ALTER TABLE and its version
    torn,     \* history: a crash came between two rows of the seed
    behind,   \* history: a start took a clock that is behind the stored ids
    dropped   \* history: an insertion was ignored

diskVars == <<version, schema, rows, file>>
historyVars == <<saved, draws, crashes, gap, torn, behind, dropped>>
memoryVars == <<pos, counter, entries>>
startupVars == <<stage, diskVars, memoryVars, historyVars>>

Saves == 1..MaxSaves

\* A line is a message; or the start of one, without its end; or such a start
\* and the message that was appended to it.  The last two may be too long.
Torn == 0
Glued == MaxSaves + 1
LongTorn == MaxSaves + 2
LongGlued == MaxSaves + 3
Lines == Saves \cup {Torn, Glued, LongTorn, LongGlued}

StartupTypeOK ==
    /\ stage \in {"down", "load", "open", "apply", "record", "count", "seed", "run", "fatal"}
    /\ version \in 0..2
    /\ schema \in SUBSET Migrations
    /\ rows \in [Tables -> SUBSET Nat]
    /\ counter \in Nat
    /\ entries \in Seq(Saves) /\ (stage # "load" => Len(entries) <= MaxHistory)
    /\ file \in Seq(Lines) /\ pos \in 0..Len(file)
    /\ saved \in 0..MaxSaves /\ draws \in 0..MaxDraws /\ crashes \in 0..MaxCrashes
    /\ {gap, torn, behind, dropped} \subseteq BOOLEAN

\* A new database, or one of the first schema, with the seed or without.
StartupInit ==
    /\ stage = "down"
    /\ version \in {0, 1} /\ schema = 1..version
    /\ rows \in {[t \in Tables |-> {}]} \cup (IF version = 1 THEN {Seeds} ELSE {})
    /\ counter = 0
    /\ entries = <<>> /\ file = <<>> /\ pos = 0
    /\ saved = 0 /\ draws = 0 /\ crashes = 0
    /\ gap = FALSE /\ torn = FALSE /\ behind = FALSE /\ dropped = FALSE

-----------------------------------------------------------------------------
(* The history of messages.                                                *)

\* Mutant: nothing is discarded.
AllOf(s, n) == s

\* Mutant: the oldest are kept.
FirstOf(s, n) == IF Len(s) > n THEN SubSeq(s, 1, n) ELSE s

LastOf(s, n) == IF Len(s) > n THEN SubSeq(s, Len(s) - n + 1, Len(s)) ELSE s

IsLong(line) == line \in LongLines \cup {LongTorn, LongGlued}

\* A line that cannot be parsed is skipped.
ScanLine ==
    /\ stage = "load" /\ pos < Len(file) /\ ~IsLong(file[pos + 1])
    /\ pos' = pos + 1
    /\ entries' = IF file[pos + 1] \in Saves THEN Append(entries, file[pos + 1]) ELSE entries
    /\ UNCHANGED <<stage, diskVars, counter, historyVars>>

\* The scanner stops for good at the end, or at a line that is too long.
Loaded ==
    /\ stage = "load" /\ (pos < Len(file) => IsLong(file[pos + 1]))
    /\ stage' = "open" /\ pos' = 0
    /\ entries' = LastOf(entries, MaxHistory)
    /\ UNCHANGED <<diskVars, counter, historyVars>>

HasNoEnd(f) == f # <<>> /\ f[Len(f)] \in {Torn, LongTorn}

\* A line joins the one before it when that has no end.
AppendLine(f, line) ==
    IF HasNoEnd(f)
    THEN [f EXCEPT ![Len(f)] = IF @ = LongTorn \/ IsLong(line) THEN LongGlued ELSE Glued]
    ELSE Append(f, line)

\* What a crash leaves of a line that is written.
CutLine(f, line) ==
    LET starts == {Torn} \cup (IF IsLong(line) THEN {LongTorn} ELSE {}) IN
    IF HasNoEnd(f)
    THEN {[f EXCEPT ![Len(f)] = IF @ = LongTorn THEN @ ELSE start] : start \in starts}
    ELSE {Append(f, start) : start \in starts}

Save ==
    /\ stage = "run" /\ saved < MaxSaves
    /\ saved' = saved + 1
    /\ entries' = LastOf(Append(entries, saved + 1), MaxHistory)
    /\ file' = AppendLine(file, saved + 1)
    /\ UNCHANGED <<stage, pos, version, schema, rows, counter, draws, crashes, gap, torn, behind, dropped>>

-----------------------------------------------------------------------------
(* The start: main, db.Open, migrate, Seed.                                *)

\* idCounter takes the clock when the process starts; the clock goes round.
main ==
    /\ stage \in {"down", "fatal"}
    /\ stage' = "load" /\ pos' = 0 /\ entries' = <<>>
    /\ counter' \in 0..MaxClock
    /\ UNCHANGED <<diskVars, historyVars>>

openAt ==
    /\ stage = "open"
    /\ stage' = IF version = 2 THEN "count" ELSE "apply"
    /\ UNCHANGED <<diskVars, memoryVars, historyVars>>

\* Migration 1 is "IF NOT EXISTS"; a column cannot be added twice.
Apply ==
    /\ stage = "apply"
    /\ IF version = 1 /\ 2 \in schema
       THEN stage' = "fatal" /\ UNCHANGED schema
       ELSE stage' = "record" /\ schema' = schema \cup {version + 1}
    /\ UNCHANGED <<version, rows, file, memoryVars, historyVars>>

\* Mutant: the last version of all is recorded.
RecordLast ==
    /\ stage = "record"
    /\ version' = 2
    /\ stage' = IF version + 1 = 2 THEN "count" ELSE "apply"
    /\ UNCHANGED <<schema, rows, file, memoryVars, historyVars>>

Record ==
    /\ stage = "record"
    /\ version' = version + 1
    /\ stage' = IF version + 1 = 2 THEN "count" ELSE "apply"
    /\ UNCHANGED <<schema, rows, file, memoryVars, historyVars>>

Stored == UNION {rows[t] : t \in Tables}

\* One engineer is enough to skip the seed, and the minimum of the counter.
CountIngenieros ==
    /\ stage = "count"
    /\ IF rows["INGENIEROS"] = {}
       THEN stage' = "seed" /\ UNCHANGED behind
       ELSE stage' = "run" /\ behind' = (behind \/ \E i \in Stored : counter < i)
    /\ UNCHANGED <<diskVars, memoryVars, saved, draws, crashes, gap, torn, dropped>>

\* Mutant: the last loop ends at the first row of another node.
MissingButDevices(t) == IF t = "DISPOSITIVOS" THEN {} ELSE Seeds[t] \ rows[t]

Missing(t) == Seeds[t] \ rows[t]

\* Three loops; the order of the rows in one of them is left open.
Seed == \E t \in Tables : \E r \in Missing(t) :
    /\ stage = "seed"
    /\ t # "INGENIEROS" => Missing("INGENIEROS") = {}
    /\ t = "DISPOSITIVOS" => Missing("USUARIOS") = {}
    /\ rows' = [rows EXCEPT ![t] = @ \cup {r}]
    /\ UNCHANGED <<stage, version, schema, file, memoryVars, historyVars>>

\* Mutant: the counter starts at the last id of the seed, not after it.
OneTooLow(min) == counter' = IF counter >= min THEN counter ELSE min - 1

SetMinIDCounter(min) == counter' = IF counter >= min THEN counter ELSE min

\* Seed returns the largest number of its rows.
Seeded ==
    /\ stage = "seed" /\ \A t \in Tables : Missing(t) = {}
    /\ SetMinIDCounter(Max(AllSeeds))
    /\ stage' = "run"
    /\ UNCHANGED <<diskVars, pos, entries, historyVars>>

-----------------------------------------------------------------------------
(* New rows, and crashes.                                                  *)

\* newID, and the "INSERT OR IGNORE" of the commit handler.
AddRow(t) ==
    /\ stage = "run" /\ draws < MaxDraws
    /\ draws' = draws + 1
    /\ counter' = counter + 1
    /\ rows' = [rows EXCEPT ![t] = @ \cup {counter + 1}]
    /\ dropped' = (dropped \/ counter + 1 \in rows[t])
    /\ UNCHANGED <<stage, pos, version, schema, file, entries, saved, crashes, gap, torn, behind>>

\* Save may be cut short.
ProcessCrash ==
    /\ stage \notin {"down", "fatal"} /\ crashes < MaxCrashes
    /\ crashes' = crashes + 1
    /\ stage' = "down" /\ pos' = 0 /\ counter' = 0 /\ entries' = <<>>
    /\ file' \in {file} \cup (IF stage = "run" THEN CutLine(file, saved + 1) ELSE {})
    /\ gap' = (gap \/ (stage = "record" /\ version = 1))
    /\ torn' = (torn \/ (stage = "seed" /\ rows["INGENIEROS"] # {}
                         /\ \E t \in Tables : Missing(t) # {}))
    /\ UNCHANGED <<version, schema, rows, saved, draws, behind, dropped>>

StartupNext ==
    \/ main \/ ScanLine \/ Loaded \/ openAt \/ Apply \/ Record \/ CountIngenieros \/ Seed \/ Seeded
    \/ Save \/ \E t \in Tables : AddRow(t)
    \/ ProcessCrash

StartupSpec == StartupInit /\ [][StartupNext]_startupVars

-----------------------------------------------------------------------------
(* Properties.                                                             *)

\* db.go:94: the version tells which migrations were run, whatever crashes: none
\* is missing when the process works, and only a crash between a statement that
\* cannot be repeated and its version keeps the process from starting.
SchemaIsRecorded ==
    /\ 1..version \subseteq schema
    /\ stage \in {"count", "seed", "run"} => version = 2
    /\ stage = "fatal" => gap

\* seed.go:47: a node that works has the whole seed, unless a crash came between
\* two of its rows.
SeedIsWhole ==
    stage = "run" /\ ~torn => \A t \in Tables : Seeds[t] \subseteq rows[t]

\* ticket_service.go:38: ids do not collide with what is stored, as long as no
\* start that skipped the seed found its clock behind the stored ids.
FreshIds == ~behind => ~dropped

Increasing(s) == \A i, j \in DOMAIN s : i < j => s[i] < s[j]

\* The lines that the next start will parse.
Readable == {i \in DOMAIN file : file[i] \in Saves /\ \A j \in 1..i : ~IsLong(file[j])}

\* store.go:28: the history survives a restart.  Once it is loaded it is in the order
\* in which it was saved, and of the messages that can be read from the file it has
\* every one for which it has room, the latest first; lost are only lines that a
\* crash cut or glued, and everything from a line too long on.
HistoryIsTail ==
    stage \notin {"down", "load"} =>
        /\ Increasing(entries)
        /\ \A i \in Readable :
              \/ \E k \in DOMAIN entries : entries[k] = file[i]
              \/ Len(entries) = MaxHistory /\ \A k \in DOMAIN entries : file[i] < entries[k]

-----------------------------------------------------------------------------
(* The inductive invariant.                                                *)

\* A statement that cannot be repeated has its version, or will have it, or
\* lost it in a crash.
Recorded ==
    /\ SchemaIsRecorded
    /\ stage \in {"apply", "record"} => version < 2
    /\ stage = "record" => version + 1 \in schema
    /\ 2 \in schema => version = 2 \/ gap \/ (stage = "record" /\ version = 1)

\* Engineers come first: without one there is nothing, with one there is all
\* of the seed, except while it is written and after a crash in it.
Whole ==
    /\ rows["INGENIEROS"] = {} => stage # "run" /\ Stored = {}
    /\ stage = "seed" => \A t \in Tables : rows[t] \subseteq Seeds[t]
    /\ stage # "seed" /\ rows["INGENIEROS"] # {} =>
         torn \/ \A t \in Tables : Seeds[t] \subseteq rows[t]

\* The counter of a process that works is not below any row.
Ahead == stage = "run" /\ ~behind => \A i \in Stored : i <= counter

\* The messages that the file holds are in the order in which they were saved.
FileInOrder ==
    /\ \A i \in DOMAIN file : file[i] \in Saves => file[i] <= saved
    /\ \A i, j \in DOMAIN file :
          i < j /\ file[i] \in Saves /\ file[j] \in Saves => file[i] < file[j]

EntriesInOrder == Increasing(entries) /\ \A k \in DOMAIN entries : entries[k] <= saved

\* The entries are exactly the messages of the lines that were read.
Loading ==
    stage = "load" =>
        /\ \A i \in 1..pos : ~IsLong(file[i])
        /\ \A i \in 1..pos : file[i] \in Saves => \E k \in DOMAIN entries : entries[k] = file[i]
        /\ \A k \in DOMAIN entries : \E i \in 1..pos : entries[k] = file[i]

History == FileInOrder /\ EntriesInOrder /\ Loading /\ HistoryIsTail

StartupIInv == StartupTypeOK /\ Recorded /\ Whole /\ Ahead /\ FreshIds /\ History
=============================================================================
