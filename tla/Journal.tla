------------------------------- MODULE Journal -------------------------------
(***************************************************************************)
(* core/journal.py: the append-only run history of one project, written by *)
(* every `report` over it.  The file is a sequence of records, newlines    *)
(* and torn records; an append looks at the last byte, then writes.  A run *)
(* may be killed, and a write may fail part way, at any point.             *)
(***************************************************************************)
EXTENDS Integers, Sequences, FiniteSets

CONSTANTS Runs,     \* run_ids
          AtOnce,   \* bound: runs over one project at the same time
          Newline,  \* the end of a line
          Torn      \* part of a record

Record(e, r) == [event |-> e, run_id |-> r]
Records == {Record(e, r) : e \in {"begin", "finish"}, r \in Runs}

ASSUME MarksAreNoRecords == Newline \notin Records /\ Torn \notin Records

VARIABLES file,  \* runs.jsonl, a record or a mark at a time
          pc,    \* per run: between which of its two appends it is
          mid,   \* per run: what _ends_mid_line told it
          saved  \* history: records appended without error by a run whose
                 \* look at the file still held

journalVars == <<file, pc, mid, saved>>

Stages == {"new", "begin", "work", "finish", "done", "dead"}
Appending == {"begin", "finish"}
Running == {r \in Runs : pc[r] \in Appending \cup {"work"}}

JournalTypeOK ==
    /\ file \in Seq(Records \cup {Newline, Torn})
    /\ pc \in [Runs -> Stages]
    /\ mid \in [Runs -> BOOLEAN]
    /\ saved \subseteq Records

JournalInit ==
    /\ file = <<>>
    /\ pc = [r \in Runs |-> "new"]
    /\ mid = [r \in Runs |-> FALSE]
    /\ saved = {}

-----------------------------------------------------------------------------
\* _ends_mid_line: the last thing written was never terminated.
EndsMidLine == file # <<>> /\ file[Len(file)] # Newline

\* A run about to append believes the file is sealed, and it is not: the file
\* changed since it looked, or it could not look.
Blind(r) == ~mid[r] /\ EndsMidLine

\* _records: a line is read back if it is one whole record.
Reads(i) ==
    /\ file[i] \in Records
    /\ i > 1 => file[i - 1] = Newline
    /\ i < Len(file) => file[i + 1] = Newline

Readable == {file[i] : i \in {j \in 1..Len(file) : Reads(j)}}

Seal(r) == IF mid[r] THEN <<Newline>> ELSE <<>>

\* Slip: no seal before the record.
LineUnsealed(r) == <<Record(pc[r], r), Newline>>

\* What _append writes in one flush.
Line(r) == Seal(r) \o <<Record(pc[r], r), Newline>>

\* What reaches the file when the flush is cut off.
Leftovers(r) ==
    {<<>>, Seal(r), Seal(r) \o <<Torn>>, Seal(r) \o <<Record(pc[r], r)>>,
     Seal(r) \o <<Record(pc[r], r), Newline>>}

After == [begin |-> "work", finish |-> "done"]

-----------------------------------------------------------------------------
\* begin or finish opens the file and looks at its end; a look that fails
\* answers "no".
Look(r) ==
    /\ \/ pc[r] = "new" /\ Cardinality(Running) < AtOnce
          /\ pc' = [pc EXCEPT ![r] = "begin"]
       \/ pc[r] = "work" /\ pc' = [pc EXCEPT ![r] = "finish"]
    /\ \E seen \in {EndsMidLine, FALSE} : mid' = [mid EXCEPT ![r] = seen]
    /\ UNCHANGED <<file, saved>>

\* The write is flushed and the file closed.
Flush(r) ==
    /\ pc[r] \in Appending
    /\ file' = file \o Line(r)
    /\ saved' = IF Blind(r) THEN saved ELSE saved \cup {Record(pc[r], r)}
    /\ pc' = [pc EXCEPT ![r] = After[pc[r]]]
    /\ UNCHANGED mid

\* OSError: whatever was written stays, and the run goes on as if it were all.
Lose(r) ==
    /\ pc[r] \in Appending
    /\ \E left \in Leftovers(r) : file' = file \o left
    /\ pc' = [pc EXCEPT ![r] = After[pc[r]]]
    /\ UNCHANGED <<mid, saved>>

\* The run is killed, or the provider fails it: `report` exits with no finish.
Die(r) ==
    /\ \/ pc[r] \in Appending /\ \E left \in Leftovers(r) : file' = file \o left
       \/ pc[r] = "work" /\ UNCHANGED file
    /\ pc' = [pc EXCEPT ![r] = "dead"]
    /\ UNCHANGED <<mid, saved>>

JournalNext == \E r \in Runs : Look(r) \/ Flush(r) \/ Lose(r) \/ Die(r)

JournalSpec == JournalInit /\ [][JournalNext]_journalVars

-----------------------------------------------------------------------------
\* Safety.  A record that was appended to a file as the run had seen it reads
\* back for ever: no later run that dies mid-write, fails to look or appends
\* beside another can take it away.
NothingElseLost == saved \subseteq Readable

\* Action property.  "A run that dies mid-write costs its own line and nothing
\* else": whatever a run that saw the file right does, a torn append included,
\* every record that read back, and another run's unterminated one, still does.
CostsItsOwnLine ==
    [][\A r \in Runs :
          pc'[r] # pc[r] /\ ~(pc[r] \in Appending /\ Blind(r)) =>
             Readable \subseteq Readable']_journalVars
=============================================================================
