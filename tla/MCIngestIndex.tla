--------------------------- MODULE MCIngestIndex ---------------------------
(* Small instances of IngestIndex for TLC. *)
EXTENDS IngestIndex, FiniteSetsExt, TLC

CONSTANTS empty, note, essay   \* contents of no, one and two chunks

MCContents == {empty, note, essay}
MCTwoContents == {note, essay}
MCChunks == [c \in MCContents |-> CASE c = empty -> 0 [] c = note -> 1 [] c = essay -> 2]
MCTwoChunks == [c \in MCTwoContents |-> IF c = note THEN 1 ELSE 2]
\* Runs are interchangeable slots.
MCSymmetry == Permutations(Runs)

\* Bounds: no file yet; and the writes, to any of them.
LiveInit == Init /\ \A p \in Paths : ~file[p].there /\ file[p].hash = note
LiveNext == Next /\ MapThenSumSet(LAMBDA p : file'[p].mtime, Paths) <= MaxEdits
LiveSpec == LiveInit /\ [][LiveNext]_vars /\ Fairness
============================================================================
