------------------------------ MODULE MCAnswers ------------------------------
(***************************************************************************)
(* From the files to an answer, in one run: the process that keeps the     *)
(* index, the ranking of what it finds, one streamed answer, and the quota *)
(* that answers use up.                                                    *)
(***************************************************************************)
EXTENDS MCIngestIndex, AskQuota, AnswerStream, Ranking

CONSTANT spare   \* the second file
VARIABLE scenario
MCVars == <<vars, quotaVars, streamVars, rankVars, scenario>>

\* Runs of the index and calls of the quota are named alike.
Symmetry == MCSymmetry

\* Bounds of "server": one file, and a call that may throw.
OneFile ==
    /\ file'[spare] = file[spare]
    /\ \A p \in Paths : file'[p].hash # note
\* Bounds of "crash": one run at a time, and fewer edits; files are forgotten before
\* the first crash and compacted after it.
OneRun ==
    /\ \A r, q \in Runs : run'[r].pc # "idle" /\ run'[q].pc # "idle" => r = q
    /\ \A r \in Runs : run'[r].kind \in {"none", "ingest", IF crashed THEN "compact" ELSE "forget"}
    /\ file'[spare].mtime = 0
    /\ \A p \in Paths :
          /\ file'[p].mtime <= 1 /\ file'[p].hash # empty
          /\ up' /\ timer'[p] = "off" => timer[p] = "off"
\* Bounds of "quota": one change of the policy, and calls that begin in the first month.
OneChange ==
    /\ \A o \in Puts : put[o] = NoCall /\ put'[o] # NoCall => policy = Defaults
    /\ (\E c \in QuotaCalls : qcall[c] = NoCall /\ qcall'[c] # NoCall) => month = 0
\* Bounds of "ranking": one origin is boosted, and the filter leaves something.
OneBoost == kept' # {} /\ boost'["q"] = 1

\* Three passages of two files: the first and the last are alike.
MCPassages == 1..3
MCOriginOf == <<"p", "q", "p">>
MCDense == {-1, 0, 2}
MCAlike == [xy \in MCPassages \X MCPassages |->
    IF xy[1] = xy[2] THEN 2 ELSE IF MCOriginOf[xy[1]] = MCOriginOf[xy[2]] THEN 1 ELSE 0]
MCSize == <<2, 1, 1>>

NoFile == \A p \in Paths : ~file[p].there /\ file[p].hash = empty
NoSearch ==
    /\ stage = "search" /\ alpha = 3
    /\ lex = [x \in Passages |-> 0] /\ dense = [x \in Passages |-> -1]
    /\ kept = Origins /\ boost = [p \in Origins |-> 1] /\ bonus = lex
    /\ score = lex /\ told = lex /\ ranked = <<>> /\ explained = <<>> /\ context = <<>>
MCInit ==
    /\ Init /\ QuotaInit /\ StreamInit
    /\ \/ /\ scenario = "server"
          /\ ~file[spare].there /\ file[spare].hash = empty
          /\ \A p \in Paths : file[p].hash # note
          /\ NoSearch
       \/ /\ scenario = "crash"
          /\ \A p \in Paths : file[p].hash # empty
          /\ NoSearch
       \/ scenario \in {"quota", "stream"} /\ NoFile /\ NoSearch
       \/ scenario = "ranking" /\ NoFile /\ RankInit
MCNext ==
    /\ UNCHANGED scenario
    /\ \/ /\ scenario = "server" /\ Next /\ OneFile
          /\ UNCHANGED <<quotaVars, streamVars, rankVars>>
       \/ /\ scenario = "crash" /\ CrashNext /\ OneRun /\ ~\E r \in Runs, p \in Paths : Fail(r, p)
          /\ UNCHANGED <<quotaVars, streamVars, rankVars>>
       \/ /\ scenario = "quota" /\ Assert(QuotaTypeOK, "quota")
          /\ QuotaNext /\ OneChange
          /\ UNCHANGED <<vars, streamVars, rankVars>>
       \/ /\ scenario = "stream" /\ Assert(StreamTypeOK, "stream")
          /\ StreamNext
          /\ UNCHANGED <<vars, quotaVars, rankVars>>
       \/ /\ scenario = "ranking" /\ RankNext /\ OneBoost
          /\ UNCHANGED <<vars, quotaVars, streamVars>>
MCSpec == MCInit /\ [][MCNext]_MCVars
=============================================================================
