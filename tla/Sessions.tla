------------------------------ MODULE Sessions ------------------------------
(***************************************************************************)
(* Executions of the tool one after the other, by hand or by               *)
(* src/group_verifier.py, and the three files they share: the static       *)
(* information, the race database and the race report.  An execution loads *)
(* both databases, finds races, and at its exit writes the race database,  *)
(* appends to the report and writes the static information; it may be      *)
(* killed anywhere, between two of these steps and after a file was        *)
(* truncated but before it is written.  The script runs the tool once for  *)
(* each group of statement pairs, keeps the lines of each report and       *)
(* removes the three files, and writes the kept lines at its end.          *)
(***************************************************************************)
EXTENDS RaceDatabase

CONSTANTS
  TypeOf,     \* whether the instruction at a place reads or writes
  Group,      \* the number of groups the script verifies
  MaxRuns,    \* bound: executions of the tool
  MaxRaces    \* bound: races an execution finds, each reported once

ASSUME SessionAssumption ==
  /\ {Group, MaxRuns, MaxRaces} \subseteq Nat
  /\ LineOf \in [Place -> Nat]
  /\ TypeOf \in [Place -> {"read", "write"}]

VARIABLES
  disk,    \* the files: sinfo.db, race.db and the lines of race.rp
  tool,    \* where the tool is: "off", "running", or a step of its exit
  info,    \* sinfo_
  db,      \* race_db_
  found,   \* the accesses that raced in this execution
  script,  \* the script: where it is, its group, race_info
  due,     \* ghost: what race.rp must hold, the races of each execution and
           \* whether their count is there
  kept,    \* ghost: the same for the script's groups that are done
  runs     \* executions so far

vars == <<disk, tool, info, db, found, script, due, kept, runs>>

NoRun == [pc |-> "idle", group |-> 0, lines |-> <<>>]

Init ==
  /\ disk = [sinfo |-> EmptyFile, race |-> EmptyDBFile, report |-> <<>>]
  /\ tool = "off"
  /\ info = NoInfo /\ db = EmptyDB /\ found = {}
  /\ script = NoRun
  /\ due = <<>> /\ kept = <<>> /\ runs = 0

ToolEnds == tool' = "off" /\ info' = NoInfo /\ db' = EmptyDB /\ found' = {}
Unmoved  == <<script, due, kept, runs>>

-----------------------------------------------------------------------------
(* The tool.                                                               *)

\* PostSetup and HandlePostSetup; the images are loaded after them, the
\* model loads all of them here
Setup ==
  /\ tool = "off" /\ runs < MaxRuns
  /\ script.pc \in {"idle", "run"}
  /\ runs' = runs + 1
  /\ script' = IF script.pc = "run" THEN [script EXCEPT !.pc = "wait"]
                                    ELSE script
  /\ LET loaded == LoadInfo(disk.sinfo)
         known  == FoldSet(LAMBDA name, s : KnowImage(s, name),
                           KnowImage(loaded, PseudoImage), Image)
     IN IF Loadable(disk.race, loaded)
          THEN /\ tool' = "running"
               /\ info' = known
               /\ db' = LoadDB(disk.race)
               /\ found' = {}
          ELSE ToolEnds
  /\ UNCHANGED <<disk, due, kept>>

\* GetInst: an instruction is instrumented before it is executed
Instrument(place) ==
  /\ tool = "running"
  /\ InstAt(info, place) = NoId
  /\ info' = KnowInst(info, place)
  /\ UNCHANGED <<disk, tool, db, found, script, due, kept, runs>>

RacesNow == SelectSeq(db.races, LAMBDA r : r.exec = db.currExec)

\* ReportRace of a detector or a verifier
ReportRace(t0, p0, t1, p1) ==
  LET Access(t, p) == [thd |-> t, inst |-> InstAt(info, p),
                       type |-> TypeOf[p], place |-> p]
  IN
  /\ tool = "running"
  /\ Cardinality(found) < MaxRaces
  /\ <<Access(t0, p0), Access(t1, p1)>> \notin found
  /\ NoId \notin {InstAt(info, p0), InstAt(info, p1)}
  /\ db' = CreateRace(db, Access(t0, p0), Access(t1, p1))
  /\ found' = found \cup {<<Access(t0, p0), Access(t1, p1)>>}
  /\ UNCHANGED <<disk, tool, info, script, due, kept, runs>>

\* ProcessWriteReadSync of AdhocSync's detector: both orders of a race that
\* turned out to be a synchronisation
AdhocRemove(race) ==
  LET a0 == race[1]  a1 == race[2] IN
  /\ tool = "running" /\ race \in found
  /\ {a0.type, a1.type} = {"read", "write"}
  /\ db' = RemoveRace(RemoveRace(db, a0.inst, a0.type, a1.inst, a1.type),
                      a1.inst, a1.type, a0.inst, a0.type)
  /\ UNCHANGED <<disk, tool, info, found, script, due, kept, runs>>

\* ProcessWriteReadSync of LoopDB
LoopBenign(race) ==
  LET w == IF race[1].type = "write" THEN race[1] ELSE race[2] IN
  /\ tool = "running" /\ race \in found
  /\ \E reads \in SUBSET DOMAIN info.insts :
       db' = MarkBenign(db, w.thd, w.inst, reads)
  /\ UNCHANGED <<disk, tool, info, found, script, due, kept, runs>>

\* ProcessFree of a detector: the racy instructions of the freed Meta
FreeRacyMeta(race) ==
  /\ tool = "running" /\ race \in found
  /\ db' = SetRacyInst(db, race[2].inst)
  /\ UNCHANGED <<disk, tool, info, found, script, due, kept, runs>>

-----------------------------------------------------------------------------
(* The exit: ProgramExit calls HandleProgramExit, which saves the race     *)
(* database and the report, and then saves the static information.  Each   *)
(* file is opened with trunc and then written.                             *)

ExitStep(from, to, files) ==
  /\ tool = from
  /\ tool' = to
  /\ disk' = files
  /\ UNCHANGED <<info, db, found, script, kept, runs>>

TruncateRaceDB ==
  /\ ExitStep("running", "dbOpen", [disk EXCEPT !.race = EmptyDBFile])
  /\ UNCHANGED due
WriteRaceDB ==
  /\ ExitStep("dbOpen", "dbSaved", [disk EXCEPT !.race = DBFile(db)])
  /\ UNCHANGED due

\* RaceReport::Save appends, and std::endl flushes the pairs before the count
AppendReport ==
  /\ ExitStep("dbSaved", "pairsOut",
              [disk EXCEPT !.report = @ \o ReportLines(db, info)])
  /\ due' = Append(due, [races |-> RacesNow, counted |-> FALSE])
AppendCount ==
  /\ ExitStep("pairsOut", "reported",
              [disk EXCEPT !.report = Append(@, CountLine(db))])
  /\ due' = [due EXCEPT ![Len(due)].counted = TRUE]

TruncateInfo ==
  /\ ExitStep("reported", "infoOpen", [disk EXCEPT !.sinfo = EmptyFile])
  /\ UNCHANGED due
WriteInfo ==
  /\ tool = "infoOpen"
  /\ disk' = [disk EXCEPT !.sinfo = InfoFile(info)]
  /\ ToolEnds
  /\ UNCHANGED Unmoved

\* The tool, or the program it runs, is killed
Kill ==
  /\ tool # "off"
  /\ ToolEnds
  /\ UNCHANGED <<disk, script, due, kept, runs>>

-----------------------------------------------------------------------------
(* The script.                                                             *)

\* remove_race_files; the script may be interrupted after each file
RemoveStep(from, to, files, left) ==
  /\ tool = "off" /\ script.pc = from
  /\ disk' = files
  /\ script' = [script EXCEPT !.pc = to]
  /\ due' = left
  /\ UNCHANGED <<tool, info, db, found, kept, runs>>

RemoveInfo ==
  RemoveStep("remove", "removeReport", [disk EXCEPT !.sinfo = EmptyFile], due)
RemoveReport ==
  RemoveStep("removeReport", "removeDB", [disk EXCEPT !.report = <<>>], <<>>)
RemoveDB ==
  RemoveStep("removeDB", "next", [disk EXCEPT !.race = EmptyDBFile], due)

\* group_verifier
ScriptStart ==
  /\ tool = "off" /\ script.pc = "idle"
  /\ script' = [pc |-> "remove", group |-> 0, lines |-> <<>>]
  /\ kept' = <<>>
  /\ UNCHANGED <<disk, tool, info, db, found, due, runs>>

NextGroup ==
  /\ script.pc = "next" /\ script.group < Group
  /\ script' = [script EXCEPT !.pc = "run", !.group = @ + 1]
  /\ UNCHANGED <<disk, tool, info, db, found, due, kept, runs>>

\* load_race_info: without a report of the tool open() raises, and the script
\* ends with the lines it kept
LoadRaceInfo ==
  /\ script.pc = "wait" /\ tool = "off"
  /\ IF disk.report = <<>>
       THEN script' = NoRun /\ UNCHANGED kept
       ELSE /\ script' = [script EXCEPT !.pc = "remove",
                                        !.lines = @ \o disk.report]
            /\ kept' = kept \o due
  /\ UNCHANGED <<disk, tool, info, db, found, due, runs>>

\* The end of group_verifier: the report is opened for writing, which
\* truncates it, and becomes the kept lines
OpenReport ==
  /\ script.pc = "next" /\ script.group = Group
  /\ disk' = [disk EXCEPT !.report = <<>>]
  /\ script' = [script EXCEPT !.pc = "write"]
  /\ due' = <<>>
  /\ UNCHANGED <<tool, info, db, found, kept, runs>>
WriteRaces ==
  /\ script.pc = "write"
  /\ disk' = [disk EXCEPT !.report = script.lines]
  /\ script' = NoRun
  /\ due' = kept
  /\ UNCHANGED <<tool, info, db, found, kept, runs>>

ScriptKilled ==
  /\ script.pc # "idle" /\ tool = "off"
  /\ script' = NoRun
  /\ UNCHANGED <<disk, tool, info, db, found, due, kept, runs>>

-----------------------------------------------------------------------------

Running ==
  \/ \E p \in Place : Instrument(p)
  \/ \E t0, t1 \in Thread, p0, p1 \in Place :
       /\ t0 # t1 /\ "write" \in {TypeOf[p0], TypeOf[p1]}
       /\ ReportRace(t0, p0, t1, p1)
  \/ \E race \in found :
       AdhocRemove(race) \/ LoopBenign(race) \/ FreeRacyMeta(race)

Exit == \/ TruncateRaceDB \/ WriteRaceDB \/ AppendReport \/ AppendCount
        \/ TruncateInfo \/ WriteInfo

Script == \/ ScriptStart \/ RemoveInfo \/ RemoveReport \/ RemoveDB
          \/ NextGroup \/ LoadRaceInfo \/ OpenReport \/ WriteRaces \/ ScriptKilled

Next == Setup \/ Running \/ Exit \/ Kill \/ Script

Spec == Init /\ [][Next]_vars

-----------------------------------------------------------------------------
(* Properties.                                                             *)

\* A race that was saved still names the two accesses that raced, however
\* many executions loaded and saved it and wherever one of them was killed:
\* its events are of its static race, and the identifiers of their
\* instructions, if sinfo.db knows them at all, stand for the places where
\* the accesses were.  Identifiers are given by counters that every load sets
\* anew (RaceDB::Load, StaticInfo::Load), from two files that are written
\* one after the other.
RacesNamed ==
  \A r \in ToSet(disk.race.races) :
    /\ disk.race.statics[r.static] = r.events
    /\ \A k \in 1..2 : Names(disk.sinfo,
                             disk.race.events[r.events[k]].inst, r.at[k])

\* race.rp holds, for each execution since it was removed, each pair of
\* lines that raced in that execution and was not found benign, no race of an
\* earlier execution, and the number of races unless the tool was killed
\* before it wrote it: what the script writes at its end is what its
\* groups found (RaceReport::Save appends; load_race_info and
\* remove_race_files of src/group_verifier.py).
LinesOf(r) == [pair |-> [k \in 1..2 |-> LineOf[r.at[k]]]]
Harmful(races) == {r \in ToSet(races) : r.status = "harmful"}
ReportsOwnRaces ==
  /\ \A x \in ToSet(disk.report) :
       "pair" \in DOMAIN x =>
         \E e \in ToSet(due) : \E r \in Harmful(e.races) : x = LinesOf(r)
  /\ \A e \in ToSet(due) : \A r \in Harmful(e.races) :
       LinesOf(r) \in ToSet(disk.report)
  /\ LET counted == SelectSeq(due, LAMBDA e : e.counted) IN
     [n \in DOMAIN counted |->
        [races |-> Len(SelectSeq(counted[n].races, LAMBDA r : r.status = "harmful"))]]
       = SelectSeq(disk.report, LAMBDA x : "races" \in DOMAIN x)

\* What the assertions at race.cc:166 and :222 say: an instruction that
\* race.db names is in the static information.  It fails when the tool is
\* killed after it saved the race database and before it saved the static
\* information, or the script after it removed only sinfo.db; every later
\* execution then stops at the assertion.
NextLoads ==
  tool = "off" /\ script.pc = "idle" => Loadable(disk.race, LoadInfo(disk.sinfo))
=============================================================================
