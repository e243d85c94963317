---------------------------- MODULE RaceDatabase ----------------------------
(***************************************************************************)
(* The race database (src/src/race/race.cc): static race events, one for   *)
(* each instruction and access type, static races, one for each ordered    *)
(* pair of events, and the races of this and of earlier executions.        *)
(* Detectors and verifiers add races, the analyses of ad-hoc               *)
(* synchronisation take them back or mark them benign, and the database is *)
(* saved for the next execution, where instructions are named by the       *)
(* identifiers of StaticInfo.                                              *)
(***************************************************************************)
EXTENDS StaticInfo, Sequences, SequencesExt

CONSTANTS
  Thread,
  LineOf        \* the source line of a place, what DebugInfoStr prints

\* RaceDB: a race's field "at", the places of its two accesses, is not in
\* the code; only the properties read it.
EmptyDB ==
  [events |-> NoEntries, statics |-> NoEntries, races |-> <<>>, racy |-> {},
   currEvent |-> 0, currStatic |-> 0, currExec |-> 0]

\* RaceDBProto: the database without its counters, the races without status
EmptyDBFile == [events |-> NoEntries, statics |-> NoEntries, races |-> <<>>,
                racy |-> {}]

\* StaticRaceEvent and StaticRace: what they are found by (Hash, Match); a
\* static race has its events in order
Event(inst, type) == [inst |-> inst, type |-> type]
Pair(e0, e1) == <<e0, e1>>

\* FindStaticRaceEvent, GetStaticRaceEvent
FindEvent(db, inst, type) ==
  LET found == {e \in DOMAIN db.events : db.events[e] = Event(inst, type)}
  IN  IF found = {} THEN NoId ELSE CHOOSE e \in found : TRUE

CreateEvent(db, inst, type) ==
  LET id == db.currEvent + 1
  IN  [db EXCEPT !.events = id :> Event(inst, type) @@ @, !.currEvent = id]

KnowEvent(db, inst, type) ==
  IF FindEvent(db, inst, type) # NoId THEN db ELSE CreateEvent(db, inst, type)

\* FindStaticRace, GetStaticRace
FindStatic(db, e0, e1) ==
  LET found == {s \in DOMAIN db.statics : db.statics[s] = Pair(e0, e1)}
  IN  IF found = {} THEN NoId ELSE CHOOSE s \in found : TRUE

CreateStatic(db, e0, e1) ==
  LET id == db.currStatic + 1
  IN  [db EXCEPT !.statics = id :> Pair(e0, e1) @@ @, !.currStatic = id]

KnowStatic(db, e0, e1) ==
  IF FindStatic(db, e0, e1) # NoId THEN db ELSE CreateStatic(db, e0, e1)

\* A Race of two RaceEvents; an access is [thd, inst, type, place]
Race(exec, a0, a1, static, pair, status) ==
  [exec |-> exec, thds |-> <<a0.thd, a1.thd>>, events |-> pair,
   static |-> static, status |-> status, at |-> <<a0.place, a1.place>>]

CreateRace(db, a0, a1) ==
  LET known   == KnowEvent(KnowEvent(db, a0.inst, a0.type), a1.inst, a1.type)
      e0      == FindEvent(known, a0.inst, a0.type)
      e1      == FindEvent(known, a1.inst, a1.type)
      static  == KnowStatic(known, e0, e1)
      race    == Race(db.currExec, a0, a1, FindStatic(static, e0, e1),
                      Pair(e0, e1), "harmful")
  IN  [static EXCEPT !.races = Append(@, race)]

\* RemoveRace: the static race of this order and every race of it
RemoveRace(db, i0, p0, i1, p1) ==
  LET e0     == FindEvent(db, i0, p0)
      e1     == FindEvent(db, i1, p1)
      static == FindStatic(db, e0, e1)
  IN  IF e0 = NoId \/ e1 = NoId \/ static = NoId
        THEN db
        ELSE [db EXCEPT
                !.statics = [s \in DOMAIN @ \ {static} |-> @[s]],
                !.races = SelectSeq(@, LAMBDA r : r.static # static)]

\* FindRacesByOneSide: the races t0's access took part in, each with the
\* event of the other side
RacesByOneSide(db, t0, inst, type) ==
  LET e == FindEvent(db, inst, type)
      IsMine(k, side) == /\ db.races[k].events[side] = e
                         /\ db.races[k].thds[side] = t0
  IN  {<<k, IF IsMine(k, 1) THEN 2 ELSE 1>> :
         k \in {j \in DOMAIN db.races :
                  e # NoId /\ (IsMine(j, 1) \/ IsMine(j, 2))}}

\* The end of LoopDB's ProcessWriteReadSync: the races of the write that ends
\* a loop with the loop's own reads are benign
MarkBenign(db, t0, wrInst, loopReads) ==
  LET benign ==
        {x[1] : x \in {y \in RacesByOneSide(db, t0, wrInst, "write") :
                         LET e == db.events[db.races[y[1]].events[y[2]]]
                         IN  e.type = "read" /\ e.inst \in loopReads}}
  IN  [db EXCEPT !.races =
         [k \in DOMAIN @ |-> IF k \in benign
                               THEN [@[k] EXCEPT !.status = "benign"]
                               ELSE @[k]]]

SetRacyInst(db, inst) == [db EXCEPT !.racy = @ \cup {inst}]

\* Load: the DEBUG_ASSERTs (the scripts use the debug build) stop the tool
\* at an instruction the static information does not know
Loadable(file, info) ==
  /\ \A e \in DOMAIN file.events : file.events[e].inst \in DOMAIN info.insts
  /\ \A s \in DOMAIN file.statics : \A k \in 1..2 :
       file.statics[s][k] \in DOMAIN file.events
  /\ \A r \in ToSet(file.races) : /\ r.static \in DOMAIN file.statics
                                  /\ ToSet(r.events) \subseteq DOMAIN file.events
  /\ file.racy \subseteq DOMAIN info.insts

\* Mutants: the next identifier taken from the number of entries; every
\* loaded race harmful again
LoadDBCounting(file) ==
  [events |-> file.events, statics |-> file.statics,
   races |-> [k \in DOMAIN file.races |->
                [file.races[k] EXCEPT !.status = "unknown"]],
   racy |-> file.racy,
   currEvent |-> LastId(file.events),
   currStatic |-> Cardinality(DOMAIN file.statics),
   currExec |-> 1 + Max({0} \cup {r.exec : r \in ToSet(file.races)})]

LoadDBHarmful(file) ==
  [events |-> file.events, statics |-> file.statics,
   races |-> [k \in DOMAIN file.races |->
                [file.races[k] EXCEPT !.status = "harmful"]],
   racy |-> file.racy,
   currEvent |-> LastId(file.events), currStatic |-> LastId(file.statics),
   currExec |-> 1 + Max({0} \cup {r.exec : r \in ToSet(file.races)})]

LoadDB(file) ==
  [events |-> file.events, statics |-> file.statics,
   races |-> [k \in DOMAIN file.races |->
                [file.races[k] EXCEPT !.status = "unknown"]],
   racy |-> file.racy,
   currEvent |-> LastId(file.events), currStatic |-> LastId(file.statics),
   currExec |-> 1 + Max({0} \cup {r.exec : r \in ToSet(file.races)})]

\* Save; the file has no status
DBFile(db) ==
  [events |-> db.events, statics |-> db.statics,
   races |-> [k \in DOMAIN db.races |->
                [db.races[k] EXCEPT !.status = "none"]],
   racy |-> db.racy]

\* RaceReport::Save: each pair of lines once, in the order of the races, and an
\* empty line; then the number of harmful races
PairText(db, info, r) ==
  LET PlaceOf(e) == CHOOSE p \in Place : Names(info, db.events[e].inst, p)
  IN  [k \in 1..2 |-> LineOf[PlaceOf(db.statics[r.static][k])]]

ReportLines(db, info) ==
  LET harmful == SelectSeq(db.races, LAMBDA r : r.status = "harmful")
      AddPair(r, lines) == LET text == [pair |-> PairText(db, info, r)]
                           IN  IF Contains(lines, text) THEN lines
                                                        ELSE Append(lines, text)
  IN  Append(FoldLeft(LAMBDA lines, r : AddPair(r, lines), <<>>, harmful), [blank |-> 0])

CountLine(db) == [races |-> Len(SelectSeq(db.races, LAMBDA r : r.status = "harmful"))]
=============================================================================
