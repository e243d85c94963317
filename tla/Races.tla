--------------------------------- MODULE Races ---------------------------------
(***************************************************************************)
(* What the happens-before detectors make of the clocks: Djit (djit.cc),   *)
(* LiteRace (literace.cc), which is Djit on some of the accesses,          *)
(* FastTrack (fast_track.cc) and Loft (loft.cc) watch the same program, on *)
(* one memory unit; units do not interact.  A race is                      *)
(* <<u, kind of u's access, t, kind of t's access>>, t being the later     *)
(* one.  trueRaces collects the races of the execution itself, from the    *)
(* happens-before relation of module Detector.                             *)
(***************************************************************************)
EXTENDS Detector

CONSTANTS
  Adaptive,   \* LiteRace's samp_type, which is ADAPTIVE or FIX
  RateParam,  \* its rate_param
  Burst       \* the accesses of a sampling burst, 100 in literace.h

ASSUME SamplingAssumption ==
  Adaptive \in BOOLEAN /\ RateParam \in Nat \ {0} /\ Burst \in Nat \ {0}

VARIABLES
  djit, lite,                  \* DjitMeta, and what was reported
  sampler,                     \* the counters of LrMeta
  ftReader, ftWriter,          \* FtMeta::reader_epoch, writer_epoch
  ftReaderVc, shared,          \* FtMeta::reader_vc, shared
  lastrld,                     \* the values LoftMutexMeta::lastrld_thd_id may have
  ftRaces,                     \* what was reported
  trueRaces,                   \* what should be
  lastRead, lastWrite,         \* which of u's accesses was its last of the kind
  lostReader,                  \* AfterPthreadJoin has dropped a reader of a shared location
  lateStart                    \* a ThreadStart came after more had happened
                               \* before the parent than before the child

djitVars == <<djit, lite, sampler>>
ftVars   == <<ftReader, ftWriter, ftReaderVc, shared, ftRaces, lostReader>>
trueVars == <<trueRaces, lastRead, lastWrite, lateStart>>
raceVars == <<djitVars, ftVars, trueVars, lastrld>>
racesVars == <<vars, raceVars>>

Epoch     == [thd : Thread \cup {NoThread}, clk : Nat]
NoEpoch   == [thd |-> NoThread, clk |-> 0]
DjitMeta  == [reader : Clock, writer : Clock, races : SUBSET Race]

RacesTypeOK ==
  /\ TypeOK
  /\ djit \in DjitMeta /\ lite \in DjitMeta
  /\ sampler \in [rate : 1..1000, scount : 1..Burst, ncount : Nat]
  /\ ftReader \in Epoch /\ ftWriter \in Epoch
  /\ ftReaderVc \in Clock /\ shared \in BOOLEAN
  /\ lastrld \in [Mutex -> SUBSET Thread]
  /\ ftRaces \subseteq Race /\ trueRaces \subseteq Race
  /\ lastRead \in Clock /\ lastWrite \in Clock
  /\ lostReader \in BOOLEAN /\ lateStart \in BOOLEAN

NewDjitMeta == [reader |-> Zero, writer |-> Zero, races |-> {}]
NewSampler  == [rate |-> 1000, scount |-> Burst, ncount |-> 0]

\* lastrld_thd_id has no initialiser: it may be any thread's.
RacesInit ==
  /\ Init
  /\ djit = NewDjitMeta /\ lite = NewDjitMeta /\ sampler = NewSampler
  /\ ftReader = NoEpoch /\ ftWriter = NoEpoch
  /\ ftReaderVc = Zero /\ shared = FALSE
  /\ lastrld = [m \in Mutex |-> Thread]
  /\ ftRaces = {} /\ trueRaces = {}
  /\ lastRead = Zero /\ lastWrite = Zero
  /\ lostReader = FALSE /\ lateStart = FALSE

-----------------------------------------------------------------------------
\* The threads other than t whose entry of d is concurrent with t.
Concurrent(d, t) == {u \in Thread \ {t} : d[u] > vc[t][u]}

(* Djit: what an access of t makes of the metas d. *)

\* Mutant: a read is checked against the readers.
DjitReadOfReaders(d, t) ==
  IF d.reader[t] = Now(t) THEN d
  ELSE [d EXCEPT !.reader[t] = Now(t),
                 !.races = @ \cup RacesWith(Concurrent(d.reader, t), "W", t, "R")]

DjitRead(d, t) ==
  IF d.reader[t] = Now(t) THEN d    \* same time frame
  ELSE [d EXCEPT !.reader[t] = Now(t),
                 !.races = @ \cup RacesWith(Concurrent(d.writer, t), "W", t, "R")]

\* Mutant: a write is checked against the writers only.
DjitWriteOfWriters(d, t) ==
  IF d.writer[t] = Now(t) THEN d
  ELSE [d EXCEPT !.writer[t] = Now(t),
                 !.races = @ \cup RacesWith(Concurrent(d.writer, t), "W", t, "W")]

DjitWrite(d, t) ==
  IF d.writer[t] = Now(t) THEN d
  ELSE [d EXCEPT !.writer[t] = Now(t),
                 !.races = @ \cup RacesWith(Concurrent(d.writer, t), "W", t, "W")
                             \cup RacesWith(Concurrent(d.reader, t), "R", t, "W")]

(* LiteRace: bursts of accesses that Djit sees, but for the last of each,    *)
(* and between them ncount that it does not; ADAPTIVE makes these ever more. *)

UpdateRate ==
  LET slower == sampler.rate \div RateParam
      rate   == IF ~Adaptive THEN sampler.rate ELSE IF slower < 1 THEN 1 ELSE slower IN
  [rate |-> rate, scount |-> Burst, ncount |-> (Burst * (1000 - rate)) \div rate]

Sampled == sampler.ncount = 0 /\ sampler.scount > 1

LiteRace(seen) ==
  /\ lite' = IF Sampled THEN seen ELSE lite
  /\ sampler' = IF Sampled THEN [sampler EXCEPT !.scount = @ - 1]
                ELSE IF sampler.ncount = 0 THEN UpdateRate
                ELSE [sampler EXCEPT !.ncount = @ - 1]

(* FastTrack: one epoch for the last write; for the reads an epoch as long   *)
(* as they are ordered, a vector clock once they are not.                    *)

\* The thread of epoch e, if e is concurrent with t.
Ahead(e, t) ==
  {u \in Thread \ {t} : e.thd = u /\ e.clk > vc[t][u]}

\* Mutant: the reader epoch follows every read; reads are never shared.
FtReadExclusive(t) ==
  /\ ftRaces' = ftRaces \cup RacesWith(Ahead(ftWriter, t), "W", t, "R")
  /\ ftReader' = [thd |-> t, clk |-> Now(t)]
  /\ UNCHANGED <<ftReaderVc, shared, ftWriter, lostReader>>

FtRead(t) ==
  LET now == [thd |-> t, clk |-> Now(t)] IN
  IF ftReader = now THEN UNCHANGED ftVars
  ELSE /\ ftRaces' = ftRaces \cup RacesWith(Ahead(ftWriter, t), "W", t, "R")
       /\ IF shared
          THEN /\ ftReaderVc' = [ftReaderVc EXCEPT ![t] = Now(t)]
               /\ UNCHANGED <<ftReader, shared>>
          ELSE IF Ahead(ftReader, t) = {}
          THEN ftReader' = now /\ UNCHANGED <<ftReaderVc, shared>>
          ELSE /\ ftReaderVc' = [ftReaderVc EXCEPT ![t] = Now(t), ![ftReader.thd] = ftReader.clk]
               /\ shared' = TRUE
               /\ UNCHANGED ftReader
       /\ UNCHANGED <<ftWriter, lostReader>>

FtWrite(t) ==
  LET now == [thd |-> t, clk |-> Now(t)]
      reading == IF shared THEN Concurrent(ftReaderVc, t) ELSE Ahead(ftReader, t) IN
  IF ftWriter = now THEN UNCHANGED ftVars
  ELSE /\ ftRaces' = ftRaces \cup RacesWith(Ahead(ftWriter, t), "W", t, "W")
                              \cup RacesWith(reading, "R", t, "W")
       /\ ftWriter' = now
       /\ shared' = FALSE
       /\ IF shared THEN ftReaderVc' = Zero /\ ftReader' = NoEpoch
                    ELSE UNCHANGED <<ftReaderVc, ftReader>>
       /\ UNCHANGED lostReader

\* FastTrack::AfterPthreadJoin, after Detector's: the joined child leaves
\* reader_vc.  When one reader is left the location is exclusive again, but
\* that reader's entry stays in reader_vc and reader_epoch is not set to it.
\* Nor need a later writer have heard of the joined child's read.
PruneReaders(t) ==
  LET c == arg[t]
      rest == {u \in Thread \ {c} : ftReaderVc[u] # 0} IN
  /\ Move(t, "pruning", "run")
  /\ arg' = [arg EXCEPT ![t] = NoArg]
  /\ ftReaderVc' = [ftReaderVc EXCEPT ![c] = 0]
  /\ shared' = (shared /\ ~ (ftReaderVc[c] # 0 /\ Cardinality(rest) <= 1))
  /\ lostReader' = (lostReader \/ (shared /\ ftReaderVc[c] # 0))
  /\ UNCHANGED <<left, vc, lockVars, rwVars, condVars, barVars, semVars, epochs, hb,
                 ftReader, ftWriter, ftRaces, djitVars, trueVars, lastrld>>

(* The truth. *)

HbConcurrent(last, t) == {u \in Thread \ {t} : last[u] > hb[t][u]}

TrueRead(t) ==
  /\ trueRaces' = trueRaces \cup RacesWith(HbConcurrent(lastWrite, t), "W", t, "R")
  /\ lastRead' = [lastRead EXCEPT ![t] = Len(epochs'[t])]
  /\ UNCHANGED <<lastWrite, lateStart>>

TrueWrite(t) ==
  /\ trueRaces' = trueRaces \cup RacesWith(HbConcurrent(lastWrite, t), "W", t, "W")
                            \cup RacesWith(HbConcurrent(lastRead, t), "R", t, "W")
  /\ lastWrite' = [lastWrite EXCEPT ![t] = Len(epochs'[t])]
  /\ UNCHANGED <<lastRead, lateStart>>

-----------------------------------------------------------------------------
BeforeMemRead(t) ==
  /\ Touch(t)
  /\ djit' = DjitRead(djit, t) /\ LiteRace(DjitRead(lite, t))
  /\ FtRead(t) /\ TrueRead(t)
  /\ UNCHANGED lastrld

BeforeMemWrite(t) ==
  /\ Touch(t)
  /\ djit' = DjitWrite(djit, t) /\ LiteRace(DjitWrite(lite, t))
  /\ FtWrite(t) /\ TrueWrite(t)
  /\ UNCHANGED lastrld

\* The threads of a step that releases m through ProcessUnlock.
Releases(t, m) == pc[t] = "run" /\ pc'[t] \in {"unlocking", "condEnter"} /\ arg'[t] = m

\* t's ThreadStart hands it accesses that do not happen before t.
StartsLate(t) == pc[t] = "starting" /\ hb[arg[t]] # hb[t]

SyncRaces(t) ==
  /\ Sync(t)
  /\ lateStart' = (lateStart \/ StartsLate(t))
  /\ lastrld' = [m \in Mutex |-> IF Releases(t, m) THEN {t} ELSE lastrld[m]]
  /\ UNCHANGED <<djitVars, ftVars, trueRaces, lastRead, lastWrite>>

RacesNext ==
  \E t \in Thread :
    \/ SyncRaces(t)
    \/ BeforeMemRead(t) \/ BeforeMemWrite(t)
    \/ AfterPthreadJoin(t, "pruning") /\ UNCHANGED raceVars
    \/ PruneReaders(t)

RacesSpec == RacesInit /\ [][RacesNext]_racesVars

-----------------------------------------------------------------------------
(* Properties. *)

\* No false report: whatever Djit or FastTrack reports is a race of the
\* execution, between the very accesses it names; nor does LiteRace report any
\* other, whichever accesses its metas have missed.
NoFalseReport == djit.races \cup lite.races \cup ftRaces \subseteq trueRaces

\* No race goes unnoticed (in programs whose only synchronisation is mutexes,
\* creation and join): once the execution has a race, Djit has reported one,
\* unless a child's start was recorded late.  Accesses skipped because they
\* fall into the same time frame cost nothing.
FirstRaceFound == trueRaces # {} /\ ~lateStart => djit.races # {}

\* Without the exception: an access that the parent makes after pthread_create
\* has returned is not taken to happen before the child.
EveryFirstRaceFound == trueRaces # {} => djit.races # {}

\* FastTrack's epochs lose nothing against Djit's clocks: it reports a race
\* exactly when Djit has one, unless a join has made it forget a reader that had
\* not been alone.
FastTrackAgrees == ~lostReader => (ftRaces # {} <=> djit.races # {})

\* Without the exception: reads that were made before a join and do not happen
\* before a later write are still found after the join.
FastTrackComplete == djit.races # {} => ftRaces # {}

\* Loft's two shortcuts.  A lock by the thread that released last need not be
\* joined: the thread's clock is past the mutex's.  An unlock never finds its
\* own epoch in the mutex already, so the other shortcut never applies.
LoftRules ==
  \A m \in Mutex, t \in Thread :
    /\ t \in lastrld[m] /\ pc[t] \notin {"unborn", "starting", "reaped"} =>
         HappensBefore(mutexVc[m], vc[t])
    /\ pc[t] = "run" /\ holder[m] = t => mutexVc[m][t] < vc[t][t]
=============================================================================
