---------------------------- MODULE MarketEvidence ----------------------------
(***************************************************************************)
(* The collection of public market evidence                                *)
(* (application/market-evidence-collection.ts, the normalization of the    *)
(* series and the readers of adapters/bybit-v5/public-market-client.ts).   *)
(*                                                                         *)
(* Bars, funding points and open interest of a symbol are read one after   *)
(* the other while the exchange's clock goes on; the evidence is given one *)
(* cutoff, and a series whose interval ended in between is read again.     *)
(* One symbol stands for the six: they share the times and nothing else.   *)
(*                                                                         *)
(* The exchange is taken to publish a bar and a point when they are due;   *)
(* its time is answered by servers of which one may be a tick behind.      *)
(***************************************************************************)
EXTENDS Naturals, FiniteSets

CONSTANTS
    BarLengths,      \* the lengths of the bars, in ticks
    FundingLength,   \* the ticks between two funding points
    InterestLength,  \* the ticks between two points of open interest
    Depth,           \* the bars and the points asked of a series
    FirstTick,       \* the clock when the collection begins
    LastTick         \* bound: the clock's last value

ASSUME LengthAssumption ==
    /\ BarLengths \subseteq Nat \ {0}
    /\ FundingLength \in Nat \ {0} /\ InterestLength \in Nat \ {0}
    /\ Depth \in Nat \ {0}
    /\ FirstTick \in Nat \ {0} /\ LastTick \in Nat /\ FirstTick <= LastTick

VARIABLES
    clock,   \* the exchange's clock
    survey   \* the collection

marketVars == <<clock, survey>>

-----------------------------------------------------------------------------
Ticks == 0 .. LastTick

\* A bar as it was read: closed by the time the reader was told, final by the clock.
Bar == [start : Ticks, closed : BOOLEAN, final : BOOLEAN]

\* The series in the order they are read: bars, funding, open interest.
Series == ({1} \X BarLengths) \cup {<<2, FundingLength>>, <<3, InterestLength>>}

ReadFirst(one, other) == one[1] < other[1] \/ (one[1] = other[1] /\ one[2] <= other[2])

\* The collection: its step, the three times, what was read (of instrument and ticker
\* the moment), the series still to read, those with a diagnostic, and whether there is
\* a diagnostic beside them.
Survey == [step : {"begin", "instrument", "ticker", "series", "candidate", "again",
                   "final", "ended", "failed"},
           initial : Ticks, candidate : Ticks, cutoff : Ticks,
           bars : [BarLengths -> SUBSET Bar],
           points : [{FundingLength, InterestLength} \X {2, 3} -> SUBSET Ticks],
           instrument : SUBSET Ticks,
           ticker : SUBSET Ticks,
           left : SUBSET Series,
           faulty : SUBSET Series,
           fault : BOOLEAN]

MarketTypeOK == clock \in Ticks /\ survey \in Survey

MarketInit ==
    /\ clock = FirstTick
    /\ survey = [step |-> "begin", initial |-> 0, candidate |-> 0, cutoff |-> 0,
                 bars |-> [length \in BarLengths |-> {}],
                 points |-> [point \in {FundingLength, InterestLength} \X {2, 3} |-> {}],
                 instrument |-> {}, ticker |-> {}, left |-> {}, faulty |-> {},
                 fault |-> FALSE]

\* The instrument was read, and with it the funding interval.
Known == survey.instrument # {}

-----------------------------------------------------------------------------
(* The exchange.                                                            *)

TickPasses ==
    /\ clock < LastTick
    /\ survey.step \notin {"begin", "ended", "failed"}
    /\ clock' = clock + 1
    /\ UNCHANGED survey

\* The time a server answers.
ToldTimes == {clock - 1, clock}

\* The moments an interval of this length begins, up to one.
Starts(length, upTo) == {moment \in Ticks : moment % length = 0 /\ moment <= upTo}

\* The last of a set of moments.
Newest(moments, count) ==
    {moment \in moments :
        Cardinality({other \in moments : other > moment}) < count}

\* readOhlcv asks for one bar more than the depth, the newest still forming.
BarsAt(length, told) ==
    {[start |-> start, closed |-> start + length <= told, final |-> start + length <= clock] :
        start \in Newest(Starts(length, clock), Depth + 1)}

PointsAt(length) == Newest(Starts(length, clock), Depth + 1)

-----------------------------------------------------------------------------
(* The normalization of a series.                                           *)

Evenly(moments, length) ==
    \A moment \in moments :
        (\E other \in moments : other < moment) => moment - length \in moments

\* normalizeOhlcvSeries: the last bars that were closed when read and end by the cutoff.
ClosedBars(length, cutoff) ==
    LET closed == {bar \in survey.bars[length] : bar.closed /\ bar.start + length <= cutoff}
        starts == Newest({bar.start : bar \in closed}, Depth)
    IN  {bar \in closed : bar.start \in starts}

BarsComplete(length, cutoff) ==
    LET starts == {bar.start : bar \in ClosedBars(length, cutoff)}
    IN  Cardinality(starts) = Depth /\ Evenly(starts, length)

\* normalizeFundingObservations, normalizeOpenInterestSeries
PointsShown(series, cutoff) ==
    Newest({point \in survey.points[<<series[2], series[1]>>] : point <= cutoff}, Depth)

\* The cadence of funding is known from the instrument alone.
PointsComplete(series, cutoff) ==
    LET points == PointsShown(series, cutoff)
    IN  /\ Cardinality(points) = Depth
        /\ (series[1] = 3 \/ Known) => Evenly(points, series[2])

SeriesComplete(series, cutoff) ==
    IF series[1] = 1 THEN BarsComplete(series[2], cutoff) ELSE PointsComplete(series, cutoff)

\* intervalBoundaryCrossed, fundingBoundaryCrossed: an interval ended in between.
Crossed(series, first, second) == first \div series[2] # second \div series[2]

-----------------------------------------------------------------------------
(* The collection.                                                          *)

\* createMarketEvidenceBundle refuses an instrument that is newer than the cutoff.
Ended(cutoff, fault, faulty) ==
    survey' = [survey EXCEPT
                  !.step = IF \A moment \in survey.instrument : moment <= cutoff
                           THEN "ended" ELSE "failed",
                  !.cutoff = cutoff,
                  !.fault = @ \/ fault,
                  !.faulty = @ \cup faulty]

ReadInitialTime ==
    /\ survey.step = "begin"
    /\ UNCHANGED clock
    /\ \/ \E told \in ToldTimes :
              survey' = [survey EXCEPT !.step = "instrument", !.initial = told]
       \/ survey' = [survey EXCEPT !.step = "failed"]

ReadInstrument ==
    /\ survey.step = "instrument"
    /\ UNCHANGED clock
    /\ \/ survey' = [survey EXCEPT !.step = "ticker", !.instrument = {clock}]
       \/ survey' = [survey EXCEPT !.step = "ticker", !.fault = TRUE]

ReadTicker ==
    /\ survey.step = "ticker"
    /\ UNCHANGED clock
    /\ \/ survey' = [survey EXCEPT !.step = "series", !.left = Series, !.ticker = {clock}]
       \/ survey' = [survey EXCEPT !.step = "series", !.left = Series, !.fault = TRUE]

\* The next series is read; what is read again replaces what was read before, and a
\* read that fails leaves a diagnostic of its series.
ReadNext(told, next) ==
    \E series \in survey.left :
        LET left == survey.left \ {series}
            read == [survey EXCEPT !.left = left,
                                   !.step = IF left = {} THEN next ELSE @]
        IN  /\ \A other \in survey.left : ReadFirst(series, other)
            /\ UNCHANGED clock
            /\ \/ /\ series[1] = 1
                  /\ survey' = [read EXCEPT !.bars[series[2]] = BarsAt(series[2], told)]
               \/ /\ series[1] # 1
                  /\ survey' = [read EXCEPT !.points[<<series[2], series[1]>>] =
                                                PointsAt(series[2])]
               \/ survey' = [read EXCEPT !.faulty = @ \cup {series}]

ReadSeries == survey.step = "series" /\ ReadNext(survey.initial, "candidate")

\* Bars and funding are read again when one of their intervals ended since the first
\* time, or when they are short; open interest is not.
ToReadAgain(candidate) ==
    {series \in Series \ survey.faulty :
        /\ (series[1] = 2 => Known)
        /\ series[1] # 3
        /\ Crossed(series, survey.initial, candidate) \/ ~SeriesComplete(series, candidate)}

ReadCandidateTime ==
    /\ survey.step = "candidate"
    /\ UNCHANGED clock
    /\ \/ \E told \in ToldTimes :
              \/ told < survey.initial /\ Ended(survey.initial, TRUE, {})
              \/ /\ told >= survey.initial /\ ToReadAgain(told) = {}
                 /\ Ended(told, FALSE, {})
              \/ /\ told >= survey.initial /\ ToReadAgain(told) # {}
                 /\ survey' = [survey EXCEPT !.step = "again", !.candidate = told,
                                             !.left = ToReadAgain(told)]
       \/ Ended(survey.initial, TRUE, {})

ReadAgain == survey.step = "again" /\ ReadNext(survey.candidate, "final")

\* A variant of CrossedSince that forgets the bars.
CrossedSinceFunding(cutoff) ==
    {series \in Series : /\ series[1] = 2 /\ Known
                         /\ Crossed(series, survey.candidate, cutoff)}

\* The series of which an interval ended between the candidate and the final cutoff,
\* whether they were read again or not.
CrossedSince(cutoff) ==
    {series \in Series : /\ series[1] # 3
                         /\ (series[1] = 2 => Known)
                         /\ Crossed(series, survey.candidate, cutoff)}

ReadFinalTime ==
    /\ survey.step = "final"
    /\ UNCHANGED clock
    /\ \/ \E told \in ToldTimes :
              \/ told < survey.candidate /\ Ended(survey.candidate, TRUE, {})
              \/ /\ told >= survey.candidate
                 /\ Ended(told, FALSE, CrossedSince(told))
       \/ Ended(survey.candidate, TRUE, {})

MarketNext ==
    \/ TickPasses
    \/ ReadInitialTime \/ ReadInstrument \/ ReadTicker \/ ReadSeries
    \/ ReadCandidateTime \/ ReadAgain \/ ReadFinalTime

MarketSpec == MarketInit /\ [][MarketNext]_marketVars

-----------------------------------------------------------------------------
(* The bundle.                                                              *)

MarketComplete ==
    /\ survey.step = "ended"
    /\ survey.faulty = {} /\ ~survey.fault
    /\ Known
    /\ \A moment \in survey.ticker : moment <= survey.cutoff
    /\ \A series \in Series : SeriesComplete(series, survey.cutoff)

\* A bundle that is complete is what the market was at its cutoff, however long it
\* took to read and whatever ended meanwhile: of every length the last bars that had
\* closed, each with its final values, the last funding points, a ticker no later,
\* and open interest that misses no point from before the collection began
\* (buildBundle, market-evidence-bundle.ts:634).
MarketIsWhole ==
    MarketComplete =>
        /\ \A length \in BarLengths :
              /\ {bar.start : bar \in ClosedBars(length, survey.cutoff)} =
                     Newest({start \in Starts(length, survey.cutoff) :
                                 start + length <= survey.cutoff}, Depth)
              /\ \A bar \in ClosedBars(length, survey.cutoff) : bar.final
        /\ PointsShown(<<2, FundingLength>>, survey.cutoff) =
               Newest(Starts(FundingLength, survey.cutoff), Depth)
        /\ \E moment \in survey.ticker : moment <= survey.cutoff
        /\ \A moment \in Newest(Starts(InterestLength, survey.initial), 1) :
              \E point \in PointsShown(<<3, InterestLength>>, survey.cutoff) :
                  moment <= point /\ point <= survey.cutoff
===============================================================================
