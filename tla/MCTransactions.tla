--------------------------- MODULE MCTransactions ---------------------------
(***************************************************************************)
(* Small instances of Transactions for TLC.                                *)
(***************************************************************************)
EXTENDS Transactions, MeterParsing

CONSTANTS cp1, cp2, w1, w2

MCOneCharger == {cp1}
MCTwoChargers == {cp1, cp2}
MCConnectorIds == {1}
MCOneWorker == {w1}
MCTwoWorkers == {w1, w2}
MCOneReading == {0}
MCReadings == {0, 1}
MCStartAges == {0, OrphanAge + 1}

\* Nothing orders or chooses among chargers or workers; for runs without liveness.
MCSymmetry == Permutations(MCTwoChargers) \cup Permutations(MCTwoWorkers)

\* parse_meter_values against what it should come to, for every meterValue of up
\* to three items: registers in both units, values that are no number, and other
\* measurands among them.
MCItems == SampledValues({1})

ASSUME ParsingAssumption ==
  \A n \in 0 .. 3 : \A sampledValue \in [1 .. n -> MCItems] : RowIsLastWord(sampledValue)

\* Transactions hears of a MeterValues what its last meterValue says: any register
\* value, or none, as its readings are chosen there.
ASSUME ReadingsAssumption ==
  {ParseRow(sampledValue).energy_wh : sampledValue \in [1 .. 2 -> MCItems]} = {1, Kilo, NoValue}
=============================================================================
