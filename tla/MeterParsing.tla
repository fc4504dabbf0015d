---------------------------- MODULE MeterParsing ----------------------------
(***************************************************************************)
(* parse_meter_values of hub/ocpp/handlers.py: what one meterValue says of *)
(* the register, the power and the state of charge.  A value is a number,  *)
(* or no number at all; a unit is the one the code looks for or another,   *)
(* which it takes for the base unit.                                       *)
(***************************************************************************)
EXTENDS Naturals, Sequences
LOCAL INSTANCE SequencesExt

CONSTANT NoValue  \* None

ENERGY == "Energy.Active.Import.Register"
POWER == "Power.Active.Import"
SOC == "SoC"

Kilo == 1000

\* One sampledValue; measurand "" is a missing one.
SampledValues(numbers) ==
  [measurand : {"", ENERGY, POWER, SOC, "Voltage"}, kilo : BOOLEAN, value : numbers \cup {NoValue}]

\* _to_wh and _to_w.
Scaled(sv) ==
  IF sv.value = NoValue THEN NoValue ELSE IF sv.kilo THEN Kilo * sv.value ELSE sv.value

Measures(sv) == IF sv.measurand = "" THEN ENERGY ELSE sv.measurand

\* One turn of the inner loop: a register or power value that is no number
\* overwrites what an earlier item said, a state of charge does not.
Take(row, sv) ==
  CASE Measures(sv) = ENERGY -> [row EXCEPT !.energy_wh = Scaled(sv)]
    [] Measures(sv) = POWER -> [row EXCEPT !.power_w = Scaled(sv)]
    [] Measures(sv) = SOC /\ sv.value # NoValue -> [row EXCEPT !.soc = sv.value]
    [] OTHER -> row

EmptyRow == [energy_wh |-> NoValue, power_w |-> NoValue, soc |-> NoValue]

ParseRow(sampledValue) == FoldLeft(Take, EmptyRow, sampledValue)

\* on_meter_values: all rows become samples, the last one is what it reports.
ParseMeterValues(meterValue) == [n \in DOMAIN meterValue |-> ParseRow(meterValue[n])]

-----------------------------------------------------------------------------
\* What the loop comes to: the register is what the LAST item about it says, so of
\* a value per phase the last phase counts; the state of charge is the last number.
Says(sampledValue, measurand) ==
  {n \in DOMAIN sampledValue : Measures(sampledValue[n]) = measurand}

Numbers(sampledValue, measurand) ==
  {n \in Says(sampledValue, measurand) : sampledValue[n].value # NoValue}

LastOf(S, value(_)) ==
  IF S = {} THEN NoValue ELSE value(CHOOSE n \in S : \A m \in S : m <= n)

RowIsLastWord(sampledValue) ==
  LET scaled(n) == Scaled(sampledValue[n])
      plain(n) == sampledValue[n].value
  IN ParseRow(sampledValue) =
       [energy_wh |-> LastOf(Says(sampledValue, ENERGY), scaled),
        power_w |-> LastOf(Says(sampledValue, POWER), scaled),
        soc |-> LastOf(Numbers(sampledValue, SOC), plain)]
=============================================================================
