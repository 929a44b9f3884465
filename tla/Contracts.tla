------------------------------- MODULE Contracts -------------------------------
(***************************************************************************)
(* scanner/contracts.py and scan._build_idea: which listed contracts become *)
(* the structure of an idea, and the idea that is made of them.  Pure.      *)
(*                                                                          *)
(* Prices of options, strikes and fees are in cents, deltas (without their  *)
(* sign) and strengths in hundredths.  The levels of a signal are floats,   *)
(* finer than a cent: here in tenths of one.                                *)
(***************************************************************************)
EXTENDS Signals

CONSTANTS
    FeePerContract,              \* fee_per_contract (65 cents)
    MinInterest,      \* MIN_OPEN_INTEREST (500)
    DteMin, DteMax    \* 30, 45

ASSUME ContractConstants == {FeePerContract, MinInterest, DteMin, DteMax} \subseteq Nat /\ DteMin > 0

(* The shape of a quote; is_liquid drops what has another one.               *)
OptionQuote ==
    [right : {"call", "put"}, strike : Nat \ {0}, expiry : Int, bid : Int, ask : Int,
     delta : Int, interest : Int]

LongDelta  == [low |-> 35, high |-> 45, ideal |-> 40]
ShortDelta == [low |-> 20, high |-> 30, ideal |-> 25]

(* The spread between bid and ask is at most a tenth of their middle.       *)
Liquid(q) ==
    /\ q.interest >= MinInterest
    /\ q.bid > 0 /\ q.ask >= q.bid
    /\ 20 * (q.ask - q.bid) <= q.ask + q.bid

Eligible(chain, right, day) ==
    {q \in chain : q.right = right /\ q.expiry - day \in DteMin..DteMax /\ Liquid(q)}

Nearer(q, r, ideal) ==
    LET dq == Gap(q.delta, ideal)  dr == Gap(r.delta, ideal) IN
    \/ dq < dr
    \/ dq = dr /\ q.expiry < r.expiry
    \/ dq = dr /\ q.expiry = r.expiry /\ q.strike <= r.strike

Closest(quotes, band) ==
    LET inside == {q \in quotes : q.delta \in band.low..band.high} IN
    IF inside = {} THEN Missing
    ELSE CHOOSE q \in inside : \A r \in inside : Nearer(q, r, band.ideal)

SelectLong(chain, right, day) ==
    LET q == Closest(Eligible(chain, right, day), LongDelta) IN
    IF q = Missing THEN Missing
    ELSE [strategy |-> IF right = "call" THEN "long_call" ELSE "long_put", legs |-> <<q>>, debit |-> q.ask]

(* One spread an expiration: the leg to sell is further out of the money.    *)
SpreadOn(same, right) ==
    LET buy     == Closest(same, LongDelta)
        further == {q \in same : IF right = "call" THEN q.strike > buy.strike ELSE q.strike < buy.strike}
        sell    == IF buy = Missing THEN Missing ELSE Closest(further, ShortDelta)
    IN  IF sell = Missing THEN Missing
        ELSE [strategy |-> IF right = "call" THEN "call_debit_spread" ELSE "put_debit_spread",
              legs |-> <<buy, sell>>, debit |-> buy.ask - sell.bid]

Width(s) == Gap(s.legs[1].strike, s.legs[2].strike)
Fit(s)   == Gap(s.legs[1].delta, LongDelta.ideal) + Gap(s.legs[2].delta, ShortDelta.ideal)

(* The debit is positive, at most half the width, and within the risk.       *)
Affordable(s) == s.debit > 0 /\ s.debit < Width(s) /\ Width(s) - s.debit >= s.debit /\ s.debit * 100 <= RiskLimit

SelectDebitSpread(chain, right, day) ==
    LET eligible == Eligible(chain, right, day)
        on(e)    == SpreadOn({q \in eligible : q.expiry = e}, right)
        days     == {e \in {q.expiry : q \in eligible} : on(e) # Missing /\ Affordable(on(e))}
    IN  IF days = {} THEN Missing
        ELSE on(CHOOSE e \in days : \A f \in days : Fit(on(e)) < Fit(on(f)) \/ (Fit(on(e)) = Fit(on(f)) /\ e <= f))

-----------------------------------------------------------------------------
(* _build_idea *)

Cents(level) == (level + 5) \div 10                               \* half up
Ratio(reward, risk) == (200 * reward + risk) \div (2 * risk)       \* in hundredths, half up

HalfEven(n, d) ==
    LET q == n \div d  r == n % d IN
    IF 2 * r > d \/ (2 * r = d /\ q % 2 = 1) THEN q + 1 ELSE q

Score(strength, rr, preferred) ==
    HalfEven(40 * strength + 15 * (IF rr < 200 THEN rr ELSE 200), 100) + 20 + (IF preferred THEN 10 ELSE 0)

(* Mutant: the fees are left out of the premium cap.                        *)
WithinCapWithoutFees(structure) == structure.debit * 100 <= RiskLimit

WithinCap(structure) == structure.debit * 100 + FeePerContract * Len(structure.legs) <= RiskLimit

(* Missing where the source returns a reason to skip.                          *)
BuildIdea(symbol, playbook, signal, structure, preferred) ==
    LET entry == Cents(signal.entry)  stop == Cents(signal.stop)  target == Cents(signal.target)
        brackets == \/ signal.direction = "long"  /\ stop < entry /\ entry < target
                    \/ signal.direction = "short" /\ target < entry /\ entry < stop
        rr   == Ratio(Gap(target, entry), Gap(entry, stop))
        legs == structure.legs
        score == Score(signal.strength, rr, preferred)
    IN
    IF ~brackets THEN Missing
    ELSE IF rr < 100 \/ ~WithinCap(structure) THEN Missing
    ELSE [symbol |-> symbol, playbook |-> playbook, score |-> score,
          action |-> "open", style |-> "swing", strategy |-> structure.strategy, quantity |-> 1,
          direction |-> signal.direction, entry |-> entry, stop |-> stop, target |-> target, metadata |-> score \in 0..100 /\ rr >= 100,
          legs |-> [i \in DOMAIN legs |->
                       [right |-> legs[i].right, strike |-> legs[i].strike, expiry |-> legs[i].expiry,
                        side |-> IF i = 1 THEN "buy" ELSE "sell", standard |-> TRUE]],
          debit |-> structure.debit, est |-> structure.debit * 100, fees |-> FeePerContract * Len(legs)]

-----------------------------------------------------------------------------
(* manual.main, draft: a long option of the symbol and side the owner asks   *)
(* for, with the earnings gate and the levels of ManualSignal.              *)
ManualIdea(symbol, snap, right, day) ==
    LET structure == SelectLong(snap.chain, right, day)
        signal    == ManualSignal(snap.bars, right)
        idea      == BuildIdea(symbol, "manual", signal, structure, FALSE)
    IN  IF structure = Missing \/ ~snap.current \/ signal = Missing THEN Missing
        ELSE IF idea # Missing /\ snap.earnings # Missing /\ snap.earnings <= structure.legs[1].expiry THEN Missing
        ELSE idea
=============================================================================
