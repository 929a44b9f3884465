------------------------------ MODULE MarketProofs ------------------------------
(***************************************************************************)
(* Proofs about the scan -- what it proposes and what it leaves out, for any *)
(* symbols, snapshots and configurations -- about the day trades of the      *)
(* exits, for any contracts, quotes and number of sessions, and about the   *)
(* replay of a history that grows, for any sessions and limits.             *)
(***************************************************************************)
EXTENDS Scanner, TradingDays, Replay, RecursionLemmas

-----------------------------------------------------------------------------
(* The second loop: buckets and slots *)

(* The buckets are those of the open names and of the proposals.            *)
BucketsOK ==
    buckets = {Bucket(s) : s \in config.open} \cup {Bucket(a.symbol) : a \in proposals}

SlotsOK ==
    /\ config.open \in Opens
    /\ IsFiniteSet(proposals)

SlotInv == SlotsOK /\ BucketsOK /\ Uncorrelated

LEMMA SlotsAreNatural ==
    ASSUME NEW open \in Opens
    PROVE  SlotsOf(open) \in Nat
  <1>1. Cardinality(open) \in Nat
    BY ScannerConstants, FS_CardinalityType
  <1>2. MaxSlots \in Nat
    BY RulesConstants
  <1>3. QED
    BY <1>1, <1>2 DEF SlotsOf

LEMMA SlotsBegin == ScanInit => SlotInv
  <1> SUFFICES ASSUME ScanInit PROVE SlotInv
    OBVIOUS
  <1>1. config.open \in Opens /\ proposals = {}
    BY DEF ScanInit
  <1>2. IsFiniteSet(proposals) /\ Cardinality(proposals) = 0
    BY <1>1, FS_EmptySet
  <1>3. Cardinality(proposals) <= SlotsOf(config.open)
    BY <1>1, <1>2, SlotsAreNatural
  <1>4. QED
    BY <1>1, <1>2, <1>3 DEF ScanInit, SlotInv, SlotsOK, BucketsOK, Uncorrelated

LEMMA TakeKeepsSlots ==
    ASSUME SlotInv, NEW idea, Take(idea)
    PROVE  SlotInv'
  <1>1. CASE UNCHANGED <<buckets, proposals>>
    BY <1>1 DEF Take, SlotInv, SlotsOK, BucketsOK, Uncorrelated
  <1>2. ASSUME Bucket(idea.symbol) \notin buckets, Cardinality(proposals) < SlotsOf(config.open),
               buckets' = buckets \cup {Bucket(idea.symbol)},
               proposals' = proposals \cup {idea}
        PROVE  SlotInv'
    <2>1. config' = config /\ SlotsOK /\ BucketsOK /\ Uncorrelated
      BY DEF Take, SlotInv
    <2>2. IsFiniteSet(proposals') /\ Cardinality(proposals') <= Cardinality(proposals) + 1
          /\ Cardinality(proposals) \in Nat /\ Cardinality(proposals') \in Nat
      <3>1. /\ IsFiniteSet(proposals \cup {idea})
            /\ \/ Cardinality(proposals \cup {idea}) = Cardinality(proposals)
               \/ Cardinality(proposals \cup {idea}) = Cardinality(proposals) + 1
        BY <2>1, FS_AddElement DEF SlotsOK
      <3>2. Cardinality(proposals) \in Nat
        BY <2>1, FS_CardinalityType DEF SlotsOK
      <3>3. QED
        BY <1>2, <3>1, <3>2
    <2>3. SlotsOf(config.open) \in Nat
      BY <2>1, SlotsAreNatural DEF SlotsOK
    <2>4. Cardinality(proposals') <= SlotsOf(config.open)
      BY <1>2, <2>2, <2>3
    <2>5. BucketsOK'
      BY <1>2, <2>1 DEF BucketsOK
    <2>6. \A a \in proposals : Bucket(a.symbol) # Bucket(idea.symbol)
      BY <1>2, <2>1 DEF BucketsOK
    <2>7. \A s \in config.open : Bucket(idea.symbol) # Bucket(s)
      BY <1>2, <2>1 DEF BucketsOK
    <2>8. Uncorrelated'
      BY <1>2, <2>1, <2>4, <2>6, <2>7 DEF Uncorrelated
    <2>9. QED
      BY <2>1, <2>2, <2>5, <2>8 DEF SlotInv, SlotsOK
  <1>3. Cardinality(proposals) \in Nat /\ SlotsOf(config.open) \in Nat
    BY SlotsAreNatural, FS_CardinalityType DEF SlotInv, SlotsOK
  <1>4. QED
    BY <1>1, <1>2, <1>3 DEF Take

LEMMA SlotsNext == SlotInv /\ [ScanNext]_nvars => SlotInv'
  <1> SUFFICES ASSUME SlotInv, [ScanNext]_nvars PROVE SlotInv'
    OBVIOUS
  <1>1. CASE UNCHANGED <<config, buckets, proposals>>
    BY <1>1 DEF SlotInv, SlotsOK, BucketsOK, Uncorrelated
  <1>2. CASE \E idea \in best : Take(idea)
    BY <1>2, TakeKeepsSlots
  <1>3. CASE \E s \in Symbols : ScanSymbol(s) \/ \E right \in {"call", "put"} : Draft(s, right)
    BY <1>1, <1>3 DEF ScanSymbol, Draft
  <1>4. QED
    BY <1>1, <1>2, <1>3 DEF ScanNext, nvars

(* No two ideas of a scan and no open name are correlated, and together they *)
(* fit the slots (README:965-970), for any universe and any open names.     *)
THEOREM ProposalsAreUncorrelated == ScanSpec => []Uncorrelated
  <1>1. SlotInv => Uncorrelated
    BY DEF SlotInv
  <1>2. QED
    BY <1>1, SlotsBegin, SlotsNext, PTL DEF ScanSpec

-----------------------------------------------------------------------------
(* The signals: what they give is in numbers *)

Signal == [direction : {"long", "short"}, entry : Int, stop : Int, target : Int, strength : 0..100]

LEMMA NearestIsOne ==
    ASSUME NEW levels \in SUBSET Int, IsFiniteSet(levels), NEW entry \in Int, NEW direction
    PROVE  Nearest(levels, entry, direction) \in levels \cup {Missing}
  <1> DEFINE beyond == {l \in levels : IF direction = "long" THEN l > entry ELSE l < entry}
  <1> SUFFICES ASSUME beyond # {}
               PROVE  \E l \in beyond : \A m \in beyond : Gap(l, entry) <= Gap(m, entry)
    BY DEF Nearest
  <1>1. beyond \in SUBSET Int /\ IsFiniteSet(beyond)
    BY FS_Subset
  <1> HIDE DEF beyond
  <1> DEFINE f == [l \in beyond |-> Gap(l, entry)]
  <1>2. \A l \in beyond : Gap(l, entry) \in Int
    BY <1>1 DEF Gap
  <1>3. f \in [beyond -> Int] /\ \A l \in beyond : f[l] = Gap(l, entry)
    BY <1>2
  <1> HIDE DEF f
  <1>4. \E l \in beyond : \A m \in beyond : f[l] <= f[m]
    BY <1>1, <1>3, LeastBy
  <1>5. QED
    BY <1>3, <1>4

LEMMA TrendIsSignal ==
    ASSUME NEW b \in Session, IsFiniteSet(b.highs), IsFiniteSet(b.lows), TrendSignal(b) # Missing
    PROVE  TrendSignal(b) \in Signal
  <1> DEFINE long   == Trending(b) = "long"
             prior  == IF long THEN b.prevHigh ELSE b.prevLow
             beyond == IF long THEN b.close >= prior ELSE b.close <= prior
             entry  == IF Pullback(b) \/ beyond THEN b.close ELSE prior
             level  == Nearest(IF long THEN b.highs ELSE b.lows, entry, Trending(b))
             reward == (3 * Gap(entry, b.e20)) \div 2
             target == CASE level # Missing         -> level
                         [] level = Missing /\ long -> entry + reward
                         [] OTHER                   -> entry - reward
             strength == Upto(Gap(b.momentum, 0), 100)
  <1>1. Trending(b) # Missing => Trending(b) \in {"long", "short"}
    BY DEF Trending
  <1>2. /\ b.close \in Int /\ b.prevHigh \in Int /\ b.prevLow \in Int /\ b.e20 \in Int /\ b.momentum \in Int
        /\ b.highs \in SUBSET Int /\ b.lows \in SUBSET Int
    BY DEF Session
  <1>3. entry \in Int
    BY <1>2
  <1>4. level \in Int \cup {Missing}
    BY <1>2, <1>3, NearestIsOne
  <1>5. Gap(entry, b.e20) \in Int /\ reward \in Int /\ strength \in 0..100
    <2>1. Gap(entry, b.e20) \in Int
      BY <1>2, <1>3 DEF Gap
    <2>2. Gap(b.momentum, 0) \in Nat
      BY <1>2 DEF Gap
    <2>3. strength \in 0..100
      BY <2>2 DEF Upto
    <2>4. QED
      BY <2>1, <2>3
  <1> HIDE DEF long, entry, level, reward, strength
  <1>6. target \in Int
    BY <1>3, <1>4, <1>5
  <1>7. \/ TrendSignal(b) = Missing
        \/ /\ Trending(b) # Missing
           /\ TrendSignal(b) = [direction |-> Trending(b), entry |-> entry, stop |-> b.e20, target |-> target,
                                strength |-> strength]
    BY DEF TrendSignal, Accepted, long, entry, level, reward, strength
  <1>8. QED
    BY <1>1, <1>2, <1>3, <1>5, <1>6, <1>7 DEF Signal

LEMMA RsiIsNatural ==
    ASSUME NEW b \in Session
    PROVE  b.rsi \in Int /\ 0 <= b.rsi
  <1>1. b.rsi \in Nat
    BY DEF Session
  <1>2. QED
    BY <1>1

LEMMA BounceIsSignal ==
    ASSUME NEW b \in Session, IsFiniteSet(b.highs), BounceSignal(b) # Missing
    PROVE  BounceSignal(b) \in Signal
  <1> DEFINE near   == Nearest(b.highs, b.close, "long")
             levels == {l \in {b.e20} : l > b.close} \cup {l \in {near} : l # Missing}
             target == CHOOSE l \in levels : \A m \in levels : l <= m
             strength == IF b.rsi < 3500 THEN (100 * (3500 - b.rsi)) \div 3500 ELSE 50
  <1>1. /\ b.close \in Int /\ b.e20 \in Int /\ b.rsi \in Int /\ 0 <= b.rsi /\ b.swingLow \in Int
        /\ b.highs \in SUBSET Int
    <2>1. b.rsi \in Int /\ 0 <= b.rsi
      BY RsiIsNatural
    <2>2. b.close \in Int /\ b.e20 \in Int /\ b.swingLow \in Int /\ b.highs \in SUBSET Int
      BY DEF Session
    <2>3. QED
      BY <2>1, <2>2
  <1>2. near \in b.highs \cup {Missing}
    BY <1>1, NearestIsOne
  <1>3. levels \in SUBSET Int /\ IsFiniteSet(levels)
    <2>1. levels \subseteq {b.e20} \cup {near}
      OBVIOUS
    <2>2. IsFiniteSet({b.e20} \cup {near})
      BY FS_Singleton, FS_Union
    <2>3. levels \in SUBSET Int
      BY <1>1, <1>2
    <2>4. QED
      BY <2>1, <2>2, <2>3, FS_Subset
  <1> HIDE DEF levels
  <1>4. ASSUME levels # {} PROVE target \in Int
    <2> DEFINE f == [l \in levels |-> l]
    <2>1. f \in [levels -> Int] /\ \A l \in levels : f[l] = l
      BY <1>3
    <2> HIDE DEF f
    <2>2. \E l \in levels : \A m \in levels : f[l] <= f[m]
      BY <1>3, <1>4, <2>1, LeastBy
    <2>3. \E l \in levels : \A m \in levels : l <= m
      BY <2>1, <2>2
    <2>4. QED
      BY <1>3, <2>3
  <1>5. strength \in 0..100
    <2>1. CASE b.rsi < 3500
      <3>1. 3500 - b.rsi \in Int /\ 0 <= 3500 - b.rsi /\ 3500 - b.rsi <= 3500
        BY <1>1, <2>1
      <3>2. (100 * (3500 - b.rsi)) \div 3500 \in 0..100
        BY <3>1
      <3>3. QED
        BY <2>1, <3>2
    <2>2. QED
      BY <1>1, <2>1
  <1> HIDE DEF target, strength
  <1>6. \/ BounceSignal(b) = Missing
        \/ /\ levels # {}
           /\ BounceSignal(b) = [direction |-> "long", entry |-> b.close, stop |-> b.swingLow,
                                 target |-> target, strength |-> strength]
    BY DEF BounceSignal, Accepted, levels, target, strength
  <1>7. QED
    BY <1>1, <1>4, <1>5, <1>6 DEF Signal

LEMMA BreakoutIsSignal ==
    ASSUME NEW b \in Session, BreakoutSignal(b) # Missing
    PROVE  BreakoutSignal(b) \in Signal
  <1> DEFINE strength == Upto((100 * b.volume) \div (3 * b.volumeMean), 100)
  <1>1. /\ b.close \in Int /\ b.rangeHigh \in Int /\ b.rangeLow \in Int
        /\ b.volume \in Int /\ b.volumeMean \in Int
    BY DEF Session
  <1>2. /\ b.volumeMean > 0 /\ 2 * b.volume > 3 * b.volumeMean
        /\ BreakoutSignal(b) = [direction |-> "long", entry |-> b.close, stop |-> b.rangeHigh,
                                target |-> 2 * b.rangeHigh - b.rangeLow, strength |-> strength]
    BY DEF BreakoutSignal, Accepted
  <1>3. strength \in 0..100
    <2>1. 3 * b.volumeMean \in Int /\ 3 * b.volumeMean > 0 /\ 100 * b.volume \in Int /\ 100 * b.volume > 0
      BY <1>1, <1>2
    <2>2. (100 * b.volume) \div (3 * b.volumeMean) \in Nat
      BY <2>1
    <2>3. QED
      BY <2>2 DEF Upto
  <1>4. QED
    BY <1>1, <1>2, <1>3 DEF Signal

-----------------------------------------------------------------------------
(* The ideas of a symbol *)

Names == {"trend_directional", "trend_debit_spread", "oversold_bounce", "breakout_continuation"}

LEMMA RatioIsNumber ==
    ASSUME NEW reward \in Int, NEW risk \in Int, risk > 0
    PROVE  Ratio(reward, risk) \in Int
  <1>1. 200 * reward + risk \in Int /\ 2 * risk \in Int /\ 2 * risk > 0
    OBVIOUS
  <1>2. QED
    BY <1>1 DEF Ratio

LEMMA ScoreIsNumber ==
    ASSUME NEW strength \in Int, NEW rr \in Int, NEW preferred \in BOOLEAN
    PROVE  Score(strength, rr, preferred) \in Int
  BY DEF Score, HalfEven

(* An idea that is built is one of the symbol and the playbook, and its      *)
(* score is a number.                                                       *)
LEMMA BuiltIdea ==
    ASSUME NEW symbol, NEW playbook, NEW signal \in Signal, NEW structure, NEW preferred \in BOOLEAN,
           BuildIdea(symbol, playbook, signal, structure, preferred) # Missing
    PROVE  LET idea == BuildIdea(symbol, playbook, signal, structure, preferred) IN
           idea.symbol = symbol /\ idea.playbook = playbook /\ idea.score \in Int
  <1> DEFINE entry == Cents(signal.entry)
             stop  == Cents(signal.stop)
             target == Cents(signal.target)
             rr    == Ratio(Gap(target, entry), Gap(entry, stop))
             score == Score(signal.strength, rr, preferred)
             idea  == BuildIdea(symbol, playbook, signal, structure, preferred)
  <1>1. entry \in Int /\ stop \in Int /\ target \in Int /\ signal.strength \in Int
    BY DEF Signal, Cents
  <1>2. \/ stop < entry /\ entry < target
        \/ target < entry /\ entry < stop
    BY DEF BuildIdea
  <1>3. Gap(target, entry) \in Int /\ Gap(entry, stop) \in Int /\ Gap(entry, stop) > 0
    BY <1>1, <1>2 DEF Gap
  <1>4. rr \in Int
    BY <1>3, RatioIsNumber
  <1>5. score \in Int
    BY <1>1, <1>4, ScoreIsNumber
  <1>6. idea.symbol = symbol /\ idea.playbook = playbook /\ idea.score = score
    BY DEF BuildIdea
  <1>7. QED
    BY <1>5, <1>6

Fits(ideas, s, playbook) ==
    \/ ideas = {}
    \/ \E idea : ideas = {idea} /\ idea.symbol = s /\ idea.playbook = playbook /\ idea.score \in Int

LEMMA FitsIsFinite ==
    ASSUME NEW ideas, NEW s, NEW playbook, Fits(ideas, s, playbook)
    PROVE  IsFiniteSet(ideas)
  BY FS_EmptySet, FS_Singleton DEF Fits

LEMMA AttachedIdea ==
    ASSUME NEW s \in Symbols, NEW playbook, NEW signal \in Signal, NEW structure, NEW preferred \in BOOLEAN
    PROVE  Fits(Attach(s, playbook, signal, structure, preferred), s, playbook)
  <1> DEFINE idea == BuildIdea(s, playbook, signal, structure, preferred)
  <1>1. idea # Missing => idea.symbol = s /\ idea.playbook = playbook /\ idea.score \in Int
    BY BuiltIdea
  <1>2. Attach(s, playbook, signal, structure, preferred) # {} =>
            idea # Missing /\ Attach(s, playbook, signal, structure, preferred) = {idea}
    BY DEF Attach
  <1> HIDE DEF idea
  <1>3. QED
    BY <1>1, <1>2 DEF Fits

(* At most one candidate for each playbook.                                 *)
LEMMA CandidateFacts ==
    ASSUME NEW s \in Symbols, market[s].bars \in Session, market[s].preferSpread \in BOOLEAN,
           IsFiniteSet(market[s].bars.highs), IsFiniteSet(market[s].bars.lows)
    PROVE  /\ IsFiniteSet(Candidates(s))
           /\ \A a \in Candidates(s) : a.symbol = s /\ a.playbook \in Names /\ a.score \in Int
           /\ \A a, b \in Candidates(s) : a.playbook = b.playbook => a = b
  <1> DEFINE snap     == market[s]
             trend    == TrendSignal(snap.bars)
             bounce   == BounceSignal(snap.bars)
             breakout == BreakoutSignal(snap.bars)
             right    == IF trend.direction = "long" THEN "call" ELSE "put"
             T1 == IF trend = Missing THEN {}
                   ELSE Attach(s, "trend_directional", trend, SelectLong(snap.chain, right, Today), ~snap.preferSpread)
             T2 == IF trend = Missing THEN {}
                   ELSE Attach(s, "trend_debit_spread", trend, SelectDebitSpread(snap.chain, right, Today), snap.preferSpread)
             T3 == IF bounce = Missing THEN {}
                   ELSE Attach(s, "oversold_bounce", bounce, SelectLong(snap.chain, "call", Today), TRUE)
             T4 == IF breakout = Missing THEN {}
                   ELSE Attach(s, "breakout_continuation", breakout, SelectDebitSpread(snap.chain, "call", Today), TRUE)
  <1>1. Candidates(s) = T1 \cup T2 \cup T3 \cup T4
    BY DEF Candidates
  <1>2. (trend # Missing => trend \in Signal) /\ (bounce # Missing => bounce \in Signal)
        /\ (breakout # Missing => breakout \in Signal)
    BY TrendIsSignal, BounceIsSignal, BreakoutIsSignal
  <1>3. snap.preferSpread \in BOOLEAN /\ (~snap.preferSpread) \in BOOLEAN /\ TRUE \in BOOLEAN
    OBVIOUS
  <1> HIDE DEF snap, trend, bounce, breakout, right
  <1>4. Fits(T1, s, "trend_directional")
    <2>1. CASE trend = Missing
      BY <2>1 DEF Fits
    <2>2. CASE trend # Missing
      BY <1>2, <1>3, <2>2, AttachedIdea
    <2>3. QED
      BY <2>1, <2>2
  <1>5. Fits(T2, s, "trend_debit_spread")
    <2>1. CASE trend = Missing
      BY <2>1 DEF Fits
    <2>2. CASE trend # Missing
      BY <1>2, <1>3, <2>2, AttachedIdea
    <2>3. QED
      BY <2>1, <2>2
  <1>6. Fits(T3, s, "oversold_bounce")
    <2>1. CASE bounce = Missing
      BY <2>1 DEF Fits
    <2>2. CASE bounce # Missing
      BY <1>2, <1>3, <2>2, AttachedIdea
    <2>3. QED
      BY <2>1, <2>2
  <1>7. Fits(T4, s, "breakout_continuation")
    <2>1. CASE breakout = Missing
      BY <2>1 DEF Fits
    <2>2. CASE breakout # Missing
      BY <1>2, <1>3, <2>2, AttachedIdea
    <2>3. QED
      BY <2>1, <2>2
  <1> HIDE DEF T1, T2, T3, T4
  <1>8. IsFiniteSet(T1) /\ IsFiniteSet(T2) /\ IsFiniteSet(T3) /\ IsFiniteSet(T4)
    BY <1>4, <1>5, <1>6, <1>7, FitsIsFinite
  <1>9. IsFiniteSet(T1 \cup T2 \cup T3 \cup T4)
    <2>1. IsFiniteSet(T1 \cup T2)
      BY <1>8, FS_Union
    <2>2. IsFiniteSet(T1 \cup T2 \cup T3)
      BY <1>8, <2>1, FS_Union
    <2>3. QED
      BY <1>8, <2>2, FS_Union
  <1>10. QED
    BY <1>1, <1>4, <1>5, <1>6, <1>7, <1>9 DEF Fits, Names

LEMMA OrderOfPlaybooks ==
    ASSUME NEW a, NEW b, a.playbook \in Names, b.playbook \in Names
    PROVE  /\ PlaybookOrder(a) \in 1..4
           /\ PlaybookOrder(a) = PlaybookOrder(b) => a.playbook = b.playbook
  <1>1. \A i \in 1..4 : Playbooks[i] \in Names
    BY DEF Playbooks, Names
  <1>2. DOMAIN Playbooks = 1..4
    BY DEF Playbooks
  <1>3. \A p \in Names : \E i \in 1..4 : Playbooks[i] = p
    <2>1. /\ Playbooks[1] = "breakout_continuation" /\ Playbooks[2] = "oversold_bounce"
          /\ Playbooks[3] = "trend_debit_spread" /\ Playbooks[4] = "trend_directional"
          /\ 1 \in 1..4 /\ 2 \in 1..4 /\ 3 \in 1..4 /\ 4 \in 1..4
      BY DEF Playbooks
    <2>2. QED
      BY <2>1 DEF Names
  <1>4. PlaybookOrder(a) \in 1..4 /\ Playbooks[PlaybookOrder(a)] = a.playbook
    BY <1>2, <1>3 DEF PlaybookOrder
  <1>5. PlaybookOrder(b) \in 1..4 /\ Playbooks[PlaybookOrder(b)] = b.playbook
    BY <1>2, <1>3 DEF PlaybookOrder
  <1>6. QED
    BY <1>4, <1>5

(* Of different playbooks that are enabled one idea is the best.            *)
LEMMA BestExists ==
    ASSUME NEW ideas, IsFiniteSet(ideas), ideas # {},
           \A a \in ideas : a.playbook \in Names /\ a.score \in Int,
           \A a, b \in ideas : a.playbook = b.playbook => a = b
    PROVE  \E a \in BestOf(ideas) : TRUE
  <1> DEFINE f == [a \in ideas |-> 0 - (10 * a.score + PlaybookOrder(a))]
  <1>1. \A a \in ideas : a.score \in Int /\ PlaybookOrder(a) \in 1..4
    BY OrderOfPlaybooks
  <1>2. f \in [ideas -> Int] /\ \A a \in ideas : f[a] = 0 - (10 * a.score + PlaybookOrder(a))
    BY <1>1
  <1> HIDE DEF f
  <1>3. PICK a \in ideas : \A b \in ideas : f[a] <= f[b]
    BY <1>2, LeastBy
  <1>4. ASSUME NEW b \in ideas \ {a} PROVE Better(a, b)
    <2>1. PlaybookOrder(a) # PlaybookOrder(b)
      BY OrderOfPlaybooks
    <2>2. 10 * b.score + PlaybookOrder(b) <= 10 * a.score + PlaybookOrder(a)
      <3>1. f[a] <= f[b]
        BY <1>3
      <3>2. f[a] = 0 - (10 * a.score + PlaybookOrder(a)) /\ f[b] = 0 - (10 * b.score + PlaybookOrder(b))
        BY <1>2
      <3>3. a.score \in Int /\ b.score \in Int /\ PlaybookOrder(a) \in Int /\ PlaybookOrder(b) \in Int
        BY <1>1
      <3>4. QED
        BY <3>1, <3>2, <3>3
    <2>3. /\ a.score \in Int /\ b.score \in Int
          /\ PlaybookOrder(a) \in 1..4 /\ PlaybookOrder(b) \in 1..4
      BY <1>1
    <2>4. QED
      BY <2>1, <2>2, <2>3 DEF Better
  <1>5. QED
    BY <1>4 DEF BestOf

-----------------------------------------------------------------------------
(* Nothing better is left out *)

(* The market does not change under the scan.                               *)
MarketOK ==
    /\ config.open \in Opens
    /\ \A s \in Symbols : market[s] \in Snapshots[s]
    /\ scanned \subseteq Symbols
    /\ IsFiniteSet(proposals)

(* What is kept of a symbol is the best of its enabled ideas.               *)
BestKept ==
    /\ \A s \in scanned : Passes(s) => BestOf(Enabled(s)) \subseteq best
    /\ \A a \in best : a.symbol \in scanned /\ a.score \in Int /\ a \in BestOf(Enabled(a.symbol))

(* The ideas are taken in the order of their scores, after the whole scan.   *)
InOrder ==
    /\ proposals \subseteq taken /\ taken \subseteq best
    /\ taken # {} => scanned = Symbols
    /\ \A a \in taken, b \in best \ taken : Before(a, b)

Ahead(idea) == {p \in proposals : Before(p, idea)}

(* An idea that was taken and not proposed had no bucket or no slot.        *)
Rejected ==
    \A idea \in taken \ proposals :
        \/ \E o \in config.open : Bucket(o) = Bucket(idea.symbol)
        \/ \E p \in Ahead(idea) : Bucket(p.symbol) = Bucket(idea.symbol)
        \/ Cardinality(Ahead(idea)) = SlotsOf(config.open)

ChoiceInv == SlotInv /\ MarketOK /\ BestKept /\ InOrder /\ Rejected

LEMMA EnabledFacts ==
    ASSUME MarketOK, NEW s \in Symbols
    PROVE  /\ IsFiniteSet(Enabled(s))
           /\ \A a \in Enabled(s) : a.symbol = s /\ a.playbook \in Names /\ a.score \in Int
           /\ \A a, b \in Enabled(s) : a.playbook = b.playbook => a = b
  <1>1. market[s] \in Snapshots[s]
    BY DEF MarketOK
  <1>2. /\ market[s].bars \in Session /\ market[s].preferSpread \in BOOLEAN
        /\ IsFiniteSet(market[s].bars.highs) /\ IsFiniteSet(market[s].bars.lows)
    BY <1>1, ScannerConstants
  <1>3. Enabled(s) \subseteq Candidates(s)
    BY DEF Enabled
  <1>4. QED
    BY <1>2, <1>3, CandidateFacts, FS_Subset

LEMMA ChoiceBegins == ScanInit => ChoiceInv
  <1> SUFFICES ASSUME ScanInit PROVE ChoiceInv
    OBVIOUS
  <1>1. SlotInv
    BY SlotsBegin
  <1>2. MarketOK
    BY <1>1 DEF ScanInit, MarketOK, SlotInv, SlotsOK
  <1>3. QED
    BY <1>1, <1>2 DEF ScanInit, ChoiceInv, BestKept, InOrder, Rejected

(* The ideas of a symbol depend on the market and the configuration only.    *)
LEMMA SameIdeas ==
    ASSUME UNCHANGED <<config, market>>, NEW s \in Symbols
    PROVE  (Enabled(s)' = Enabled(s)) /\ (Passes(s)' <=> Passes(s))
  BY DEF Enabled, Candidates, Attach, Passes

LEMMA ScanSymbolKeeps ==
    ASSUME ChoiceInv, NEW s \in Symbols, ScanSymbol(s)
    PROVE  ChoiceInv'
  <1>1. SlotInv'
    BY SlotsNext DEF ChoiceInv, ScanNext
  <1>2. /\ UNCHANGED <<config, market, taken, buckets, proposals>>
        /\ scanned' = scanned \cup {s} /\ s \notin scanned
        /\ best' = best \cup (IF Passes(s) THEN BestOf(Enabled(s)) ELSE {})
    BY DEF ScanSymbol
  <1>3. MarketOK'
    BY <1>2 DEF ChoiceInv, MarketOK
  <1>4. \A r \in Symbols : (Enabled(r)' = Enabled(r)) /\ (Passes(r)' <=> Passes(r))
    BY <1>2, SameIdeas
  <1>5. scanned \subseteq Symbols
    BY DEF ChoiceInv, MarketOK
  <1>6. \A a \in BestOf(Enabled(s)) : a \in Enabled(s) /\ a.symbol = s /\ a.score \in Int
    BY EnabledFacts DEF ChoiceInv, BestOf
  <1>7. BestKept'
    <2>1. ASSUME NEW r \in scanned', Passes(r)'
          PROVE  BestOf(Enabled(r)') \subseteq best'
      BY <1>2, <1>4, <1>5, <2>1 DEF ChoiceInv, BestKept
    <2>2. ASSUME NEW a \in best'
          PROVE  a.symbol \in scanned' /\ a.score \in Int /\ a \in BestOf(Enabled(a.symbol)')
      BY <1>2, <1>4, <1>5, <1>6, <2>2 DEF ChoiceInv, BestKept
    <2>3. QED
      BY <2>1, <2>2 DEF BestKept, BestOf, Better
  <1>8. taken = {}
    BY <1>2 DEF ChoiceInv, InOrder
  <1>9. QED
    BY <1>1, <1>2, <1>3, <1>7, <1>8 DEF ChoiceInv, InOrder, Rejected

LEMMA DraftKeepsChoice ==
    ASSUME ChoiceInv, NEW s \in Symbols, NEW right \in {"call", "put"}, Draft(s, right)
    PROVE  ChoiceInv'
  <1>1. SlotInv'
    BY SlotsNext DEF ChoiceInv, ScanNext
  <1>2. UNCHANGED <<config, market, scanned, best, taken, buckets, proposals>>
    BY DEF Draft
  <1>3. \A r \in Symbols : (Enabled(r)' = Enabled(r)) /\ (Passes(r)' <=> Passes(r))
    BY <1>2, SameIdeas
  <1>4. scanned \subseteq Symbols
    BY DEF ChoiceInv, MarketOK
  <1>5. BestKept'
    BY <1>2, <1>3, <1>4 DEF ChoiceInv, BestKept, BestOf, Better
  <1>6. QED
    BY <1>1, <1>2, <1>5 DEF ChoiceInv, MarketOK, InOrder, Rejected, Ahead

(* The idea that is taken comes after all that were, and before the rest.    *)
LEMMA TakeKeepsChoice ==
    ASSUME ChoiceInv, NEW idea \in best, Take(idea)
    PROVE  ChoiceInv'
  <1>1. SlotInv'
    BY SlotsNext DEF ChoiceInv, ScanNext
  <1>2. /\ UNCHANGED <<config, market, scanned, best>> /\ scanned = Symbols
        /\ idea \in best \ taken /\ taken' = taken \cup {idea}
        /\ \A other \in best \ (taken \cup {idea}) : Before(idea, other)
    BY DEF Take
  <1>3. \A r \in Symbols : (Enabled(r)' = Enabled(r)) /\ (Passes(r)' <=> Passes(r))
    BY <1>2, SameIdeas
  <1>4. BestKept'
    BY <1>2, <1>3 DEF ChoiceInv, BestKept, BestOf, Better
  <1>5. MarketOK'
    BY <1>1, <1>2 DEF ChoiceInv, MarketOK, SlotInv, SlotsOK
  <1>6. proposals' \subseteq taken' /\ proposals \subseteq proposals' /\ proposals' \subseteq proposals \cup {idea}
    BY <1>2 DEF Take, ChoiceInv, InOrder
  <1>7. InOrder'
    BY <1>2, <1>6 DEF ChoiceInv, InOrder
  <1>8. \A a \in taken : Before(a, idea)
    BY <1>2 DEF ChoiceInv, InOrder
  <1>9. \A a \in best : a.score \in Int /\ a.symbol \in Nat
    BY <1>2, ScannerConstants DEF ChoiceInv, BestKept
  <1>10. \A a \in taken : ~Before(idea, a)
    <2>1. \A a, c \in best : Before(a, c) => ~Before(c, a)
      BY <1>9 DEF Before
    <2>2. QED
      BY <1>2, <1>8, <2>1 DEF ChoiceInv, InOrder
  <1>11. \A a \in taken : Ahead(a)' = Ahead(a)
    BY <1>6, <1>10 DEF Ahead
  <1>12. ASSUME NEW a \in taken \ proposals'
         PROVE  \/ \E o \in config.open : Bucket(o) = Bucket(a.symbol)
                \/ \E p \in Ahead(a)' : Bucket(p.symbol) = Bucket(a.symbol)
                \/ Cardinality(Ahead(a)') = SlotsOf(config.open)
    BY <1>6, <1>11 DEF ChoiceInv, Rejected
  <1>13. ASSUME idea \notin proposals'
         PROVE  \/ \E o \in config.open : Bucket(o) = Bucket(idea.symbol)
                \/ \E p \in Ahead(idea)' : Bucket(p.symbol) = Bucket(idea.symbol)
                \/ Cardinality(Ahead(idea)') = SlotsOf(config.open)
    <2>1. proposals' = proposals
      BY <1>6, <1>13
    <2>2. Ahead(idea)' = proposals
      BY <1>8, <2>1 DEF Ahead, ChoiceInv, InOrder
    <2>3. Bucket(idea.symbol) \in buckets \/ Cardinality(proposals) >= SlotsOf(config.open)
      BY <1>13 DEF Take
    <2>4. CASE Bucket(idea.symbol) \in buckets
      BY <2>2, <2>4 DEF ChoiceInv, SlotInv, BucketsOK
    <2>5. CASE Cardinality(proposals) >= SlotsOf(config.open)
      <3>1. Cardinality(proposals) \in Nat /\ SlotsOf(config.open) \in Nat
            /\ Cardinality(proposals) <= SlotsOf(config.open)
        BY SlotsAreNatural, FS_CardinalityType DEF ChoiceInv, SlotInv, SlotsOK, Uncorrelated
      <3>2. QED
        BY <2>2, <2>5, <3>1
    <2>6. QED
      BY <2>3, <2>4, <2>5
  <1>14. Rejected'
    BY <1>2, <1>12, <1>13 DEF Rejected
  <1>15. QED
    BY <1>1, <1>4, <1>5, <1>7, <1>14 DEF ChoiceInv

LEMMA ChoiceNext == ChoiceInv /\ [ScanNext]_nvars => ChoiceInv'
  <1> SUFFICES ASSUME ChoiceInv, [ScanNext]_nvars PROVE ChoiceInv'
    OBVIOUS
  <1>1. CASE UNCHANGED nvars
    <2>1. SlotInv'
      BY SlotsNext DEF ChoiceInv
    <2>2. UNCHANGED <<config, market, scanned, best, taken, buckets, proposals>>
      BY <1>1 DEF nvars
    <2>3. \A r \in Symbols : (Enabled(r)' = Enabled(r)) /\ (Passes(r)' <=> Passes(r))
      BY <2>2, SameIdeas
    <2>4. BestKept'
      BY <2>2, <2>3 DEF ChoiceInv, MarketOK, BestKept, BestOf, Better
    <2>5. QED
      BY <2>1, <2>2, <2>4 DEF ChoiceInv, MarketOK, InOrder, Rejected, Ahead
  <1>2. CASE ScanNext
    BY <1>2, ScanSymbolKeeps, DraftKeepsChoice, TakeKeepsChoice DEF ScanNext
  <1>3. QED
    BY <1>1, <1>2

LEMMA ChoiceIsBest == ChoiceInv => ScanChoosesBest
  <1> SUFFICES ASSUME ChoiceInv, Scanned, NEW s \in Symbols, Passes(s), NEW idea \in Enabled(s) \ proposals
               PROVE  LET ahead == {p \in proposals : p.score > idea.score \/ (p.score = idea.score /\ p.symbol < s)} IN
                      \/ \E a \in best : a.symbol = s /\ a # idea /\ a.score >= idea.score
                      \/ \E o \in config.open : Bucket(o) = Bucket(s)
                      \/ \E p \in ahead : Bucket(p.symbol) = Bucket(s)
                      \/ Cardinality(ahead) = SlotsOf(config.open)
    BY DEF ScanChoosesBest
  <1>1. /\ IsFiniteSet(Enabled(s))
        /\ \A a \in Enabled(s) : a.symbol = s /\ a.playbook \in Names /\ a.score \in Int
        /\ \A a, b \in Enabled(s) : a.playbook = b.playbook => a = b
    BY EnabledFacts DEF ChoiceInv
  <1>2. CASE idea \in best
    <2>1. idea \in taken \ proposals /\ idea.symbol = s
      BY <1>1, <1>2 DEF Scanned
    <2>2. Ahead(idea) = {p \in proposals : p.score > idea.score \/ (p.score = idea.score /\ p.symbol < s)}
      BY <2>1 DEF Ahead, Before
    <2>3. QED
      BY <2>1, <2>2 DEF ChoiceInv, Rejected
  <1>3. CASE idea \notin best
    <2>1. PICK a \in BestOf(Enabled(s)) : TRUE
      BY <1>1, BestExists
    <2>2. a \in best /\ a \in Enabled(s) /\ a # idea
      BY <1>3, <2>1 DEF ChoiceInv, BestKept, Scanned, BestOf
    <2>3. Better(a, idea)
      BY <2>1, <2>2 DEF BestOf
    <2>4. a.score >= idea.score /\ a.symbol = s
      BY <1>1, <2>2, <2>3 DEF Better
    <2>5. QED
      BY <2>2, <2>4
  <1>4. QED
    BY <1>2, <1>3

(* Whatever the market and the names held, an enabled idea that was left out *)
(* had a better one of its name, or its bucket or every slot was taken by    *)
(* what is open or ranks before it (scan.py).                               *)
THEOREM BestIsChosen == ScanSpec => []ScanChoosesBest
  BY ChoiceBegins, ChoiceNext, ChoiceIsBest, PTL DEF ScanSpec

-----------------------------------------------------------------------------
(* An idea of the scanner and the rules engine *)

(* What a structure must be for the rules: contracts of the side asked for,  *)
(* that expire after the day, bought for less than the spread is wide.       *)
Offered(right, day) == {q \in OptionQuote : q.right = right /\ q.expiry > day}

Lists(chain) == chain \subseteq OptionQuote /\ IsFiniteSet(chain)

LongOf(structure, right, day) ==
    /\ structure.strategy = (IF right = "call" THEN "long_call" ELSE "long_put")
    /\ \E q \in Offered(right, day) : structure.legs = <<q>>

SpreadOf(structure, right, day) ==
    /\ structure.strategy = (IF right = "call" THEN "call_debit_spread" ELSE "put_debit_spread")
    /\ \E p, q \in Offered(right, day) :
          /\ structure.legs = <<p, q>> /\ p.expiry = q.expiry
          /\ IF right = "call" THEN p.strike < q.strike ELSE p.strike > q.strike
          /\ structure.debit < Gap(p.strike, q.strike)

Sound(structure, right, day) ==
    /\ structure.debit \in Int /\ structure.debit > 0
    /\ LongOf(structure, right, day) \/ SpreadOf(structure, right, day)

LEMMA ClosestIsOne ==
    ASSUME NEW quotes, Lists(quotes), NEW band, band.ideal \in Int, Closest(quotes, band) # Missing
    PROVE  Closest(quotes, band) \in quotes
  <1> DEFINE inside == {q \in quotes : q.delta \in band.low..band.high}
             R == {p \in inside \X inside : Nearer(p[2], p[1], band.ideal)}
  <1>1. inside # {} /\ Closest(quotes, band) = CHOOSE q \in inside : \A r \in inside : Nearer(q, r, band.ideal)
    BY DEF Closest
  <1>2. IsFiniteSet(inside) /\ inside \subseteq quotes
    BY FS_Subset DEF Lists
  <1>3. \A q \in inside : Gap(q.delta, band.ideal) \in Int /\ q.expiry \in Int /\ q.strike \in Int
    <2>1. \A q \in OptionQuote : q.delta \in Int /\ q.expiry \in Int /\ q.strike \in Int
      BY DEF OptionQuote
    <2>2. QED
      BY <1>2, <2>1 DEF Lists, Gap
  <1> HIDE DEF inside
  <1>4. \A x, y \in inside : Nearer(x, y, band.ideal) \/ Nearer(y, x, band.ideal)
    BY <1>3 DEF Nearer
  <1>5. \A x, y, z \in inside :
            Nearer(y, x, band.ideal) /\ Nearer(z, y, band.ideal) => Nearer(z, x, band.ideal)
    BY <1>3 DEF Nearer
  <1>6. \A x, y \in inside : <<x, y>> \in R <=> Nearer(y, x, band.ideal)
    OBVIOUS
  <1> HIDE DEF R
  <1>7. \E m \in inside : \A x \in inside : <<x, m>> \in R
    <2>1. \A x, y \in inside : <<x, y>> \in R \/ <<y, x>> \in R
      BY <1>4, <1>6
    <2>2. \A x, y, z \in inside : <<x, y>> \in R /\ <<y, z>> \in R => <<x, z>> \in R
      BY <1>5, <1>6
    <2>3. QED
      BY <1>1, <1>2, <2>1, <2>2, LastExists
  <1>8. \E m \in inside : \A x \in inside : Nearer(m, x, band.ideal)
    BY <1>6, <1>7
  <1>9. QED
    BY <1>1, <1>2, <1>8

(* What is eligible is offered, liquid and finite.                          *)
LEMMA EligibleFacts ==
    ASSUME NEW chain, Lists(chain), NEW right, NEW day \in Int
    PROVE  /\ Lists(Eligible(chain, right, day))
           /\ Eligible(chain, right, day) \subseteq Offered(right, day)
           /\ \A q \in Eligible(chain, right, day) : q.bid \in Int /\ q.ask \in Int /\ q.bid > 0 /\ q.ask > 0
  <1>1. Eligible(chain, right, day) \subseteq chain /\ IsFiniteSet(Eligible(chain, right, day))
    BY FS_Subset DEF Eligible, Lists
  <1>2. \A q \in OptionQuote : q.bid \in Int /\ q.ask \in Int /\ q.expiry \in Int
    BY DEF OptionQuote
  <1>3. \A n \in Int : n - day \in DteMin..DteMax => n > day
    BY ContractConstants
  <1>4. ASSUME NEW q \in Eligible(chain, right, day)
        PROVE  q \in Offered(right, day) /\ q.bid > 0 /\ q.ask > 0
    <2>1. q \in OptionQuote /\ q.right = right /\ q.expiry - day \in DteMin..DteMax /\ q.bid > 0 /\ q.ask >= q.bid
      BY <1>1 DEF Eligible, Lists, Liquid
    <2>2. QED
      BY <1>2, <1>3, <2>1 DEF Offered
  <1>5. QED
    BY <1>1, <1>2, <1>4 DEF Lists

LEMMA LongIsSound ==
    ASSUME NEW chain, Lists(chain), NEW right, NEW day \in Int, SelectLong(chain, right, day) # Missing
    PROVE  Sound(SelectLong(chain, right, day), right, day)
  <1> DEFINE q == Closest(Eligible(chain, right, day), LongDelta)
  <1>1. q # Missing
        /\ SelectLong(chain, right, day) =
              [strategy |-> IF right = "call" THEN "long_call" ELSE "long_put", legs |-> <<q>>, debit |-> q.ask]
    BY DEF SelectLong
  <1>2. LongDelta.ideal \in Int
    BY DEF LongDelta
  <1>3. q \in Eligible(chain, right, day)
    BY <1>1, <1>2, EligibleFacts, ClosestIsOne
  <1> HIDE DEF q
  <1>4. q \in Offered(right, day) /\ q.ask \in Int /\ q.ask > 0
    BY <1>3, EligibleFacts
  <1>5. QED
    BY <1>1, <1>4 DEF Sound, LongOf

(* The legs of the spread of an expiration.                                 *)
Legs(structure, same, right) ==
    /\ structure.strategy = (IF right = "call" THEN "call_debit_spread" ELSE "put_debit_spread")
    /\ \E p, q \in same :
          /\ structure.legs = <<p, q>> /\ structure.debit = p.ask - q.bid
          /\ IF right = "call" THEN p.strike < q.strike ELSE p.strike > q.strike

LEMMA SpreadHasLegs ==
    ASSUME NEW same, Lists(same), NEW right, SpreadOn(same, right) # Missing
    PROVE  Legs(SpreadOn(same, right), same, right)
  <1> DEFINE buy     == Closest(same, LongDelta)
             further == {q \in same : IF right = "call" THEN q.strike > buy.strike ELSE q.strike < buy.strike}
             sell    == Closest(further, ShortDelta)
  <1>1. /\ buy # Missing /\ sell # Missing
        /\ SpreadOn(same, right) =
              [strategy |-> IF right = "call" THEN "call_debit_spread" ELSE "put_debit_spread",
               legs |-> <<buy, sell>>, debit |-> buy.ask - sell.bid]
    BY DEF SpreadOn
  <1>2. LongDelta.ideal \in Int /\ ShortDelta.ideal \in Int
    BY DEF LongDelta, ShortDelta
  <1>3. Lists(further)
    BY FS_Subset DEF Lists
  <1>4. buy \in same
    BY <1>1, <1>2, ClosestIsOne
  <1> HIDE DEF buy
  <1>5. sell \in further
    BY <1>1, <1>2, <1>3, ClosestIsOne
  <1> HIDE DEF sell
  <1>6. \A x \in same : x.strike \in Int
    BY DEF Lists, OptionQuote
  <1>7. sell \in same /\ IF right = "call" THEN buy.strike < sell.strike ELSE buy.strike > sell.strike
    BY <1>4, <1>5, <1>6
  <1>8. QED
    BY <1>1, <1>4, <1>7 DEF Legs

LEMMA LegsAreCounted ==
    ASSUME NEW same, Lists(same), NEW right, NEW s, Legs(s, same, right)
    PROVE  /\ Fit(s) \in Int
           /\ \E p, q \in same : s.legs = <<p, q>> /\ Width(s) = Gap(p.strike, q.strike)
  <1>1. PICK p \in same, q \in same : s.legs = <<p, q>>
    BY DEF Legs
  <1>2. s.legs[1] = p /\ s.legs[2] = q
    BY <1>1
  <1>3. p.delta \in Int /\ q.delta \in Int
    BY DEF Lists, OptionQuote
  <1>4. Gap(p.delta, LongDelta.ideal) \in Int /\ Gap(q.delta, ShortDelta.ideal) \in Int
    BY <1>3 DEF Gap, LongDelta, ShortDelta
  <1>5. QED
    BY <1>1, <1>2, <1>4 DEF Fit, Width

LEMMA SpreadIsSound ==
    ASSUME NEW chain, Lists(chain), NEW right, NEW day \in Int, SelectDebitSpread(chain, right, day) # Missing
    PROVE  Sound(SelectDebitSpread(chain, right, day), right, day)
  <1> DEFINE eligible == Eligible(chain, right, day)
             At(e)    == {q \in eligible : q.expiry = e}
             on(e)    == SpreadOn(At(e), right)
             expiries == {q.expiry : q \in eligible}
             days     == {e \in expiries : on(e) # Missing /\ Affordable(on(e))}
             chosen   == CHOOSE e \in days : \A f \in days : Fit(on(e)) < Fit(on(f)) \/ (Fit(on(e)) = Fit(on(f)) /\ e <= f)
  <1>1. days # {} /\ SelectDebitSpread(chain, right, day) = on(chosen)
    BY DEF SelectDebitSpread
  <1>2. Lists(eligible) /\ eligible \subseteq Offered(right, day)
        /\ \A q \in eligible : q.bid \in Int /\ q.ask \in Int /\ q.bid > 0 /\ q.ask > 0
    BY EligibleFacts
  <1> HIDE DEF eligible
  <1>3. \A e : Lists(At(e)) /\ At(e) \subseteq eligible
    BY <1>2, FS_Subset DEF Lists
  <1>4. expiries \subseteq Int /\ IsFiniteSet(expiries)
    <2> DEFINE f == [q \in eligible |-> q.expiry]
    <2>1. f \in Surjection(eligible, expiries)
      BY DEF Surjection
    <2>2. IsFiniteSet(expiries)
      BY <1>2, <2>1, FS_Surjection DEF Lists
    <2>3. QED
      BY <1>2, <2>2 DEF Lists, OptionQuote
  <1>5. \A e \in days : Legs(on(e), At(e), right) /\ Fit(on(e)) \in Int /\ e \in Int
    BY <1>3, <1>4, SpreadHasLegs, LegsAreCounted
  <1>6. days \subseteq Int /\ IsFiniteSet(days)
    BY <1>4, FS_Subset
  <1>7. \A e \in days : on(e) # Missing /\ Affordable(on(e))
    OBVIOUS
  <1> HIDE DEF days, on, At, chosen
  <1>8. chosen \in days
    <2> DEFINE Smallest(e, f) == Fit(on(e)) < Fit(on(f)) \/ (Fit(on(e)) = Fit(on(f)) /\ e <= f)
               R == {p \in days \X days : Smallest(p[2], p[1])}
    <2>1. \A x, y \in days : Smallest(x, y) \/ Smallest(y, x)
      BY <1>5
    <2>2. \A x, y, z \in days : Smallest(y, x) /\ Smallest(z, y) => Smallest(z, x)
      BY <1>5
    <2>3. \A x, y \in days : <<x, y>> \in R <=> Smallest(y, x)
      OBVIOUS
    <2>4. chosen = CHOOSE e \in days : \A f \in days : Smallest(e, f)
      BY DEF chosen
    <2> HIDE DEF R, Smallest
    <2>5. \A x, y \in days : <<x, y>> \in R \/ <<y, x>> \in R
      BY <2>1, <2>3
    <2>6. \A x, y, z \in days : <<x, y>> \in R /\ <<y, z>> \in R => <<x, z>> \in R
      BY <2>2, <2>3
    <2>7. \E m \in days : \A x \in days : <<x, m>> \in R
      BY <1>1, <1>6, <2>5, <2>6, LastExists
    <2>8. \E m \in days : \A x \in days : Smallest(m, x)
      BY <2>3, <2>7
    <2>9. QED
      BY <2>4, <2>8
  <1> DEFINE s == on(chosen)
  <1>9. Lists(At(chosen)) /\ At(chosen) \subseteq eligible /\ Legs(s, At(chosen), right) /\ Affordable(s)
    BY <1>3, <1>5, <1>7, <1>8
  <1> HIDE DEF s
  <1>10. PICK p \in At(chosen), q \in At(chosen) :
             /\ s.legs = <<p, q>> /\ s.debit = p.ask - q.bid
             /\ IF right = "call" THEN p.strike < q.strike ELSE p.strike > q.strike
    BY <1>9 DEF Legs
  <1>11. s.debit \in Int /\ p.expiry = q.expiry /\ p \in Offered(right, day) /\ q \in Offered(right, day)
    BY <1>2, <1>9, <1>10 DEF At
  <1>12. s.debit > 0 /\ s.debit < Width(s) /\ Width(s) = Gap(p.strike, q.strike)
    <2>1. s.legs[1] = p /\ s.legs[2] = q
      BY <1>10
    <2>2. QED
      BY <1>9, <2>1 DEF Affordable, Width
  <1>13. SpreadOf(s, right, day)
    BY <1>9, <1>10, <1>11, <1>12 DEF Legs, SpreadOf
  <1>14. QED
    BY <1>1, <1>11, <1>12, <1>13 DEF Sound, s

(* What RefusedForRoundingOnly says of one idea.                            *)
RoundingOnly(idea) ==
    /\ 200 * Gap(idea.target, idea.entry) >= 199 * Gap(idea.entry, idea.stop)
    /\ idea.stop > 0 /\ idea.target > 0 /\ Gap(idea.target, idea.entry) >= Gap(idea.entry, idea.stop) => ValidIdea(idea, Today)

LEMMA RatioBounds ==
    ASSUME NEW reward \in Int, NEW risk \in Int, risk > 0, Ratio(reward, risk) >= 100
    PROVE  200 * reward >= 199 * risk
  <1> DEFINE n == 200 * reward + risk
             d == 2 * risk
  <1>1. n \in Int /\ d \in Int /\ d > 0
    OBVIOUS
  <1>2. n \div d >= 100
    BY DEF Ratio
  <1> HIDE DEF n, d
  <1>3. n >= d * (n \div d) /\ n \div d \in Int
    BY <1>1
  <1>4. n >= d * 100
    BY <1>1, <1>2, <1>3
  <1>5. QED
    BY <1>4 DEF n, d

LEMMA ScoreIsPercent ==
    ASSUME NEW strength \in 0..100, NEW rr \in Int, rr >= 100, NEW preferred \in BOOLEAN
    PROVE  Score(strength, rr, preferred) \in 0..100
  <1> DEFINE n == 40 * strength + 15 * (IF rr < 200 THEN rr ELSE 200)
  <1>1. n \in Int /\ 0 <= n /\ n <= 7000
    OBVIOUS
  <1> HIDE DEF n
  <1>2. HalfEven(n, 100) \in 0..70
    BY <1>1 DEF HalfEven
  <1>3. Score(strength, rr, preferred) = HalfEven(n, 100) + 20 + (IF preferred THEN 10 ELSE 0)
    BY DEF Score, n
  <1>4. QED
    BY <1>2, <1>3

LEMMA LengthOf ==
    ASSUME NEW n \in Nat, NEW f, f = [i \in 1..n |-> f[i]]
    PROVE  Len(f) = n
  <1>1. DOMAIN f = 1..n
    OBVIOUS
  <1>2. QED
    BY <1>1

Side(right) == IF right = "call" THEN "long" ELSE "short"

(* The idea of a sound structure has the legs the rules ask for.            *)
LEMMA SoundLegs ==
    ASSUME NEW right \in {"call", "put"}, NEW s, Sound(s, right, Today),
           NEW idea, idea.direction = Side(right), idea.strategy = s.strategy,
           idea.legs = [i \in DOMAIN s.legs |->
                           [right |-> s.legs[i].right, strike |-> s.legs[i].strike, expiry |-> s.legs[i].expiry,
                            side |-> IF i = 1 THEN "buy" ELSE "sell", standard |-> TRUE]]
    PROVE  /\ ValidLegs(idea, Today) /\ idea.strategy \in Longs \cup Spreads
           /\ IsSpread(idea) => s.debit < Gap(idea.legs[1].strike, idea.legs[2].strike)
           /\ Len(s.legs) \in Nat
  <1> DEFINE leg(i) == [right |-> s.legs[i].right, strike |-> s.legs[i].strike, expiry |-> s.legs[i].expiry,
                        side |-> IF i = 1 THEN "buy" ELSE "sell", standard |-> TRUE]
  <1>0. \A i \in DOMAIN s.legs : idea.legs[i] = leg(i)
    OBVIOUS
  <1>1. \A q \in Offered(right, Today) : q.right = right /\ q.strike > 0 /\ q.expiry > Today
    BY DEF Offered, OptionQuote
  <1>2. IsCall(idea) <=> right = "call"
    BY DEF Sound, LongOf, SpreadOf, IsCall
  <1>3. CASE LongOf(s, right, Today)
    <2>1. PICK q \in Offered(right, Today) : s.legs = <<q>>
      BY <1>3 DEF LongOf
    <2>2. DOMAIN s.legs = 1..1 /\ s.legs[1] = q /\ Len(s.legs) = 1
      BY <2>1
    <2>3. ~IsSpread(idea) /\ idea.strategy \in Longs
      BY <1>3 DEF LongOf, IsSpread, Spreads, Longs
    <2>4. Len(idea.legs) = 1 /\ idea.legs[1] = [right |-> q.right, strike |-> q.strike, expiry |-> q.expiry,
                                                side |-> "buy", standard |-> TRUE]
      <3>1. idea.legs[1] = [right |-> q.right, strike |-> q.strike, expiry |-> q.expiry,
                            side |-> "buy", standard |-> TRUE]
        <4>0. 1 \in DOMAIN s.legs
          BY <2>2
        <4>1. idea.legs[1] = leg(1)
          <5> HIDE DEF leg
          <5>1. QED
            BY <1>0, <4>0
        <4>2. QED
          BY <2>2, <4>1
      <3>2. idea.legs = [i \in 1..1 |-> idea.legs[i]]
        BY <2>2
      <3>3. Len(idea.legs) = 1
        BY <3>2, LengthOf
      <3>4. QED
        BY <3>1, <3>3
    <2>5. ValidLegs(idea, Today)
      BY <1>1, <1>2, <2>3, <2>4 DEF ValidLegs, Side
    <2>6. QED
      BY <2>2, <2>3, <2>5
  <1>4. CASE SpreadOf(s, right, Today)
    <2>1. PICK p \in Offered(right, Today), q \in Offered(right, Today) :
              /\ s.legs = <<p, q>> /\ p.expiry = q.expiry
              /\ IF right = "call" THEN p.strike < q.strike ELSE p.strike > q.strike
              /\ s.debit < Gap(p.strike, q.strike)
      BY <1>4 DEF SpreadOf
    <2>2. DOMAIN s.legs = 1..2 /\ s.legs[1] = p /\ s.legs[2] = q /\ Len(s.legs) = 2
      BY <2>1
    <2>3. IsSpread(idea) /\ idea.strategy \in Spreads
      BY <1>4 DEF SpreadOf, IsSpread, Spreads
    <2>4. /\ Len(idea.legs) = 2
          /\ idea.legs[1] = [right |-> p.right, strike |-> p.strike, expiry |-> p.expiry,
                             side |-> "buy", standard |-> TRUE]
          /\ idea.legs[2] = [right |-> q.right, strike |-> q.strike, expiry |-> q.expiry,
                             side |-> "sell", standard |-> TRUE]
      <3>1. /\ idea.legs[1] = [right |-> p.right, strike |-> p.strike, expiry |-> p.expiry,
                                side |-> "buy", standard |-> TRUE]
            /\ idea.legs[2] = [right |-> q.right, strike |-> q.strike, expiry |-> q.expiry,
                                side |-> "sell", standard |-> TRUE]
        <4>0. 1 \in DOMAIN s.legs /\ 2 \in DOMAIN s.legs
          BY <2>2
        <4>1. idea.legs[1] = leg(1) /\ idea.legs[2] = leg(2)
          <5> HIDE DEF leg
          <5>1. QED
            BY <1>0, <4>0
        <4>2. QED
          BY <2>2, <4>1
      <3>2. idea.legs = [i \in 1..2 |-> idea.legs[i]]
        BY <2>2
      <3>3. Len(idea.legs) = 2
        BY <3>2, LengthOf
      <3>4. QED
        BY <3>1, <3>3
    <2>5. ValidLegs(idea, Today)
      BY <1>1, <1>2, <2>1, <2>3, <2>4 DEF ValidLegs, Side
    <2>6. QED
      BY <2>1, <2>2, <2>3, <2>4, <2>5
  <1>5. QED
    BY <1>3, <1>4 DEF Sound

LEMMA BuiltIsValid ==
    ASSUME NEW symbol, NEW playbook, NEW signal \in Signal, NEW right \in {"call", "put"},
           signal.direction = Side(right), NEW structure, Sound(structure, right, Today), NEW preferred \in BOOLEAN,
           BuildIdea(symbol, playbook, signal, structure, preferred) # Missing
    PROVE  RoundingOnly(BuildIdea(symbol, playbook, signal, structure, preferred))
  <1> DEFINE entry == Cents(signal.entry)
             stop  == Cents(signal.stop)
             target == Cents(signal.target)
             reward == Gap(target, entry)
             risk  == Gap(entry, stop)
             rr    == Ratio(reward, risk)
             score == Score(signal.strength, rr, preferred)
             idea  == BuildIdea(symbol, playbook, signal, structure, preferred)
  <1>1. entry \in Int /\ stop \in Int /\ target \in Int /\ signal.strength \in 0..100
    BY DEF Signal, Cents
  <1>2. /\ \/ signal.direction = "long"  /\ stop < entry /\ entry < target
           \/ signal.direction = "short" /\ target < entry /\ entry < stop
        /\ ~(rr < 100) /\ WithinCap(structure)
    BY DEF BuildIdea
  <1>3. /\ idea.entry = entry /\ idea.stop = stop /\ idea.target = target
        /\ idea.action = "open" /\ idea.style = "swing" /\ idea.quantity = 1
        /\ idea.strategy = structure.strategy /\ idea.direction = signal.direction
        /\ idea.metadata = (score \in 0..100 /\ rr >= 100)
        /\ idea.debit = structure.debit /\ idea.est = structure.debit * 100
        /\ idea.fees = FeePerContract * Len(structure.legs)
        /\ idea.legs = [i \in DOMAIN structure.legs |->
                           [right |-> structure.legs[i].right, strike |-> structure.legs[i].strike,
                            expiry |-> structure.legs[i].expiry,
                            side |-> IF i = 1 THEN "buy" ELSE "sell", standard |-> TRUE]]
    BY DEF BuildIdea
  <1> HIDE DEF entry, stop, target, idea
  <1>4. reward \in Int /\ risk \in Int /\ risk > 0
    BY <1>1, <1>2 DEF Gap
  <1> HIDE DEF reward, risk
  <1>5. rr \in Int /\ rr >= 100
    BY <1>2, <1>4, RatioIsNumber
  <1>6. 200 * reward >= 199 * risk
    BY <1>4, <1>5, RatioBounds
  <1> HIDE DEF rr
  <1>7. score \in 0..100
    BY <1>1, <1>5, ScoreIsPercent
  <1>8. /\ ValidLegs(idea, Today) /\ idea.strategy \in Longs \cup Spreads
        /\ IsSpread(idea) => structure.debit < Gap(idea.legs[1].strike, idea.legs[2].strike)
        /\ Len(structure.legs) \in Nat
    <2>1. idea.direction = Side(right)
      BY <1>3
    <2>2. QED
      BY <1>3, <2>1, SoundLegs
  <1>9. ValidCost(idea)
    <2>1. structure.debit \in Int /\ structure.debit > 0
      BY DEF Sound
    <2>2. FeePerContract \in Nat
      BY ContractConstants
    <2>3. FeePerContract * Len(structure.legs) >= 0 /\ FeePerContract * Len(structure.legs) \in Int
      BY <1>8, <2>2
    <2>4. MaxLoss(idea) = structure.debit * 100 + FeePerContract * Len(structure.legs)
      BY <1>3, <2>1, <2>3 DEF MaxLoss
    <2>5. MaxLoss(idea) <= RiskLimit
      BY <1>2, <2>4 DEF WithinCap
    <2>6. QED
      BY <1>3, <1>8, <2>1, <2>3, <2>5 DEF ValidCost
  <1>10. ASSUME idea.stop > 0, idea.target > 0, reward >= risk
         PROVE  ValidIdea(idea, Today)
    <2>1. entry > 0
      BY <1>1, <1>2, <1>3, <1>10
    <2>2. {idea.entry, idea.stop, idea.target} \subseteq Nat \ {0}
      <3>1. stop > 0 /\ target > 0
        BY <1>3, <1>10
      <3>2. entry \in Nat \ {0} /\ stop \in Nat \ {0} /\ target \in Nat \ {0}
        BY <1>1, <2>1, <3>1
      <3>3. QED
        BY <1>3, <3>2
    <2>3. ValidLevels(idea)
      BY <1>2, <1>3, <1>10, <2>2 DEF ValidLevels, reward, risk
    <2>4. QED
      BY <1>3, <1>5, <1>7, <1>8, <1>9, <2>3 DEF ValidIdea
  <1>11. RoundingOnly(idea)
    BY <1>3, <1>6, <1>10 DEF RoundingOnly, reward, risk
  <1>12. QED
    BY <1>11 DEF idea

LEMMA AttachedIsValid ==
    ASSUME NEW s, NEW playbook, NEW signal \in Signal, NEW right \in {"call", "put"},
           signal.direction = Side(right), NEW structure, structure # Missing => Sound(structure, right, Today),
           NEW preferred \in BOOLEAN
    PROVE  \A idea \in Attach(s, playbook, signal, structure, preferred) : RoundingOnly(idea)
  <1> SUFFICES ASSUME NEW idea \in Attach(s, playbook, signal, structure, preferred)
               PROVE  RoundingOnly(idea)
    OBVIOUS
  <1>1. /\ structure # Missing /\ idea = BuildIdea(s, playbook, signal, structure, preferred)
        /\ BuildIdea(s, playbook, signal, structure, preferred) # Missing
    BY DEF Attach
  <1>2. QED
    BY <1>1, BuiltIsValid

LEMMA CandidatesAreValid ==
    ASSUME NEW s \in Symbols, market[s] \in Snapshots[s]
    PROVE  \A idea \in Candidates(s) : RoundingOnly(idea)
  <1> DEFINE snap     == market[s]
             trend    == TrendSignal(snap.bars)
             bounce   == BounceSignal(snap.bars)
             breakout == BreakoutSignal(snap.bars)
             right    == IF trend.direction = "long" THEN "call" ELSE "put"
             long(r)   == SelectLong(snap.chain, r, Today)
             spread(r) == SelectDebitSpread(snap.chain, r, Today)
  <1>1. /\ snap.bars \in Session /\ snap.preferSpread \in BOOLEAN /\ Today \in Int
        /\ IsFiniteSet(snap.bars.highs) /\ IsFiniteSet(snap.bars.lows) /\ Lists(snap.chain)
    BY ScannerConstants DEF Lists
  <1>2. (trend # Missing => trend \in Signal) /\ (bounce # Missing => bounce \in Signal)
        /\ (breakout # Missing => breakout \in Signal)
    BY <1>1, TrendIsSignal, BounceIsSignal, BreakoutIsSignal
  <1>3. \A r : (long(r) # Missing => Sound(long(r), r, Today)) /\ (spread(r) # Missing => Sound(spread(r), r, Today))
    BY <1>1, LongIsSound, SpreadIsSound
  <1>4. (bounce # Missing => bounce.direction = Side("call")) /\ (breakout # Missing => breakout.direction = Side("call"))
    BY DEF BounceSignal, BreakoutSignal, Accepted, Side
  <1>5. trend # Missing => trend.direction = Side(right)
    BY <1>2 DEF Signal, Side
  <1>6. right \in {"call", "put"} /\ (~snap.preferSpread) \in BOOLEAN
    OBVIOUS
  <1>7. \A idea \in Candidates(s) :
           \/ /\ trend # Missing
              /\ \/ idea \in Attach(s, "trend_directional", trend, long(right), ~snap.preferSpread)
                 \/ idea \in Attach(s, "trend_debit_spread", trend, spread(right), snap.preferSpread)
           \/ bounce # Missing /\ idea \in Attach(s, "oversold_bounce", bounce, long("call"), TRUE)
           \/ breakout # Missing /\ idea \in Attach(s, "breakout_continuation", breakout, spread("call"), TRUE)
    BY DEF Candidates
  <1> HIDE DEF snap, trend, bounce, breakout, right, long, spread
  <1>8. trend # Missing =>
           /\ \A idea \in Attach(s, "trend_directional", trend, long(right), ~snap.preferSpread) : RoundingOnly(idea)
           /\ \A idea \in Attach(s, "trend_debit_spread", trend, spread(right), snap.preferSpread) : RoundingOnly(idea)
    BY <1>1, <1>2, <1>3, <1>5, <1>6, AttachedIsValid
  <1>9. bounce # Missing =>
           \A idea \in Attach(s, "oversold_bounce", bounce, long("call"), TRUE) : RoundingOnly(idea)
    BY <1>2, <1>3, <1>4, AttachedIsValid
  <1>10. breakout # Missing =>
           \A idea \in Attach(s, "breakout_continuation", breakout, spread("call"), TRUE) : RoundingOnly(idea)
    BY <1>2, <1>3, <1>4, AttachedIsValid
  <1>11. QED
    BY <1>7, <1>8, <1>9, <1>10

LEMMA DraftIsValid ==
    ASSUME NEW s \in Symbols, market[s] \in Snapshots[s], NEW right \in {"call", "put"},
           ManualIdea(s, market[s], right, Today) # Missing
    PROVE  RoundingOnly(ManualIdea(s, market[s], right, Today))
  <1> DEFINE snap == market[s]
             structure == SelectLong(snap.chain, right, Today)
             signal == ManualSignal(snap.bars, right)
  <1>1. snap.bars \in Session /\ Today \in Int /\ Lists(snap.chain)
    BY ScannerConstants DEF Lists
  <1>2. /\ structure # Missing /\ signal # Missing
        /\ ManualIdea(s, snap, right, Today) = BuildIdea(s, "manual", signal, structure, FALSE)
    BY DEF ManualIdea
  <1>3. Sound(structure, right, Today)
    BY <1>1, <1>2, LongIsSound
  <1>4. signal \in Signal /\ signal.direction = Side(right)
    <2>1. snap.bars.close \in Int /\ snap.bars.atr \in Int
      BY <1>1 DEF Session
    <2>2. QED
      BY <1>2, <2>1 DEF ManualSignal, Signal, Side
  <1> HIDE DEF structure, signal
  <1>5. QED
    BY <1>2, <1>3, <1>4, BuiltIsValid

LegalInv == ChoiceInv /\ \A idea \in drafts : RoundingOnly(idea)

LEMMA LegalNext == LegalInv /\ [ScanNext]_nvars => LegalInv'
  <1> SUFFICES ASSUME LegalInv, [ScanNext]_nvars PROVE LegalInv'
    OBVIOUS
  <1>1. ChoiceInv'
    BY ChoiceNext DEF LegalInv
  <1>2. CASE drafts' = drafts
    BY <1>1, <1>2 DEF LegalInv, RoundingOnly
  <1>3. ASSUME NEW s \in Symbols, NEW right \in {"call", "put"}, Draft(s, right)
        PROVE  LegalInv'
    <2>1. drafts' = {ManualIdea(s, market[s], right, Today)} /\ ManualIdea(s, market[s], right, Today) # Missing
      BY <1>3 DEF Draft
    <2>2. market[s] \in Snapshots[s]
      BY DEF LegalInv, ChoiceInv, MarketOK
    <2>3. RoundingOnly(ManualIdea(s, market[s], right, Today))
      BY <2>1, <2>2, DraftIsValid
    <2>4. \A idea \in drafts' : RoundingOnly(idea)
      BY <2>1, <2>3
    <2>5. QED
      BY <1>1, <2>4 DEF LegalInv, RoundingOnly
  <1>4. QED
    BY <1>2, <1>3 DEF ScanNext, ScanSymbol, Take, nvars

LEMMA LegalIdeas == LegalInv => RefusedForRoundingOnly
  <1> SUFFICES ASSUME LegalInv PROVE RefusedForRoundingOnly
    OBVIOUS
  <1>1. ASSUME NEW idea \in best PROVE RoundingOnly(idea)
    <2>1. idea.symbol \in Symbols /\ market[idea.symbol] \in Snapshots[idea.symbol]
      BY DEF LegalInv, ChoiceInv, BestKept, MarketOK
    <2>2. idea \in Candidates(idea.symbol)
      BY DEF LegalInv, ChoiceInv, BestKept, BestOf, Enabled
    <2>3. QED
      BY <2>1, <2>2, CandidatesAreValid
  <1>2. QED
    BY <1>1 DEF LegalInv, RoundingOnly, RefusedForRoundingOnly

(* Every idea that a scan keeps or the owner has drafted is one the rules    *)
(* engine accepts, unless rounding to cents put a level at nothing or made   *)
(* the reward, by less than half a hundredth, smaller than the risk: for any *)
(* chains, sessions and limits (scan.py:3).                                  *)
THEOREM IdeasAreLegal == ScanSpec => []RefusedForRoundingOnly
  <1>1. ScanInit => LegalInv
    BY ChoiceBegins DEF ScanInit, LegalInv
  <1>2. QED
    BY <1>1, LegalNext, LegalIdeas, PTL DEF ScanSpec

-----------------------------------------------------------------------------
(* The exits over the sessions.                                             *)
Ages == 0..(PdtWindow - 1)
TripsOf(f) == FoldFunctionOnSet(+, 0, f, 0..(PdtWindow - 1))
TripsBy(F, f) ==
    F = [T \in SUBSET Ages |-> IF T = {} THEN 0 ELSE LET x == CHOOSE a \in T : TRUE IN f[x] + F[T \ {x}]]

LEMMA AgesAreFinite == IsFiniteSet(Ages) /\ 0 \in Ages /\ PdtWindow - 1 \in Nat
  <1>1. PdtWindow - 1 \in Nat /\ 0 \in Int
    BY TradingConstants
  <1>2. QED
    BY <1>1, FS_Interval DEF Ages

LEMMA TripsAreSums ==
    ASSUME NEW f \in [Ages -> Nat]
    PROVE  \E F : Sums(F, Ages, f) /\ TripsOf(f) = F[Ages]
  <1> DEFINE ch == [T \in SUBSET Ages |-> CHOOSE a \in T : TRUE]
  <1>1. Chooses(ch, Ages) /\ \A T \in SUBSET Ages : ch[T] = CHOOSE a \in T : TRUE
    BY DEF Chooses
  <1>2. IsFiniteSet(Ages) /\ f \in [Ages -> Int]
    BY AgesAreFinite
  <1> HIDE DEF ch
  <1>3. \A F : SumsBy(F, Ages, ch, f) <=> TripsBy(F, f)
    BY <1>1 DEF SumsBy, TripsBy
  <1>4. PICK G : TripsBy(G, f)
    BY <1>1, <1>2, <1>3, SumExists
  <1>5. \E F : TripsBy(F, f) /\ TripsOf(f) = F[Ages]
    BY <1>4 DEF TripsOf, FoldFunctionOnSet, MapThenFoldSet, TripsBy, Ages
  <1>6. QED
    BY <1>1, <1>2, <1>3, <1>5, SumIsSum

LEMMA TripsAreCounted ==
    ASSUME NEW f \in [Ages -> Nat]
    PROVE  /\ TripsOf(f) \in Nat
           /\ TripsOf([f EXCEPT ![0] = @ + 1]) = TripsOf(f) + 1
           /\ TripsOf([age \in 0..(PdtWindow - 1) |-> IF age = 0 THEN 0 ELSE f[age - 1]]) <= TripsOf(f)
  <1> DEFINE g == [f EXCEPT ![0] = @ + 1]
             h == [age \in 0..(PdtWindow - 1) |-> IF age = 0 THEN 0 ELSE f[age - 1]]
             Past == Ages \ {0}
  <1>1. 0 \in Ages /\ IsFiniteSet(Ages) /\ IsFiniteSet(Past) /\ Past \in SUBSET Ages
    BY AgesAreFinite, FS_Subset
  <1>2. g \in [Ages -> Nat] /\ g[0] = f[0] + 1 /\ \A x \in Past : g[x] = f[x]
    BY <1>1
  <1>3. h[0] = 0 /\ (\A i \in 1..(PdtWindow - 1) : h[i] = f[i - 1]) /\ h \in [Ages -> Nat]
    BY <1>1, TradingConstants DEF Ages
  <1> HIDE DEF g, h
  <1>4. PICK F : Sums(F, Ages, f) /\ TripsOf(f) = F[Ages]
    BY TripsAreSums
  <1>5. PICK G : Sums(G, Ages, g) /\ TripsOf(g) = G[Ages]
    BY <1>2, TripsAreSums
  <1>6. PICK H : Sums(H, Ages, h) /\ TripsOf(h) = H[Ages]
    BY <1>3, TripsAreSums
  <1>7. F[Ages] \in Nat
    BY <1>1, <1>4, SumIsNatural
  <1>8. G[Ages] = F[Ages] + 1
    <2>1. F[Ages] = f[0] + F[Past] /\ G[Ages] = g[0] + G[Past]
      BY <1>1, <1>4, <1>5 DEF Sums
    <2>2. F[Past] = G[Past]
      <3>1. Past \subseteq Ages /\ \A x \in Past : f[x] = g[x]
        BY <1>2
      <3>2. Sums(F, Ages, f) /\ Sums(G, Ages, g) /\ IsFiniteSet(Past)
        BY <1>1, <1>4, <1>5
      <3> HIDE DEF Past
      <3>3. QED
        BY <3>1, <3>2, SumsAgreeOn
    <2>3. F[Past] \in Int /\ f[0] \in Int
      BY <1>1, <1>4 DEF Sums
    <2>4. QED
      BY <1>2, <2>1, <2>2, <2>3
  <1>9. H[Ages] <= F[Ages]
    BY <1>3, <1>4, <1>6, AgesAreFinite, SumOfShifted DEF Ages
  <1>10. QED
    BY <1>4, <1>5, <1>6, <1>7, <1>8, <1>9 DEF g, h

LEMMA NoTrips == TripsOf([age \in 0..(PdtWindow - 1) |-> 0]) = 0
  <1> DEFINE z == [age \in 0..(PdtWindow - 1) |-> 0]
  <1>1. z \in [Ages -> Nat] /\ \A x \in Ages : z[x] = 0
    BY DEF Ages
  <1> HIDE DEF z
  <1>2. PICK F : Sums(F, Ages, z) /\ TripsOf(z) = F[Ages]
    BY <1>1, TripsAreSums
  <1>3. TripsOf(z) = 0
    BY <1>1, <1>2, AgesAreFinite, ZerosSumToZero
  <1>4. QED
    BY <1>3 DEF z

-----------------------------------------------------------------------------
(* The exits that may still fill as day trades.                              *)
Pending == {c \in Options : exit[c] > 0 /\ sessions[c] = 0}

DaysOK ==
    /\ held \in [Options -> {"none", "held", "sold"}]
    /\ DOMAIN exit = Options
    /\ sessions \in [Options -> Nat]
    /\ trips \in [Ages -> Nat]
    /\ budget \in Nat
    /\ tried \subseteq Options

(* An order is of a held contract whose key of today is burned.              *)
Burned == \A c \in Options : exit[c] > 0 => held[c] = "held" /\ c \in tried

(* What the session may still add: in a cycle, one trip for every key that   *)
(* is burned, on top of the budget it read; and never more than the bound.   *)
Counted ==
    /\ todo # {} => DayTrades + Cardinality(Pending) <= budget + Cardinality(tried)
    /\ DayTrades + Cardinality(Pending) <= DayTradeLimit + Cardinality(Options) - 1

DaysInv == DaysOK /\ Burned /\ Counted

LEMMA OptionsAreCounted ==
    ASSUME NEW S, S \subseteq Options
    PROVE  /\ IsFiniteSet(S) /\ Cardinality(S) \in Nat
           /\ Cardinality(S) <= Cardinality(Options)
           /\ Cardinality(Options) \in Nat /\ Cardinality(Options) >= 1
           /\ \A T : T \subseteq S => Cardinality(T) <= Cardinality(S)
           /\ \A c \in Options : c \notin S => Cardinality(S \cup {c}) = Cardinality(S) + 1
           /\ \A c \in S : Cardinality(S \ {c}) = Cardinality(S) - 1
  <1>1. IsFiniteSet(S) /\ IsFiniteSet(Options)
    BY TradingConstants, FS_Subset
  <1>2. Cardinality(S) \in Nat /\ Cardinality(Options) \in Nat
    BY <1>1, FS_CardinalityType
  <1>3. Cardinality(S) <= Cardinality(Options)
    BY <1>1, FS_Subset
  <1>4. Cardinality(Options) # 0
    BY <1>1, TradingConstants, FS_EmptySet
  <1>5. \A T : T \subseteq S => Cardinality(T) <= Cardinality(S)
    BY <1>1, FS_Subset
  <1>6. \A c \in Options : c \notin S => Cardinality(S \cup {c}) = Cardinality(S) + 1
    BY <1>1, FS_AddElement
  <1>7. \A c \in S : Cardinality(S \ {c}) = Cardinality(S) - 1
    BY <1>1, FS_RemoveElement
  <1>8. QED
    BY <1>1, <1>2, <1>3, <1>4, <1>5, <1>6, <1>7

LEMMA DayTradesAreTrips ==
    /\ DayTrades = TripsOf(trips) /\ DayTrades' = TripsOf(trips')
    /\ trips' = trips => DayTrades' = DayTrades
    /\ DaysOK => DayTrades \in Nat
    /\ DaysOK' => DayTrades' \in Nat
  <1>1. DayTrades = TripsOf(trips)
    BY DEF DayTrades, TripsOf
  <1>2. DayTrades' = TripsOf(trips')
    BY DEF DayTrades, TripsOf, FoldFunctionOnSet, MapThenFoldSet
  <1>3. DaysOK => trips \in [Ages -> Nat]
    BY DEF DaysOK
  <1>4. DaysOK' => trips' \in [Ages -> Nat]
    BY DEF DaysOK, Ages
  <1>5. QED
    BY <1>1, <1>2, <1>3, <1>4, TripsAreCounted

LEMMA DaysBegin == TInit => DaysInv
  <1> SUFFICES ASSUME TInit PROVE DaysInv
    OBVIOUS
  <1>1. DaysOK
    BY DEF TInit, DaysOK, Ages
  <1>2. \A c \in Options : exit[c] = 0
    BY DEF TInit
  <1>3. Pending = {} /\ Burned
    BY <1>2 DEF Pending, Burned
  <1>4. DayTrades = 0
    BY NoTrips DEF TInit, DayTrades, TripsOf
  <1>5. Cardinality({}) = 0 /\ Cardinality(Options) \in Nat /\ Cardinality(Options) >= 1
    BY FS_EmptySet, OptionsAreCounted
  <1>6. Counted
    <2>1. todo = {} /\ DayTradeLimit \in Nat
      BY ExitConstants DEF TInit
    <2>2. QED
      BY <1>3, <1>4, <1>5, <2>1 DEF Counted
  <1>7. QED
    BY <1>1, <1>3, <1>6 DEF DaysInv

(* Most steps make no trip and leave no order that may make another.          *)
LEMMA CountKept ==
    ASSUME DaysInv, trips' = trips, Pending' \subseteq Pending,
           todo' # {} => todo # {} /\ budget' = budget /\ tried \subseteq tried' /\ tried' \subseteq Options
    PROVE  Counted'
  <1>1. DayTrades' = DayTrades /\ DayTrades \in Nat
    BY DayTradesAreTrips DEF DaysInv
  <1>2. Pending \subseteq Options
    BY DEF Pending
  <1>3. Cardinality(Pending') <= Cardinality(Pending) /\ Cardinality(Pending) \in Nat /\ Cardinality(Pending') \in Nat
    BY <1>2, OptionsAreCounted
  <1>4. todo' # {} => Cardinality(tried) <= Cardinality(tried') /\ Cardinality(tried) \in Nat /\ Cardinality(tried') \in Nat
    BY OptionsAreCounted
  <1>5. Cardinality(Options) \in Nat /\ DayTradeLimit \in Nat /\ budget \in Nat
    BY OptionsAreCounted, ExitConstants DEF DaysInv, DaysOK
  <1>6. QED
    BY <1>1, <1>3, <1>4, <1>5 DEF DaysInv, Counted

LEMMA BoughtCounts ==
    ASSUME DaysInv, NEW c \in Options, Bought(c)
    PROVE  DaysInv'
  <1> USE DEF Bought
  <1>1. DaysOK'
    BY DEF DaysInv, DaysOK
  <1>2. ~(exit[c] > 0)
    BY DEF DaysInv, Burned
  <1>3. Burned'
    BY <1>2 DEF DaysInv, DaysOK, Burned
  <1>4. Pending' = Pending
    BY <1>2 DEF DaysInv, DaysOK, Pending
  <1>5. Counted'
    BY <1>4, CountKept DEF DaysInv, DaysOK
  <1>6. QED
    BY <1>1, <1>3, <1>5 DEF DaysInv

(* A fill moves the day trade from the orders to the trips.                  *)
LEMMA SoldCounts ==
    ASSUME DaysInv, NEW c \in Options, Sold(c)
    PROVE  DaysInv'
  <1>0. /\ exit[c] > 0 /\ exit' = [exit EXCEPT ![c] = 0] /\ held' = [held EXCEPT ![c] = "sold"]
        /\ trips' = IF sessions[c] = 0 THEN [trips EXCEPT ![0] = @ + 1] ELSE trips
        /\ UNCHANGED <<sessions, tried, budget, todo>>
    BY DEF Sold
  <1>1. trips \in [Ages -> Nat] /\ 0 \in Ages
    BY AgesAreFinite DEF DaysInv, DaysOK
  <1>2. DaysOK'
    BY <1>0, <1>1 DEF DaysInv, DaysOK
  <1>3. DOMAIN exit = Options /\ Burned
    BY DEF DaysInv, DaysOK
  <1>4. \A d \in Options : exit'[d] = IF d = c THEN 0 ELSE exit[d]
    BY <1>0, <1>3
  <1>5. \A d \in Options : d # c => held'[d] = held[d]
    BY <1>0 DEF DaysInv, DaysOK
  <1>6. Burned'
    BY <1>0, <1>3, <1>4, <1>5 DEF Burned
  <1>7. Pending' = Pending \ {c}
    BY <1>0, <1>4 DEF Pending
  <1>8. CASE sessions[c] # 0
    BY <1>0, <1>2, <1>6, <1>7, <1>8, CountKept DEF DaysInv, DaysOK
  <1>9. CASE sessions[c] = 0
    <2>1. trips' = [trips EXCEPT ![0] = @ + 1]
      BY <1>0, <1>9
    <2>2. DayTrades' = DayTrades + 1 /\ DayTrades \in Nat
      BY <1>1, <2>1, TripsAreCounted, DayTradesAreTrips DEF DaysInv
    <2>3. c \in Pending /\ Pending \subseteq Options
      BY <1>0, <1>9 DEF Pending
    <2>4. Cardinality(Pending') = Cardinality(Pending) - 1 /\ Cardinality(Pending) \in Nat
      BY <1>7, <2>3, OptionsAreCounted
    <2>5. DayTrades' + Cardinality(Pending') = DayTrades + Cardinality(Pending)
      BY <2>2, <2>4
    <2>6. Counted'
      BY <1>0, <2>5 DEF Counted, DaysInv
    <2>7. QED
      BY <1>2, <1>6, <2>6 DEF DaysInv
  <1>10. QED
    BY <1>8, <1>9

LEMMA ShownCounts ==
    ASSUME DaysInv, NEW c \in Options, Posted(c) \/ ReleaseIntent(c) \/ \E q \in Quotes : Quoted(c, q)
    PROVE  DaysInv'
  <1>1. UNCHANGED <<held, exit, sessions, tried, trips, budget, todo>>
    BY DEF Posted, ReleaseIntent, Quoted
  <1>2. DaysOK' /\ Burned' /\ Pending' = Pending
    BY <1>1 DEF DaysInv, DaysOK, Burned, Pending
  <1>3. QED
    BY <1>1, <1>2, CountKept DEF DaysInv, DaysOK

(* A cycle begins: the orders that may still fill all have a burned key.     *)
LEMMA BeginCounts ==
    ASSUME DaysInv, BeginExits
    PROVE  DaysInv'
  <1>0. /\ held' = [c \in Options |-> IF held[c] = "sold" THEN "none" ELSE held[c]]
        /\ sessions' = [c \in Options |-> IF held[c] = "sold" THEN 0 ELSE sessions[c]]
        /\ budget' = DayTrades /\ UNCHANGED <<exit, tried, trips>>
    BY DEF BeginExits
  <1>1. DayTrades \in Nat
    BY DayTradesAreTrips DEF DaysInv
  <1>2. DaysOK'
    BY <1>0, <1>1 DEF DaysInv, DaysOK
  <1>3. Burned'
    BY <1>0 DEF DaysInv, Burned
  <1>4. Pending' = Pending
    BY <1>0 DEF DaysInv, Burned, Pending
  <1>5. Pending \subseteq tried /\ tried \subseteq Options
    BY DEF DaysInv, DaysOK, Burned, Pending
  <1>6. Cardinality(Pending) <= Cardinality(tried)
    BY <1>5, OptionsAreCounted
  <1>7. DayTrades' = DayTrades
    BY <1>0, DayTradesAreTrips
  <1>8. Cardinality(Pending) \in Nat /\ Cardinality(tried) \in Nat
    BY <1>5, OptionsAreCounted
  <1>9. Counted'
    BY <1>0, <1>1, <1>4, <1>6, <1>7, <1>8 DEF DaysInv, Counted
  <1>10. QED
    BY <1>2, <1>3, <1>9 DEF DaysInv

LEMMA NoExitCounts ==
    ASSUME DaysInv, NEW c \in Options, NoExit(c)
    PROVE  DaysInv'
  <1>1. UNCHANGED <<held, exit, sessions, trips, budget>> /\ tried \subseteq tried' /\ tried' \subseteq tried \cup {c}
    BY DEF NoExit
  <1>2. DaysOK' /\ Burned' /\ Pending' = Pending
    BY <1>1 DEF DaysInv, DaysOK, Burned, Pending
  <1>3. todo # {}
    BY DEF NoExit
  <1>4. QED
    BY <1>1, <1>2, <1>3, CountKept DEF DaysInv, DaysOK

(* On the session of its entry a contract is sold only below the budget.     *)
LEMMA SameSessionIsBudgeted ==
    ASSUME NEW c \in Options, Decides(c, budget), sessions[c] = 0
    PROVE  budget < DayTradeLimit
  <1>1. HeldOption(c).sessions = 0
    BY DEF HeldOption
  <1>2. Reason(HeldOption(c), Idea, budget) # Hold
    BY DEF Decides, Decision
  <1>3. QED
    BY <1>1, <1>2 DEF Reason, SameSession

LEMMA ExitCounts ==
    ASSUME DaysInv, NEW c \in Options, NEW limit, ExitSent(c, limit)
    PROVE  DaysInv'
  <1>0. /\ c \in todo /\ Prepares(c) /\ todo # {}
        /\ tried' = tried \cup {c} /\ exit' = [exit EXCEPT ![c] = limit]
        /\ todo' = todo \ {c} /\ UNCHANGED <<held, sessions, trips, budget>>
    BY DEF ExitSent
  <1>1. Decides(c, budget) /\ c \notin tried /\ held[c] = "held" /\ exit[c] = 0
    BY <1>0 DEF Prepares
  <1>2. DaysOK'
    BY <1>0 DEF DaysInv, DaysOK
  <1>3. \A d \in Options : d # c => exit'[d] = exit[d]
    BY <1>0 DEF DaysInv, DaysOK
  <1>4. Burned'
    BY <1>0, <1>1, <1>3 DEF DaysInv, Burned
  <1>5. CASE Pending' \subseteq Pending
    BY <1>0, <1>2, <1>4, <1>5, CountKept DEF DaysInv, DaysOK
  <1>6. CASE ~(Pending' \subseteq Pending)
    <2>1. Pending' \subseteq Pending \cup {c} /\ sessions[c] = 0
      BY <1>0, <1>3, <1>6 DEF Pending
    <2>2. budget < DayTradeLimit
      BY <1>1, <2>1, SameSessionIsBudgeted
    <2>3. Pending \subseteq Options /\ c \notin Pending /\ Pending \cup {c} \subseteq Options
      BY <1>1 DEF Pending
    <2>4. Cardinality(Pending') <= Cardinality(Pending \cup {c})
      BY <2>1, <2>3, OptionsAreCounted
    <2>5. Cardinality(Pending \cup {c}) = Cardinality(Pending) + 1 /\ Cardinality(Pending) \in Nat
      BY <2>3, OptionsAreCounted
    <2>6. tried \subseteq Options /\ tried' \subseteq Options
      BY <1>2 DEF DaysInv, DaysOK
    <2>7. Cardinality(tried') = Cardinality(tried) + 1 /\ Cardinality(tried) \in Nat
      BY <1>0, <1>1, <2>6, OptionsAreCounted
    <2>8. Cardinality(tried') <= Cardinality(Options) /\ Cardinality(Options) \in Nat
      BY <2>6, OptionsAreCounted
    <2>9. DayTrades' = DayTrades /\ DayTrades \in Nat /\ budget \in Nat /\ budget' = budget
      BY <1>0, DayTradesAreTrips DEF DaysInv, DaysOK
    <2>10. Cardinality(Pending') \in Nat
      BY <2>1, <2>3, OptionsAreCounted
    <2>11. DayTrades + Cardinality(Pending) <= budget + Cardinality(tried)
      BY <1>0 DEF DaysInv, Counted
    <2>12. Counted'
      BY <2>2, <2>4, <2>5, <2>7, <2>8, <2>9, <2>10, <2>11, ExitConstants DEF Counted
    <2>13. QED
      BY <1>2, <1>4, <2>12 DEF DaysInv
  <1>7. QED
    BY <1>5, <1>6

LEMMA SessionCounts ==
    ASSUME DaysInv, NewSession
    PROVE  DaysInv'
  <1>0. /\ todo' = {} /\ exit' = [c \in Options |-> 0] /\ tried' = {} /\ budget' = 0 /\ held' = held
        /\ sessions' = [c \in Options |->
                           IF held[c] = "held" /\ sessions[c] < MaxSessions
                           THEN sessions[c] + 1 ELSE sessions[c]]
        /\ trips' = [age \in 0..(PdtWindow - 1) |-> IF age = 0 THEN 0 ELSE trips[age - 1]]
    BY DEF NewSession, KeysOfToday
  <1>1. trips' \in [Ages -> Nat]
    BY <1>0, TradingConstants DEF DaysInv, DaysOK, Ages
  <1>2. DaysOK'
    BY <1>0, <1>1 DEF DaysInv, DaysOK
  <1>3. Burned' /\ Pending' = {}
    BY <1>0 DEF Burned, Pending
  <1>4. DayTrades' <= DayTrades /\ DayTrades \in Nat /\ DayTrades' \in Nat
    <2>1. TripsOf(trips') <= TripsOf(trips)
      BY <1>0, TripsAreCounted DEF DaysInv, DaysOK
    <2>2. QED
      BY <1>2, <2>1, DayTradesAreTrips DEF DaysInv
  <1>5. Cardinality({}) = 0 /\ Cardinality(Pending) \in Nat /\ Cardinality(Options) \in Nat
    BY FS_EmptySet, OptionsAreCounted DEF Pending
  <1>6. Counted'
    BY <1>0, <1>3, <1>4, <1>5, ExitConstants DEF DaysInv, Counted
  <1>7. QED
    BY <1>2, <1>3, <1>6 DEF DaysInv

LEMMA DaysStep == DaysInv /\ [TNext]_tvars => DaysInv'
  <1> SUFFICES ASSUME DaysInv, [TNext]_tvars PROVE DaysInv'
    OBVIOUS
  <1>1. CASE BeginExits
    BY <1>1, BeginCounts
  <1>2. CASE NewSession
    BY <1>2, SessionCounts
  <1>3. ASSUME NEW c \in Options,
               Bought(c) \/ Sold(c) \/ Posted(c) \/ NoExit(c) \/ ExitPlaced(c) \/ ExitRefused(c) \/ ExitLost(c)
               \/ ReleaseIntent(c)
               \/ \E q \in Quotes : Quoted(c, q)
        PROVE  DaysInv'
    BY <1>3, BoughtCounts, SoldCounts, ShownCounts, NoExitCounts, ExitCounts DEF ExitPlaced, ExitRefused, ExitLost
  <1>4. CASE UNCHANGED tvars
    <2>1. UNCHANGED <<held, exit, sessions, tried, trips, budget, todo>>
      BY <1>4 DEF tvars
    <2>2. DaysOK' /\ Burned' /\ Pending' = Pending
      BY <2>1 DEF DaysInv, DaysOK, Burned, Pending
    <2>3. QED
      BY <2>1, <2>2, CountKept DEF DaysInv, DaysOK
  <1>5. QED
    BY <1>1, <1>2, <1>3, <1>4 DEF TNext

(* Sales of one cycle are decided on one reading of the budget, and orders   *)
(* placed below it fill later: yet five sessions hold at most one day trade  *)
(* less than the contracts above the limit, whatever is bought, quoted and   *)
(* filled, and however often the same contract is traded again.              *)
THEOREM OverrunIsBounded == TSpec => []OverrunBounded
  <1>1. DaysInv => OverrunBounded
    <2> SUFFICES ASSUME DaysInv PROVE OverrunBounded
      OBVIOUS
    <2>1. Cardinality(Pending) \in Nat /\ Cardinality(Options) \in Nat
      BY OptionsAreCounted DEF Pending
    <2>2. DayTrades \in Nat
      BY DayTradesAreTrips DEF DaysInv
    <2>3. QED
      BY <2>1, <2>2, ExitConstants DEF DaysInv, Counted, OverrunBounded
  <1>2. QED
    BY <1>1, DaysBegin, DaysStep, PTL DEF TSpec
-----------------------------------------------------------------------------
(* The replay, turn by turn *)

Traded == {ReplayPlaybooks[i] : i \in 1..3}
TurnsOf(history) == 3 * Most(Len(history) - MinBars, 0)
Turn(m) == [session |-> MinBars + (m - 1) \div 3, playbook |-> ReplayPlaybooks[1 + ((m - 1) % 3)]]
Start == [trades |-> <<>>, busy |-> [p \in {ReplayPlaybooks[i] : i \in 1..Len(ReplayPlaybooks)} |-> 0]]
Turns(history) ==
    [m \in 1..(Len(ReplayPlaybooks) * Most(Len(history) - MinBars, 0)) |->
        [session |-> MinBars + (m - 1) \div Len(ReplayPlaybooks),
         playbook |-> ReplayPlaybooks[1 + ((m - 1) % Len(ReplayPlaybooks))]]]

Turned(history, state, t) ==
    LET s == history[t.session].signal[t.playbook] IN
    IF t.session <= state.busy[t.playbook] \/ s = Never THEN state
    ELSE LET trade == Simulate(history, t.session, t.playbook, s) IN
         [trades |-> Append(state.trades, trade),
          busy   |-> [state.busy EXCEPT ![t.playbook] = BusyUntil(history, trade)]]

TurnsBy(F, history) ==
    F = [T \in SUBSET (DOMAIN Turns(history)) |->
            IF T = {} THEN Start ELSE Turned(history, F[T \ {Max(T)}], Turns(history)[Max(T)])]

Simulated(history) == {Simulate(history, i, p, history[i].signal[p]) : i \in Int, p \in Traded}
Busy(history) == {0} \cup {BusyUntil(history, trade) : trade \in Simulated(history)}
States(history) == [trades : Seq(Simulated(history)), busy : [Traded -> Busy(history)]]

LEMMA TurnsAreNumbered ==
    ASSUME NEW history \in Seq(Sessions)
    PROVE  /\ TurnsOf(history) \in Nat /\ IsFiniteSet(1..TurnsOf(history))
           /\ \A m \in 1..TurnsOf(history) :
                 Turn(m).session \in 1..(Len(history) - 1) /\ Turn(m).playbook \in Traded
  <1>1. Len(history) \in Nat /\ MinBars \in Nat /\ MinBars >= 1
    BY ReplayConstants
  <1>2. TurnsOf(history) \in Nat
    BY <1>1 DEF TurnsOf, Most
  <1>3. IsFiniteSet(1..TurnsOf(history))
    BY <1>2, FS_Interval
  <1>4. ASSUME NEW m \in 1..TurnsOf(history)
        PROVE  Turn(m).session \in 1..(Len(history) - 1) /\ Turn(m).playbook \in Traded
    <2>1. m \in Int /\ 1 <= m /\ m <= 3 * (Len(history) - MinBars)
      BY <1>1, <1>2 DEF TurnsOf, Most
    <2>2. (m - 1) \div 3 \in Int /\ 0 <= (m - 1) \div 3 /\ (m - 1) \div 3 < Len(history) - MinBars
      BY <1>1, <2>1
    <2>3. 1 + ((m - 1) % 3) \in 1..3
      BY <2>1
    <2>4. QED
      BY <1>1, <2>2, <2>3 DEF Turn, Traded
  <1>5. QED
    BY <1>2, <1>3, <1>4

LEMMA TurnsAreListed ==
    ASSUME NEW history
    PROVE  /\ Turns(history) = [m \in 1..TurnsOf(history) |-> Turn(m)]
           /\ Start = [trades |-> <<>>, busy |-> [p \in Traded |-> 0]]
  <1>1. Len(ReplayPlaybooks) = 3
    BY DEF ReplayPlaybooks
  <1>2. QED
    BY <1>1 DEF Turns, TurnsOf, Turn, Start, Traded

LEMMA FoldOfTurns ==
    ASSUME NEW history
    PROVE  TradesOf(history) = (CHOOSE F : TurnsBy(F, history))[DOMAIN Turns(history)].trades
  BY DEF TradesOf, FoldLeft, MapThenFoldSet, TurnsBy, Turns, Turned, Start

LEMMA TurnedState ==
    ASSUME NEW history, NEW state \in States(history), NEW t, t.session \in Int, t.playbook \in Traded
    PROVE  Turned(history, state, t) \in States(history)
  <1> DEFINE s == history[t.session].signal[t.playbook]
             trade == Simulate(history, t.session, t.playbook, s)
  <1>1. CASE t.session <= state.busy[t.playbook] \/ s = Never
    BY <1>1 DEF Turned
  <1>2. CASE ~(t.session <= state.busy[t.playbook] \/ s = Never)
    <2>1. trade \in Simulated(history)
      BY DEF Simulated
    <2> HIDE DEF trade
    <2>2. BusyUntil(history, trade) \in Busy(history)
      BY <2>1 DEF Busy
    <2>3. state.trades \in Seq(Simulated(history)) /\ state.busy \in [Traded -> Busy(history)]
      BY DEF States
    <2>4. Append(state.trades, trade) \in Seq(Simulated(history))
      BY <2>1, <2>3
    <2>5. [state.busy EXCEPT ![t.playbook] = BusyUntil(history, trade)] \in [Traded -> Busy(history)]
      BY <2>2, <2>3
    <2>6. Turned(history, state, t) =
             [trades |-> Append(state.trades, trade),
              busy   |-> [state.busy EXCEPT ![t.playbook] = BusyUntil(history, trade)]]
      BY <1>2 DEF Turned, trade
    <2>7. QED
      BY <2>4, <2>5, <2>6 DEF States
  <1>3. QED
    BY <1>1, <1>2

LEMMA LastOfSet ==
    ASSUME NEW T, IsFiniteSet(T), T # {}, T \subseteq Int
    PROVE  Max(T) \in T /\ \A x \in T : x <= Max(T)
  <1> DEFINE f == [x \in T |-> 0 - x]
  <1>1. f \in [T -> Int] /\ \A x \in T : f[x] = 0 - x
    OBVIOUS
  <1> HIDE DEF f
  <1>2. PICK m \in T : \A x \in T : f[m] <= f[x]
    BY <1>1, LeastBy
  <1>3. \A x \in T : x <= m
    BY <1>1, <1>2
  <1>4. QED
    BY <1>3 DEF Max

LEMMA FirstOfSet ==
    ASSUME NEW T, IsFiniteSet(T), T # {}, T \subseteq Int
    PROVE  Min(T) \in T /\ \A x \in T : Min(T) <= x
  <1> DEFINE f == [x \in T |-> x]
  <1>1. f \in [T -> Int] /\ \A x \in T : f[x] = x
    OBVIOUS
  <1> HIDE DEF f
  <1>2. PICK m \in T : \A x \in T : f[m] <= f[x]
    BY <1>1, LeastBy
  <1>3. \A x \in T : m <= x
    BY <1>1, <1>2
  <1>4. QED
    BY <1>3 DEF Min

(* The fold over the turns exists, is typed, and TradesOf is what it ends in. *)
LEMMA TurnsAreFolded ==
    ASSUME NEW history \in Seq(Sessions)
    PROVE  \E F : /\ TurnsBy(F, history) /\ F \in [SUBSET (1..TurnsOf(history)) -> States(history)]
                  /\ TradesOf(history) = F[1..TurnsOf(history)].trades
  <1> DEFINE N == TurnsOf(history)
             S == 1..N
             D == States(history)
             turns == Turns(history)
             ch == [T \in SUBSET S |-> Max(T)]
             op == [p \in S \X D |-> Turned(history, p[2], turns[p[1]])]
  <1>1. N \in Nat /\ IsFiniteSet(S) /\ \A m \in S : Turn(m).session \in Int /\ Turn(m).playbook \in Traded
    BY TurnsAreNumbered
  <1>0. turns = [m \in S |-> Turn(m)] /\ DOMAIN turns = S
    BY TurnsAreListed
  <1>2. Chooses(ch, S) /\ \A T \in SUBSET S : ch[T] = Max(T)
    <2>1. \A T \in SUBSET S : IsFiniteSet(T)
      BY <1>1, FS_Subset
    <2>2. S \subseteq Int
      BY <1>1
    <2>3. \A T \in SUBSET S : T # {} => Max(T) \in T
      <3> HIDE DEF S
      <3>1. QED
        BY <2>1, <2>2, LastOfSet
    <2>4. QED
      BY <2>3 DEF Chooses
  <1>3. Start \in D
    <2>1. <<>> \in Seq(Simulated(history)) /\ [p \in Traded |-> 0] \in [Traded -> Busy(history)]
      BY DEF Busy
    <2>2. Start = [trades |-> <<>>, busy |-> [p \in Traded |-> 0]]
      BY TurnsAreListed
    <2>3. QED
      BY <2>1, <2>2 DEF States
  <1>4. \A m \in S, state \in D : Turned(history, state, turns[m]) \in D
    BY <1>0, <1>1, TurnedState
  <1>5. op \in [S \X D -> D] /\ \A m \in S, state \in D : op[<<m, state>>] = Turned(history, state, turns[m])
    BY <1>4
  <1> HIDE DEF S, D, turns, ch, op
  <1>6. PICK G : FoldsOver(G, S, ch, op, Start)
    BY <1>1, <1>2, FoldExists
  <1>7. G \in [SUBSET S -> D]
    BY <1>1, <1>2, <1>3, <1>5, <1>6, FoldType
  <1>8. \A T \in SUBSET S : G[T] = IF T = {} THEN Start ELSE Turned(history, G[T \ {Max(T)}], turns[Max(T)])
    <2>1. \A T \in SUBSET S : G[T] = IF T = {} THEN Start ELSE op[<<ch[T], G[T \ {ch[T]}]>>]
      BY <1>6 DEF FoldsOver
    <2>2. QED
      BY <1>2, <1>5, <1>7, <2>1 DEF Chooses
  <1>9. TurnsBy(G, history)
    <2>1. G = [T \in SUBSET S |-> IF T = {} THEN Start ELSE Turned(history, G[T \ {Max(T)}], turns[Max(T)])]
      BY <1>7, <1>8
    <2>2. QED
      BY <1>0, <2>1 DEF TurnsBy, turns
  <1> DEFINE H == CHOOSE F : TurnsBy(F, history)
  <1>10. TurnsBy(H, history)
    BY <1>9
  <1> HIDE DEF H
  <1>11. \A T \in SUBSET S : H[T] = IF T = {} THEN Start ELSE Turned(history, H[T \ {Max(T)}], turns[Max(T)])
    BY <1>0, <1>10 DEF TurnsBy, turns
  <1>12. H[S] = G[S]
    <2> DEFINE V == {G[T] : T \in SUBSET S} \cup {H[T] : T \in SUBSET S}
               step == [p \in S \X V |-> Turned(history, p[2], turns[p[1]])]
    <2>1. \A m \in S, state \in V : step[<<m, state>>] = Turned(history, state, turns[m])
      OBVIOUS
    <2>2. \A T \in SUBSET S : G[T] \in V /\ H[T] \in V
      OBVIOUS
    <2> HIDE DEF V, step
    <2>3. \A T \in SUBSET S : T # {} => ch[T] \in S /\ ch[T] = Max(T) /\ T \ {ch[T]} \in SUBSET S
      BY <1>2 DEF Chooses
    <2>4. Computes(G, ch, step, Start, S)
      <3>1. ASSUME NEW T \in SUBSET S, T # {}
            PROVE  G[T] = step[<<ch[T], G[T \ {ch[T]}]>>]
        <4>1. G[T \ {ch[T]}] \in V /\ ch[T] \in S /\ ch[T] = Max(T)
          BY <2>2, <2>3, <3>1
        <4>2. step[<<ch[T], G[T \ {ch[T]}]>>] = Turned(history, G[T \ {ch[T]}], turns[ch[T]])
          BY <2>1, <4>1
        <4>3. G[T] = Turned(history, G[T \ {Max(T)}], turns[Max(T)])
          BY <1>8, <3>1
        <4>4. QED
          BY <4>1, <4>2, <4>3
      <3>2. G[{}] = Start
        BY <1>8
      <3>3. QED
        BY <3>1, <3>2 DEF Computes, Unrolls
    <2>5. Computes(H, ch, step, Start, S)
      <3>1. ASSUME NEW T \in SUBSET S, T # {}
            PROVE  H[T] = step[<<ch[T], H[T \ {ch[T]}]>>]
        <4>1. H[T \ {ch[T]}] \in V /\ ch[T] \in S /\ ch[T] = Max(T)
          BY <2>2, <2>3, <3>1
        <4>2. step[<<ch[T], H[T \ {ch[T]}]>>] = Turned(history, H[T \ {ch[T]}], turns[ch[T]])
          BY <2>1, <4>1
        <4>3. H[T] = Turned(history, H[T \ {Max(T)}], turns[Max(T)])
          BY <1>11, <3>1
        <4>4. QED
          BY <4>1, <4>2, <4>3
      <3>2. H[{}] = Start
        BY <1>11
      <3>3. QED
        BY <3>1, <3>2 DEF Computes, Unrolls
    <2>6. QED
      BY <1>1, <1>2, <2>4, <2>5, FoldsAgree
  <1>13. TradesOf(history) = H[S].trades
    BY <1>0, FoldOfTurns DEF H, turns
  <1>14. QED
    BY <1>7, <1>9, <1>12, <1>13 DEF S, D

Plays(st, history) ==
    /\ st \in [0..TurnsOf(history) -> States(history)] /\ st[0] = Start
    /\ \A m \in 1..TurnsOf(history) : st[m] = Turned(history, st[m - 1], Turn(m))

LEMMA TurnByTurn ==
    ASSUME NEW history \in Seq(Sessions)
    PROVE  \E st : Plays(st, history) /\ TradesOf(history) = st[TurnsOf(history)].trades
  <1> DEFINE N == TurnsOf(history)
  <1>1. N \in Nat /\ IsFiniteSet(1..N)
    BY TurnsAreNumbered
  <1>2. PICK F : /\ TurnsBy(F, history) /\ F \in [SUBSET (1..N) -> States(history)]
                 /\ TradesOf(history) = F[1..N].trades
    BY TurnsAreFolded
  <1>3. DOMAIN Turns(history) = 1..N /\ \A m \in 1..N : Turns(history)[m] = Turn(m)
    BY TurnsAreListed
  <1>4. \A T \in SUBSET (1..N) :
           F[T] = IF T = {} THEN Start ELSE Turned(history, F[T \ {Max(T)}], Turns(history)[Max(T)])
    BY <1>2, <1>3 DEF TurnsBy
  <1> HIDE DEF N
  <1> DEFINE st == [m \in 0..N |-> F[1..m]]
  <1>5. \A m \in 0..N : 1..m \in SUBSET (1..N) /\ st[m] = F[1..m]
    BY <1>1
  <1>6. st \in [0..N -> States(history)]
    BY <1>2, <1>5
  <1>7. st[0] = Start
    <2>1. 0 \in 0..N /\ 1..0 = {}
      BY <1>1
    <2>2. QED
      BY <1>4, <1>5, <2>1
  <1>8. st[N] = F[1..N]
    BY <1>1, <1>5
  <1>9. ASSUME NEW m \in 1..N PROVE st[m] = Turned(history, st[m - 1], Turn(m))
    <2> DEFINE K == 1..m
               L == 1..(m - 1)
    <2>1. m \in Int /\ m >= 1 /\ m \in 0..N /\ m - 1 \in 0..N
      BY <1>1
    <2>2. m \in K /\ K \subseteq Int /\ K \in SUBSET (1..N) /\ \A x \in K : x \in Int /\ x <= m
      BY <1>1, <2>1
    <2>3. K \ {m} = L
      BY <2>1
    <2>4. IsFiniteSet(K)
      BY <1>1, <2>2, FS_Subset
    <2> HIDE DEF K, L
    <2>5. Max(K) \in K /\ \A x \in K : x <= Max(K)
      BY <2>2, <2>4, LastOfSet
    <2>6. Max(K) = m
      <3>1. PICK x \in K : x = Max(K) /\ m <= x
        BY <2>2, <2>5
      <3>2. x \in Int /\ x <= m
        BY <2>2
      <3>3. QED
        BY <2>1, <3>1, <3>2
    <2>7. F[K] = Turned(history, F[L], Turn(m))
      BY <1>3, <1>4, <2>2, <2>3, <2>6
    <2>8. QED
      BY <1>5, <2>1, <2>7 DEF K, L
  <1> HIDE DEF st
  <1>10. Plays(st, history) /\ TradesOf(history) = st[N].trades
    BY <1>2, <1>6, <1>7, <1>8, <1>9 DEF Plays, N
  <1>11. QED
    BY <1>10 DEF N

(* What holds of a and of each number after one of which it holds.           *)
LEMMA CountUp ==
    ASSUME NEW a \in Nat, NEW b \in Nat, NEW C, a \in C,
           \A m \in a..b : m # a /\ m - 1 \in C => m \in C
    PROVE  a..b \subseteq C
  <1> DEFINE W == {m \in a..b : m \notin C}
  <1> SUFFICES ASSUME W # {} PROVE FALSE
    OBVIOUS
  <1>1. W \subseteq Nat
    OBVIOUS
  <1>2. PICK m \in W : \A n \in W : m <= n
    <2> HIDE DEF W
    <2>1. QED
      BY <1>1, LeastNumber
  <1>3. m \in a..b /\ m \notin C /\ m # a
    OBVIOUS
  <1>4. m - 1 \in a..b /\ m - 1 \notin W
    BY <1>2, <1>3
  <1>5. QED
    BY <1>3, <1>4

-----------------------------------------------------------------------------
(* One trade, and the same trade a session later *)

History(history) == history \in Seq(Sessions)

LEMMA SessionFacts ==
    ASSUME NEW history, History(history)
    PROVE  /\ Len(history) \in Nat
           /\ \A x \in 1..Len(history) :
                 /\ history[x].open \in Int /\ history[x].high \in Int /\ history[x].low \in Int
                 /\ history[x].close \in Int /\ history[x].average \in Int
                 /\ \A p \in Traded : history[x].signal[p] \in Level \cup {Never}
  <1>1. DOMAIN ReplayPlaybooks = 1..3
    BY DEF ReplayPlaybooks
  <1>2. \A b \in Sessions :
           /\ b.open \in Int /\ b.high \in Int /\ b.low \in Int /\ b.close \in Int /\ b.average \in Int
           /\ \A p \in Traded : b.signal[p] \in Level \cup {Never}
    BY <1>1, ReplayConstants DEF Traded
  <1>3. Len(history) \in Nat /\ \A x \in 1..Len(history) : history[x] \in Sessions
    BY DEF History
  <1>4. QED
    BY <1>2, <1>3

LEMMA HoldFacts ==
    ASSUME NEW p \in Traded
    PROVE  HoldLimit[p] \in Int /\ HoldLimit[p] >= 1
  <1>1. DOMAIN ReplayPlaybooks = 1..3
    BY DEF ReplayPlaybooks
  <1>2. QED
    BY <1>1, ReplayConstants DEF Traded

LEMMA FillFacts ==
    ASSUME NEW history, History(history), NEW i \in 1..Len(history), NEW s \in Level,
           FillDays(history, i, s) # {}
    PROVE  /\ Min(FillDays(history, i, s)) \in FillDays(history, i, s)
           /\ \A x \in FillDays(history, i, s) : Min(FillDays(history, i, s)) <= x
           /\ Min(FillDays(history, i, s)) \in (i + 1) .. Len(history)
           /\ FillPrice(history, i, s, Min(FillDays(history, i, s))) \in Int
  <1> DEFINE days == FillDays(history, i, s)
             j == Min(days)
             last == Least(i + MaxFill, Len(history))
  <1>1. Len(history) \in Nat /\ i \in Int /\ MaxFill \in Int
    BY SessionFacts, ReplayConstants
  <1>2. last \in Int /\ last <= Len(history)
    BY <1>1 DEF Least
  <1>3. days \subseteq (i + 1) .. last
    BY DEF FillDays
  <1>4. IsFiniteSet((i + 1) .. last)
    BY <1>1, <1>2, FS_Interval
  <1>5. IsFiniteSet(days)
    BY <1>3, <1>4, FS_Subset
  <1>6. days \subseteq Int
    BY <1>1, <1>2, <1>3
  <1> HIDE DEF days, last
  <1>7. j \in days /\ \A x \in days : j <= x
    BY <1>5, <1>6, FirstOfSet DEF days
  <1>8. j \in (i + 1) .. Len(history)
    <2>1. \A x \in days : x \in (i + 1) .. Len(history)
      BY <1>1, <1>2, <1>3
    <2>2. QED
      BY <1>7, <2>1
  <1> HIDE DEF j
  <1>9. j \in 1..Len(history)
    <2>1. j \in Int /\ i + 1 <= j /\ j <= Len(history) /\ 1 <= i
      BY <1>1, <1>8
    <2>2. QED
      BY <1>1, <2>1
  <1>10. FillPrice(history, i, s, j) \in Int
    <2>1. history[j].open \in Int /\ s.entry \in Int
      BY <1>9, SessionFacts DEF Level
    <2>2. QED
      BY <2>1 DEF FillPrice, Most, Least
  <1>11. QED
    BY <1>7, <1>8, <1>10 DEF days, j

LEMMA GainIsNumber ==
    ASSUME NEW s, NEW a \in Int, NEW b \in Int
    PROVE  Gain(s, a, b) \in Int
  BY DEF Gain


(* g is the history h a session later.                                       *)
Extends(g, h) ==
    /\ History(h) /\ History(g) /\ Len(g) = Len(h) + 1
    /\ \A x \in 1..Len(h) : g[x] = h[x]

LEMMA DaysExtend ==
    ASSUME NEW h, NEW g, Extends(g, h), NEW i \in 1..Len(h), NEW s \in Level
    PROVE  /\ FillDays(h, i, s) \subseteq 1..Len(h)
           /\ FillDays(h, i, s) = FillDays(g, i, s) \ {Len(g)}
           /\ FillDays(g, i, s) \subseteq (i + 1)..Len(g)
           /\ FillWindowOver(h, i) => FillWindowOver(g, i) /\ FillDays(g, i, s) = FillDays(h, i, s)
           /\ \A j \in 1..Len(h) : FillPrice(g, i, s, j) = FillPrice(h, i, s, j)
  <1> DEFINE L == Len(h)
             M == Len(g)
             Fills(b) == \/ s.direction = "long"  /\ b.high >= s.entry
                         \/ s.direction = "short" /\ b.low <= s.entry
             Days(N) == (i + 1) .. Least(i + MaxFill, N)
  <1>1. L \in Nat /\ i \in Int /\ MaxFill \in Int /\ M = L + 1 /\ 1 <= i /\ i <= L
    BY SessionFacts, ReplayConstants DEF Extends
  <1>2. AtOpen(g, i, s) = AtOpen(h, i, s) /\ AtOpen(h, i, s) \in BOOLEAN
    BY DEF Extends, AtOpen
  <1>3. \A j \in 1..L : g[j] = h[j]
    BY DEF Extends
  <1>4. /\ FillDays(h, i, s) = {j \in Days(L) : AtOpen(h, i, s) \/ Fills(h[j])}
        /\ FillDays(g, i, s) = {j \in Days(M) : AtOpen(g, i, s) \/ Fills(g[j])}
    <2> HIDE DEF Days
    <2>1. \A j \in Days(L) : AtOpen(h, i, s) \/ Fills(h[j]) <=>
              \/ AtOpen(h, i, s)
              \/ s.direction = "long"  /\ h[j].high >= s.entry
              \/ s.direction = "short" /\ h[j].low <= s.entry
      OBVIOUS
    <2>2. \A j \in Days(M) : AtOpen(g, i, s) \/ Fills(g[j]) <=>
              \/ AtOpen(g, i, s)
              \/ s.direction = "long"  /\ g[j].high >= s.entry
              \/ s.direction = "short" /\ g[j].low <= s.entry
      OBVIOUS
    <2> HIDE DEF Fills
    <2>3. FillDays(h, i, s) = {j \in Days(L) :
              \/ AtOpen(h, i, s)
              \/ s.direction = "long"  /\ h[j].high >= s.entry
              \/ s.direction = "short" /\ h[j].low <= s.entry}
      BY DEF FillDays, Days
    <2>4. FillDays(g, i, s) = {j \in Days(M) :
              \/ AtOpen(g, i, s)
              \/ s.direction = "long"  /\ g[j].high >= s.entry
              \/ s.direction = "short" /\ g[j].low <= s.entry}
      BY DEF FillDays, Days
    <2>5. QED
      BY <2>1, <2>2, <2>3, <2>4
  <1>5. \A j \in 1..L : FillPrice(g, i, s, j) = FillPrice(h, i, s, j)
    BY <1>2, <1>3 DEF FillPrice
  <1>6. /\ Days(L) \subseteq 1..L /\ Days(L) = Days(M) \ {M} /\ Days(M) \subseteq (i + 1)..M
        /\ i + MaxFill <= L => Days(M) = Days(L) /\ i + MaxFill <= M
    <2>1. L \in Int /\ M \in Int /\ i + MaxFill \in Int
      BY <1>1
    <2> HIDE DEF L, M
    <2>2. CASE i + MaxFill <= L
      <3>1. Least(i + MaxFill, L) = i + MaxFill /\ Least(i + MaxFill, M) = i + MaxFill /\ i + MaxFill <= M
        BY <1>1, <2>1, <2>2 DEF Least
      <3>2. QED
        BY <1>1, <2>1, <2>2, <3>1
    <2>3. CASE ~(i + MaxFill <= L)
      <3>1. Least(i + MaxFill, L) = L /\ Least(i + MaxFill, M) = M
        BY <1>1, <2>1, <2>3 DEF Least
      <3>2. QED
        BY <1>1, <2>1, <2>3, <3>1
    <2>4. QED
      BY <2>2, <2>3
  <1> HIDE DEF L, M, Fills, Days
  <1>7. M \notin 1..L
    BY <1>1
  <1>8. QED
    BY <1>2, <1>3, <1>4, <1>5, <1>6, <1>7 DEF FillWindowOver, L, M

LEMMA ExitsExtend ==
    ASSUME NEW h, NEW g, Extends(g, h), NEW j \in 1..Len(h), NEW p \in Traded, NEW s \in Level
    PROVE  /\ Exits(h, p, s, j) \subseteq 1..Len(h)
           /\ Exits(h, p, s, j) = Exits(g, p, s, j) \ {Len(g)}
           /\ Exits(g, p, s, j) \subseteq 1..Len(g)
           /\ HoldOver(h, p, j) => /\ HoldOver(g, p, j) /\ Exits(g, p, s, j) = Exits(h, p, s, j)
                                   /\ HoldDays(g, p, j) = HoldDays(h, p, j)
           /\ ~HoldOver(h, p, j) /\ HoldOver(g, p, j) => HoldDays(g, p, j) = j..Len(g)
  <1> DEFINE L == Len(h)
             M == Len(g)
             Out(b) == Stopped(b, p, s) \/ Targeted(b, s)
  <1>1. L \in Nat /\ j \in Int /\ M = L + 1 /\ 1 <= j /\ j <= L
    BY SessionFacts DEF Extends
  <1>2. HoldLimit[p] \in Int /\ HoldLimit[p] >= 1
    BY HoldFacts
  <1>3. \A x \in 1..L : g[x] = h[x]
    BY DEF Extends
  <1>4. /\ Exits(h, p, s, j) = {k \in HoldDays(h, p, j) : Out(h[k])}
        /\ Exits(g, p, s, j) = {k \in HoldDays(g, p, j) : Out(g[k])}
    BY DEF Exits
  <1>5. /\ HoldDays(h, p, j) \subseteq 1..L /\ HoldDays(h, p, j) = HoldDays(g, p, j) \ {M} /\ HoldDays(g, p, j) \subseteq 1..M
        /\ HoldOver(h, p, j) => HoldOver(g, p, j) /\ HoldDays(g, p, j) = HoldDays(h, p, j)
        /\ ~HoldOver(h, p, j) /\ HoldOver(g, p, j) => HoldDays(g, p, j) = j..M
    BY <1>1, <1>2 DEF HoldDays, Least, HoldOver
  <1> HIDE DEF L, M, Out
  <1>6. M \notin 1..L
    BY <1>1
  <1>7. QED
    BY <1>3, <1>4, <1>5, <1>6 DEF L, M

LEMMA LastOfRange ==
    ASSUME NEW j \in Int, NEW n \in Int, j <= n
    PROVE  Max(j..n) = n
  <1>1. j..n # {} /\ j..n \subseteq Int /\ n \in j..n
    OBVIOUS
  <1>7. IsFiniteSet(j..n)
    BY FS_Interval
  <1> DEFINE K == j..n
  <1>2. \A x \in K : x <= n
    OBVIOUS
  <1> HIDE DEF K
  <1>3. Max(K) \in K /\ \A x \in K : x <= Max(K)
    BY <1>1, <1>7, LastOfSet DEF K
  <1>4. PICK x \in K : x = Max(K) /\ n <= x
    BY <1>1, <1>3 DEF K
  <1>5. x \in Int /\ x <= n
    BY <1>2, <1>4 DEF K
  <1>6. x = n
    BY <1>4, <1>5
  <1>8. QED
    BY <1>4, <1>6 DEF K

(* What a trade may become in a session.                                     *)
Settled(now, was, g, h) ==
    IF was.outcome # "unresolved" THEN now = was /\ BusyUntil(g, now) = BusyUntil(h, was)
    ELSE /\ now.signal = was.signal /\ now.playbook = was.playbook
         /\ was.fill # Never => now.fill = was.fill /\ now.risk = was.risk
         /\ BusyUntil(h, was) = Len(h)
         /\ BusyUntil(g, now) \in Int /\ BusyUntil(g, now) >= Len(h)

LEMMA TradeFields ==
    ASSUME NEW i, NEW p, NEW fill, NEW risk, NEW gain, NEW out, NEW outcome, NEW why,
           NEW t, t = Trade(i, p, fill, risk, gain, out, outcome, why)
    PROVE  /\ t.signal = i /\ t.playbook = p /\ t.fill = fill /\ t.risk = risk
           /\ t.exit = out /\ t.outcome = outcome
  BY DEF Trade

(* Settle, with its cases named.                                             *)
SettledAs(t, history, i, p, s, j) ==
    LET fill  == FillPrice(history, i, s, j)
        risk  == Gain(s, s.stop, fill)
        exits == Exits(history, p, s, j)
        first == Min(exits)
        last  == Max(HoldDays(history, p, j))
        Closes(day, price, why) ==
            t = Trade(i, p, j, risk, Gain(s, fill, price), day, Sign(Gain(s, fill, price)), why)
    IN
    \/ risk <= 0 /\ t = Trade(i, p, j, risk, Never, j, "no_trade", "fill_beyond_stop")
    \/ ~(risk <= 0) /\ Gain(s, fill, s.target) <= 0
       /\ t = Trade(i, p, j, risk, Never, j, "no_trade", "fill_beyond_target")
    \/ ~(risk <= 0) /\ ~(Gain(s, fill, s.target) <= 0) /\ exits # {}
       /\ \/ Stopped(history[first], p, s) /\ Closes(first, history[first].close, "stop")
          \/ ~Stopped(history[first], p, s) /\ Closes(first, s.target, "target")
    \/ ~(risk <= 0) /\ ~(Gain(s, fill, s.target) <= 0) /\ exits = {}
       /\ HoldOver(history, p, j) /\ Closes(last, history[last].close, "timeout")
    \/ ~(risk <= 0) /\ ~(Gain(s, fill, s.target) <= 0) /\ exits = {}
       /\ ~HoldOver(history, p, j) /\ t = Trade(i, p, j, risk, Never, Never, "unresolved", Never)

LEMMA SettleCases ==
    ASSUME NEW history, NEW i, NEW p, NEW s, NEW j
    PROVE  SettledAs(Settle(history, i, p, s, j), history, i, p, s, j)
  BY DEF SettledAs, Settle

LEMMA Signs ==
    ASSUME NEW gain
    PROVE  Sign(gain) # "unresolved"
  BY DEF Sign

LEMMA ExitFacts ==
    ASSUME NEW g, History(g), NEW p, NEW s, NEW j, Exits(g, p, s, j) \subseteq 1..Len(g), Exits(g, p, s, j) # {}
    PROVE  /\ Min(Exits(g, p, s, j)) \in Exits(g, p, s, j)
           /\ Min(Exits(g, p, s, j)) \in Int
  <1>1. Len(g) \in Nat
    BY SessionFacts
  <1>2. IsFiniteSet(1..Len(g))
    BY <1>1, FS_Interval
  <1>3. IsFiniteSet(Exits(g, p, s, j))
    BY <1>2, FS_Subset
  <1>4. Exits(g, p, s, j) \subseteq Int
    OBVIOUS
  <1>5. Min(Exits(g, p, s, j)) \in Exits(g, p, s, j)
    BY <1>3, <1>4, FirstOfSet
  <1>6. QED
    BY <1>4, <1>5

LEMMA FirstIsKept ==
    ASSUME NEW S, NEW T, NEW n \in Nat, NEW m, m = n + 1, S \subseteq 1..n, S = T \ {m}, T \subseteq 1..m, S # {}
    PROVE  T # {} /\ Min(T) = Min(S)
  <1>1. m \in Int
    OBVIOUS
  <1>2. IsFiniteSet(1..n) /\ IsFiniteSet(1..m)
    BY <1>1, FS_Interval
  <1>3. IsFiniteSet(S) /\ IsFiniteSet(T)
    BY <1>2, FS_Subset
  <1>4. S \subseteq Int /\ T \subseteq Int /\ T # {}
    BY <1>1
  <1>5. Min(S) \in S /\ \A x \in S : Min(S) <= x
    BY <1>3, <1>4, FirstOfSet
  <1>6. Min(T) \in T /\ \A x \in T : Min(T) <= x
    BY <1>3, <1>4, FirstOfSet
  <1>7. PICK x \in S : x = Min(S)
    BY <1>5
  <1>8. PICK y \in T : y = Min(T)
    BY <1>6
  <1>9. x \in Int /\ y \in Int /\ x <= n /\ y <= x
    BY <1>4, <1>6, <1>7, <1>8
  <1>10. y \in S
    BY <1>8, <1>9
  <1>11. x <= y
    BY <1>5, <1>7, <1>10
  <1>12. QED
    BY <1>4, <1>7, <1>8, <1>9, <1>11

LEMMA BusyOfSettled ==
    ASSUME NEW g, NEW h, NEW t, t.outcome # "unresolved"
    PROVE  Settled(t, t, g, h)
  BY DEF Settled, BusyUntil

LEMMA BusyOfUnsettled ==
    ASSUME NEW h, NEW t, t.outcome = "unresolved", t.exit = Never
    PROVE  BusyUntil(h, t) = Len(h)
  BY DEF BusyUntil

LEMMA BusyOfExit ==
    ASSUME NEW h, NEW t, t.exit \in Int
    PROVE  BusyUntil(h, t) = t.exit
  <1>1. t.exit # Never
    BY ReplayConstants
  <1>2. QED
    BY <1>1 DEF BusyUntil

LEMMA SettleExtends ==
    ASSUME NEW h, NEW g, Extends(g, h), NEW i \in 1..Len(h), NEW p \in Traded, NEW s \in Level,
           NEW j \in 1..Len(h)
    PROVE  Settled(Settle(g, i, p, s, j), Settle(h, i, p, s, j), g, h)
  <1> DEFINE now == Settle(g, i, p, s, j)
             was == Settle(h, i, p, s, j)
             fill == FillPrice(h, i, s, j)
             risk == Gain(s, s.stop, fill)
             eh == Exits(h, p, s, j)
             eg == Exits(g, p, s, j)
             Waits(t) == t = Trade(i, p, j, risk, Never, Never, "unresolved", Never)
             Closes(t, history, day, price, why) ==
                 t = Trade(i, p, j, risk, Gain(s, fill, price), day, Sign(Gain(s, fill, price)), why)
  <1>1. FillPrice(g, i, s, j) = fill
    BY DaysExtend
  <1>2. /\ eh \subseteq 1..Len(h) /\ eh = eg \ {Len(g)} /\ eg \subseteq 1..Len(g)
        /\ HoldOver(h, p, j) => HoldOver(g, p, j) /\ eg = eh /\ HoldDays(g, p, j) = HoldDays(h, p, j)
        /\ ~HoldOver(h, p, j) /\ HoldOver(g, p, j) => HoldDays(g, p, j) = j..Len(g)
    BY ExitsExtend
  <1>3. Len(h) \in Nat /\ Len(g) = Len(h) + 1 /\ History(g) /\ History(h) /\ \A x \in 1..Len(h) : g[x] = h[x]
    BY SessionFacts DEF Extends
  <1>4. SettledAs(now, g, i, p, s, j) /\ SettledAs(was, h, i, p, s, j)
    BY SettleCases
  <1>5. Never \notin Int
    BY ReplayConstants
  <1>6. eh # {} => eg # {} /\ Min(eg) = Min(eh)
    BY <1>2, <1>3, FirstIsKept
  <1>7. eh # {} => Min(eh) \in 1..Len(h)
    BY <1>2, <1>3, ExitFacts
  <1>8. eg # {} => Min(eg) \in eg /\ Min(eg) \in Int
    BY <1>2, <1>3, ExitFacts
  <1> HIDE DEF now, was, fill, eh, eg
  <1>9. CASE risk <= 0
    <2>1. /\ was = Trade(i, p, j, risk, Never, j, "no_trade", "fill_beyond_stop")
          /\ now = Trade(i, p, j, risk, Never, j, "no_trade", "fill_beyond_stop")
      BY <1>1, <1>4, <1>9 DEF SettledAs, fill
    <2>2. was.outcome # "unresolved"
      BY <2>1, TradeFields
    <2>3. QED
      BY <2>1, <2>2, BusyOfSettled DEF now, was
  <1>10. CASE ~(risk <= 0) /\ Gain(s, fill, s.target) <= 0
    <2>1. /\ was = Trade(i, p, j, risk, Never, j, "no_trade", "fill_beyond_target")
          /\ now = Trade(i, p, j, risk, Never, j, "no_trade", "fill_beyond_target")
      BY <1>1, <1>4, <1>10 DEF SettledAs, fill
    <2>2. was.outcome # "unresolved"
      BY <2>1, TradeFields
    <2>3. QED
      BY <2>1, <2>2, BusyOfSettled DEF now, was
  <1>11. CASE ~(risk <= 0) /\ ~(Gain(s, fill, s.target) <= 0) /\ eh # {}
    <2> DEFINE k == Min(eh)
    <2>1. k \in 1..Len(h) /\ Min(eg) = k /\ eg # {} /\ g[k] = h[k]
      BY <1>3, <1>6, <1>7, <1>11
    <2> HIDE DEF k
    <2>2. /\ Stopped(h[k], p, s) => Closes(was, h, k, h[k].close, "stop")
          /\ ~Stopped(h[k], p, s) => Closes(was, h, k, s.target, "target")
      BY <1>4, <1>11 DEF SettledAs, fill, eh, k
    <2>3. /\ Stopped(g[k], p, s) => Closes(now, g, k, g[k].close, "stop")
          /\ ~Stopped(g[k], p, s) => Closes(now, g, k, s.target, "target")
      BY <1>1, <1>4, <1>11, <2>1 DEF SettledAs, eg
    <2>4. now = was
      BY <2>1, <2>2, <2>3
    <2>5. was.outcome # "unresolved"
      <3>1. \A price, why : Closes(was, h, k, price, why) => was.outcome # "unresolved"
        BY TradeFields, Signs
      <3> HIDE DEF Closes
      <3>2. QED
        BY <2>2, <3>1
    <2>6. QED
      BY <2>4, <2>5, BusyOfSettled DEF now, was
  <1>12. CASE ~(risk <= 0) /\ ~(Gain(s, fill, s.target) <= 0) /\ eh = {} /\ HoldOver(h, p, j)
    <2> DEFINE k == Max(HoldDays(h, p, j))
    <2>1. eg = {} /\ HoldOver(g, p, j) /\ Max(HoldDays(g, p, j)) = k
      BY <1>2, <1>12
    <2>2. k \in 1..Len(h)
      <3>1. HoldDays(h, p, j) = j .. (j - 1 + HoldLimit[p]) /\ j \in Int /\ j - 1 + HoldLimit[p] \in Int
            /\ j <= j - 1 + HoldLimit[p] /\ j - 1 + HoldLimit[p] <= Len(h) /\ 1 <= j
        BY <1>3, <1>12, HoldFacts DEF HoldDays, Least, HoldOver
      <3>2. k = j - 1 + HoldLimit[p]
        BY <3>1, LastOfRange
      <3> HIDE DEF k
      <3>3. QED
        BY <1>3, <3>1, <3>2
    <2> HIDE DEF k
    <2>3. Closes(was, h, k, h[k].close, "timeout")
      BY <1>4, <1>12 DEF SettledAs, fill, eh, k
    <2>4. Closes(now, g, k, g[k].close, "timeout")
      BY <1>1, <1>4, <1>12, <2>1 DEF SettledAs, eg
    <2>5. now = was
      BY <1>3, <2>2, <2>3, <2>4
    <2>6. was.outcome # "unresolved"
      BY <2>3, TradeFields, Signs
    <2>7. QED
      BY <2>5, <2>6, BusyOfSettled DEF now, was
  <1>13. CASE ~(risk <= 0) /\ ~(Gain(s, fill, s.target) <= 0) /\ eh = {} /\ ~HoldOver(h, p, j)
    <2>1. Waits(was)
      BY <1>4, <1>13 DEF SettledAs, fill, eh
    <2>2. /\ was.outcome = "unresolved" /\ was.exit = Never /\ was.signal = i /\ was.playbook = p
          /\ was.fill = j /\ was.risk = risk
      BY <2>1, TradeFields
    <2>3. BusyUntil(h, was) = Len(h)
      BY <2>2, BusyOfUnsettled
    <2>4. \/ Waits(now)
          \/ \E price, why : Closes(now, g, Len(g), price, why)
      <3>1. CASE eg # {}
        <4>1. Min(eg) = Len(g)
          BY <1>2, <1>8, <1>13, <3>1
        <4>2. \E price, why : Closes(now, g, Min(eg), price, why)
          BY <1>1, <1>4, <1>13, <3>1 DEF SettledAs, eg
        <4>3. QED
          BY <4>1, <4>2
      <3>2. CASE eg = {} /\ HoldOver(g, p, j)
        <4>1. HoldDays(g, p, j) = j..Len(g) /\ j \in Int /\ Len(g) \in Int /\ j <= Len(g)
          BY <1>2, <1>3, <1>13, <3>2
        <4>2. Max(HoldDays(g, p, j)) = Len(g)
          BY <4>1, LastOfRange
        <4>3. \E price, why : Closes(now, g, Max(HoldDays(g, p, j)), price, why)
          BY <1>1, <1>4, <1>13, <3>2 DEF SettledAs, eg
        <4>4. QED
          BY <4>2, <4>3
      <3>3. CASE eg = {} /\ ~HoldOver(g, p, j)
        BY <1>1, <1>4, <1>13, <3>3 DEF SettledAs, eg
      <3>4. QED
        BY <3>1, <3>2, <3>3
    <2>5. /\ now.signal = i /\ now.playbook = p /\ now.fill = j /\ now.risk = risk
          /\ BusyUntil(g, now) = Len(g)
      <3>1. CASE Waits(now)
        <4>1. now.signal = i /\ now.playbook = p /\ now.fill = j /\ now.risk = risk /\ now.outcome = "unresolved" /\ now.exit = Never
          BY <3>1, TradeFields
        <4>2. QED
          BY <4>1, BusyOfUnsettled
      <3>2. CASE \E price, why : Closes(now, g, Len(g), price, why)
        <4>1. PICK price, why : Closes(now, g, Len(g), price, why)
          BY <3>2
        <4>2. now.signal = i /\ now.playbook = p /\ now.fill = j /\ now.risk = risk /\ now.exit = Len(g)
          BY <4>1, TradeFields
        <4>3. now.exit \in Int
          BY <1>3, <4>2
        <4>4. QED
          BY <4>2, <4>3, BusyOfExit
      <3>3. QED
        BY <2>4, <3>1, <3>2
    <2>6. BusyUntil(g, now) \in Int /\ BusyUntil(g, now) >= Len(h)
      BY <1>3, <2>5
    <2>7. QED
      BY <2>2, <2>3, <2>5, <2>6 DEF Settled, now, was
  <1>14. QED
    BY <1>9, <1>10, <1>11, <1>12, <1>13

LEMMA SettleBusy ==
    ASSUME NEW g, History(g), NEW i, NEW p \in Traded, NEW s, NEW j \in 1..Len(g)
    PROVE  LET t == Settle(g, i, p, s, j) IN
           /\ t.signal = i /\ t.playbook = p
           /\ BusyUntil(g, t) \in Int /\ BusyUntil(g, t) >= j
  <1> DEFINE t == Settle(g, i, p, s, j)
             exits == Exits(g, p, s, j)
             Exit(x) == \E risk, gain, outcome, why : t = Trade(i, p, j, risk, gain, x, outcome, why)
  <1>1. Len(g) \in Nat /\ j \in Int /\ j <= Len(g) /\ 1 <= j
    BY SessionFacts
  <1>2. HoldLimit[p] \in Int /\ HoldLimit[p] >= 1
    BY HoldFacts
  <1> DEFINE last == Least(j - 1 + HoldLimit[p], Len(g))
  <1>3. last \in Int /\ j <= last /\ last <= Len(g)
    BY <1>1, <1>2 DEF Least
  <1>4. exits \subseteq 1..Len(g) /\ \A x \in exits : x >= j
    BY <1>1, <1>3 DEF Exits, HoldDays
  <1>5. exits # {} => Min(exits) \in exits /\ Min(exits) \in Int
    BY <1>4, ExitFacts
  <1>6. Max(HoldDays(g, p, j)) = last
    <2> HIDE DEF last
    <2>1. Max(j..last) = last
      BY <1>1, <1>3, LastOfRange
    <2>2. QED
      BY <2>1 DEF HoldDays, last
  <1>7. SettledAs(t, g, i, p, s, j)
    BY SettleCases
  <1> HIDE DEF t, exits, last
  <1>8. \/ Exit(j)
        \/ exits # {} /\ Exit(Min(exits))
        \/ Exit(last)
        \/ \E risk : t = Trade(i, p, j, risk, Never, Never, "unresolved", Never)
    BY <1>6, <1>7 DEF SettledAs, exits
  <1>9. (\E x \in Int : x >= j /\ Exit(x)) \/ (\E risk : t = Trade(i, p, j, risk, Never, Never, "unresolved", Never))
    <2> HIDE DEF Exit
    <2>1. QED
      BY <1>1, <1>3, <1>4, <1>5, <1>8
  <1>10. CASE \E x \in Int : x >= j /\ Exit(x)
    <2>1. PICK x \in Int : x >= j /\ Exit(x)
      BY <1>10
    <2>2. t.signal = i /\ t.playbook = p /\ t.exit = x
      BY <2>1, TradeFields
    <2>3. QED
      BY <2>1, <2>2, BusyOfExit DEF t
  <1>11. CASE \E risk : t = Trade(i, p, j, risk, Never, Never, "unresolved", Never)
    <2>1. t.signal = i /\ t.playbook = p /\ t.outcome = "unresolved" /\ t.exit = Never
      BY <1>11, TradeFields
    <2>2. QED
      BY <1>1, <2>1, BusyOfUnsettled DEF t
  <1>12. QED
    BY <1>9, <1>10, <1>11

LEMMA SimulateExtends ==
    ASSUME NEW h, NEW g, Extends(g, h), NEW i \in 1..Len(h), NEW p \in Traded, NEW s \in Level
    PROVE  Settled(Simulate(g, i, p, s), Simulate(h, i, p, s), g, h)
  <1> DEFINE now == Simulate(g, i, p, s)
             was == Simulate(h, i, p, s)
             dh == FillDays(h, i, s)
             dg == FillDays(g, i, s)
             Unfilled(t, outcome) == t = Trade(i, p, Never, Never, Never, Never, outcome, Never)
  <1>1. /\ dh \subseteq 1..Len(h) /\ dh = dg \ {Len(g)} /\ dg \subseteq (i + 1)..Len(g)
        /\ FillWindowOver(h, i) => FillWindowOver(g, i) /\ dg = dh
    BY DaysExtend
  <1>2. Len(h) \in Nat /\ Len(g) = Len(h) + 1 /\ History(g) /\ History(h)
    BY SessionFacts DEF Extends
  <1>3. /\ dh # {} => was = Settle(h, i, p, s, Min(dh))
        /\ dh = {} => Unfilled(was, IF FillWindowOver(h, i) THEN "no_fill" ELSE "unresolved")
        /\ dg # {} => now = Settle(g, i, p, s, Min(dg))
        /\ dg = {} => Unfilled(now, IF FillWindowOver(g, i) THEN "no_fill" ELSE "unresolved")
    BY DEF Simulate
  <1>4. dg \subseteq 1..Len(g)
    BY <1>1, <1>2
  <1> HIDE DEF now, was, dh, dg
  <1>5. CASE dh # {}
    <2>1. dg # {} /\ Min(dg) = Min(dh)
      BY <1>1, <1>2, <1>4, <1>5, FirstIsKept
    <2>2. Min(dh) \in 1..Len(h)
      BY <1>1, <1>2, <1>5, FillFacts DEF dh
    <2>3. Settled(Settle(g, i, p, s, Min(dh)), Settle(h, i, p, s, Min(dh)), g, h)
      BY <2>2, SettleExtends
    <2>4. QED
      BY <1>3, <1>5, <2>1, <2>3 DEF now, was
  <1>6. CASE dh = {} /\ FillWindowOver(h, i)
    <2>1. Unfilled(was, "no_fill") /\ Unfilled(now, "no_fill")
      BY <1>1, <1>3, <1>6
    <2>2. was.outcome # "unresolved" /\ now = was
      BY <2>1, TradeFields
    <2>3. QED
      BY <2>2, BusyOfSettled DEF now, was
  <1>7. CASE dh = {} /\ ~FillWindowOver(h, i)
    <2>1. Unfilled(was, "unresolved")
      BY <1>3, <1>7
    <2>2. was.outcome = "unresolved" /\ was.exit = Never /\ was.signal = i /\ was.playbook = p /\ was.fill = Never
      BY <2>1, TradeFields
    <2>3. BusyUntil(h, was) = Len(h)
      BY <2>2, BusyOfUnsettled
    <2>4. now.signal = i /\ now.playbook = p /\ BusyUntil(g, now) \in Int /\ BusyUntil(g, now) >= Len(h)
      <3>1. CASE dg # {}
        <4>1. dg \subseteq {Len(g)} /\ dg \subseteq Int
          BY <1>1, <1>4, <1>7
        <4>2. Min(dg) = Len(g)
          <5>1. IsFiniteSet(1..Len(g))
            BY <1>2, FS_Interval
          <5>2. IsFiniteSet(dg)
            BY <1>4, <5>1, FS_Subset
          <5>3. Min(dg) \in dg
            BY <3>1, <4>1, <5>2, FirstOfSet
          <5>4. QED
            BY <4>1, <5>3
        <4>3. Len(g) \in 1..Len(g) /\ Len(g) >= Len(h)
          BY <1>2
        <4>4. now = Settle(g, i, p, s, Len(g))
          BY <1>3, <3>1, <4>2
        <4>5. /\ now.signal = i /\ now.playbook = p
              /\ BusyUntil(g, now) \in Int /\ BusyUntil(g, now) >= Len(g)
          BY <1>2, <4>3, <4>4, SettleBusy
        <4>6. QED
          BY <1>2, <4>5
      <3>2. CASE dg = {}
        <4>1. Unfilled(now, IF FillWindowOver(g, i) THEN "no_fill" ELSE "unresolved")
          BY <1>3, <3>2
        <4>2. now.signal = i /\ now.playbook = p /\ now.exit = Never
              /\ now.outcome = IF FillWindowOver(g, i) THEN "no_fill" ELSE "unresolved"
          BY <4>1, TradeFields
        <4>3. i + MaxFill \in Int /\ i + MaxFill > Len(h)
          BY <1>2, <1>7, ReplayConstants DEF FillWindowOver
        <4>4. BusyUntil(g, now) = IF now.outcome = "unresolved" THEN Len(g) ELSE i + MaxFill
          BY <4>2 DEF BusyUntil
        <4>5. QED
          BY <1>2, <4>2, <4>3, <4>4
      <3>3. QED
        BY <3>1, <3>2
    <2>5. QED
      BY <2>2, <2>3, <2>4 DEF Settled, now, was
  <1>8. QED
    BY <1>5, <1>6, <1>7

-----------------------------------------------------------------------------
(* The replay of a session later *)

Alike(x, y, h, g) ==
    /\ Len(y.trades) = Len(x.trades)
    /\ \A n \in 1..Len(x.trades) : Settled(y.trades[n], x.trades[n], g, h)
    /\ \A p \in Traded :
          \/ y.busy[p] = x.busy[p]
          \/ /\ x.busy[p] \in Int /\ x.busy[p] >= Len(h)
             /\ y.busy[p] \in Int /\ y.busy[p] >= Len(h)

LEMMA StateFacts ==
    ASSUME NEW history, NEW x \in States(history)
    PROVE  /\ x.trades \in Seq(Simulated(history)) /\ Len(x.trades) \in Nat
           /\ x.busy \in [Traded -> Busy(history)]
  BY DEF States

(* A turn before the last session leaves the two replays alike.              *)
LEMMA TurnExtends ==
    ASSUME NEW h, NEW g, Extends(g, h), NEW x \in States(h), NEW y \in States(g), Alike(x, y, h, g),
           NEW t, t.session \in 1..(Len(h) - 1), t.playbook \in Traded
    PROVE  Alike(Turned(h, x, t), Turned(g, y, t), h, g)
  <1> DEFINE i == t.session
             p == t.playbook
             s == h[i].signal[p]
             was == Simulate(h, i, p, s)
             now == Simulate(g, i, p, s)
  <1>1. Len(h) \in Nat /\ History(h) /\ i \in 1..Len(h) /\ i \in Int /\ i < Len(h) /\ p \in Traded
    <2>1. Len(h) \in Nat /\ History(h)
      BY SessionFacts DEF Extends
    <2>2. QED
      BY <2>1
  <1>2. s \in Level \cup {Never} /\ g[i] = h[i] /\ s = g[i].signal[p]
    BY <1>1, SessionFacts DEF Extends
  <1>3. /\ x.trades \in Seq(Simulated(h)) /\ Len(x.trades) \in Nat /\ x.busy \in [Traded -> Busy(h)]
        /\ y.trades \in Seq(Simulated(g)) /\ Len(y.trades) \in Nat /\ y.busy \in [Traded -> Busy(g)]
    BY StateFacts
  <1>4. (i <= y.busy[p]) = (i <= x.busy[p])
    <2>1. CASE y.busy[p] = x.busy[p]
      BY <2>1
    <2>2. CASE /\ x.busy[p] \in Int /\ x.busy[p] >= Len(h)
               /\ y.busy[p] \in Int /\ y.busy[p] >= Len(h)
      <3> DEFINE u == x.busy[p]
                 v == y.busy[p]
      <3>1. u \in Int /\ u >= Len(h) /\ v \in Int /\ v >= Len(h)
        BY <2>2
      <3> HIDE DEF u, v, i
      <3>2. i <= u /\ i <= v
        BY <1>1, <3>1
      <3>3. QED
        BY <3>2 DEF u, v
    <2>3. QED
      BY <1>1, <2>1, <2>2 DEF Alike
  <1> HIDE DEF s
  <1>5. CASE i <= x.busy[p] \/ s = Never
    <2>1. Turned(h, x, t) = x /\ Turned(g, y, t) = y
      BY <1>2, <1>4, <1>5 DEF Turned, s
    <2>2. QED
      BY <2>1
  <1>6. CASE ~(i <= x.busy[p] \/ s = Never)
    <2>1. /\ Turned(h, x, t) = [trades |-> Append(x.trades, was),
                                busy   |-> [x.busy EXCEPT ![p] = BusyUntil(h, was)]]
          /\ Turned(g, y, t) = [trades |-> Append(y.trades, now),
                                busy   |-> [y.busy EXCEPT ![p] = BusyUntil(g, now)]]
      BY <1>2, <1>4, <1>6 DEF Turned, s
    <2>2. Settled(now, was, g, h)
      BY <1>1, <1>2, <1>6, SimulateExtends
    <2>3. was \in Simulated(h) /\ now \in Simulated(g)
      BY <1>1, <1>2 DEF Simulated, s
    <2> HIDE DEF was, now, i, p
    <2> DEFINE xs == Append(x.trades, was)
               ys == Append(y.trades, now)
               xb == [x.busy EXCEPT ![p] = BusyUntil(h, was)]
               yb == [y.busy EXCEPT ![p] = BusyUntil(g, now)]
    <2>4. /\ Len(xs) = Len(x.trades) + 1 /\ Len(ys) = Len(y.trades) + 1
          /\ xs[Len(x.trades) + 1] = was /\ ys[Len(y.trades) + 1] = now
          /\ \A n \in 1..Len(x.trades) : xs[n] = x.trades[n]
          /\ \A n \in 1..Len(y.trades) : ys[n] = y.trades[n]
      <3>1. /\ Len(xs) = Len(x.trades) + 1 /\ xs[Len(x.trades) + 1] = was
            /\ \A n \in 1..Len(x.trades) : xs[n] = x.trades[n]
        BY <1>3, <2>3
      <3>2. /\ Len(ys) = Len(y.trades) + 1 /\ ys[Len(y.trades) + 1] = now
            /\ \A n \in 1..Len(y.trades) : ys[n] = y.trades[n]
        BY <1>3, <2>3
      <3>3. QED
        BY <3>1, <3>2
    <2>5. \A q \in Traded : /\ xb[q] = IF q = p THEN BusyUntil(h, was) ELSE x.busy[q]
                            /\ yb[q] = IF q = p THEN BusyUntil(g, now) ELSE y.busy[q]
      <3> DEFINE u == BusyUntil(h, was)
                 v == BusyUntil(g, now)
                 f == x.busy
                 e == y.busy
      <3>1. f \in [Traded -> Busy(h)] /\ e \in [Traded -> Busy(g)]
        BY <1>3
      <3> HIDE DEF u, v, f, e
      <3>2. \A q \in Traded : [f EXCEPT ![p] = u][q] = IF q = p THEN u ELSE f[q]
        BY <3>1
      <3>3. \A q \in Traded : [e EXCEPT ![p] = v][q] = IF q = p THEN v ELSE e[q]
        BY <3>1
      <3>4. QED
        BY <3>2, <3>3 DEF u, v, f, e
    <2> HIDE DEF xs, ys, xb, yb
    <2>6. \/ BusyUntil(g, now) = BusyUntil(h, was)
          \/ /\ BusyUntil(h, was) \in Int /\ BusyUntil(h, was) >= Len(h)
             /\ BusyUntil(g, now) \in Int /\ BusyUntil(g, now) >= Len(h)
      BY <1>1, <2>2 DEF Settled
    <2>7. Len(ys) = Len(xs)
      BY <2>4 DEF Alike
    <2>8. ASSUME NEW n \in 1..Len(xs) PROVE Settled(ys[n], xs[n], g, h)
      <3>1. n \in 1..Len(x.trades) \/ n = Len(x.trades) + 1
        BY <1>3, <2>4
      <3>2. Len(y.trades) = Len(x.trades) /\ \A m \in 1..Len(x.trades) : Settled(y.trades[m], x.trades[m], g, h)
        BY DEF Alike
      <3>3. QED
        BY <2>2, <2>4, <3>1, <3>2
    <2>9. ASSUME NEW q \in Traded
          PROVE  \/ yb[q] = xb[q]
                 \/ /\ xb[q] \in Int /\ xb[q] >= Len(h)
                    /\ yb[q] \in Int /\ yb[q] >= Len(h)
      <3>1. CASE q = p
        <4>1. xb[q] = BusyUntil(h, was) /\ yb[q] = BusyUntil(g, now)
          BY <2>5, <3>1
        <4>2. QED
          BY <2>6, <4>1
      <3>2. CASE q # p
        <4>1. xb[q] = x.busy[q] /\ yb[q] = y.busy[q]
          BY <2>5, <3>2
        <4>2. \/ y.busy[q] = x.busy[q]
              \/ /\ x.busy[q] \in Int /\ x.busy[q] >= Len(h)
                 /\ y.busy[q] \in Int /\ y.busy[q] >= Len(h)
          BY DEF Alike
        <4>3. QED
          BY <4>1, <4>2
      <3>3. QED
        BY <3>1, <3>2
    <2>10. /\ Turned(h, x, t) = [trades |-> xs, busy |-> xb]
           /\ Turned(g, y, t) = [trades |-> ys, busy |-> yb]
      BY <2>1 DEF xs, ys, xb, yb
    <2>11. Alike([trades |-> xs, busy |-> xb], [trades |-> ys, busy |-> yb], h, g)
      BY <2>7, <2>8, <2>9 DEF Alike
    <2>12. QED
      BY <2>10, <2>11
  <1>7. QED
    BY <1>5, <1>6

(* A turn takes no trade away.                                               *)
Keeps(z, y) ==
    /\ Len(z.trades) >= Len(y.trades)
    /\ \A n \in 1..Len(y.trades) : z.trades[n] = y.trades[n]

LEMMA TurnKeeps ==
    ASSUME NEW g, NEW y \in States(g), NEW z \in States(g), Keeps(z, y),
           NEW t, t.session \in Int, t.playbook \in Traded
    PROVE  Keeps(Turned(g, z, t), y)
  <1> DEFINE s == g[t.session].signal[t.playbook]
             trade == Simulate(g, t.session, t.playbook, s)
  <1>1. /\ z.trades \in Seq(Simulated(g)) /\ Len(z.trades) \in Nat /\ Len(y.trades) \in Nat
    BY StateFacts
  <1>2. CASE t.session <= z.busy[t.playbook] \/ s = Never
    BY <1>2 DEF Turned
  <1>3. CASE ~(t.session <= z.busy[t.playbook] \/ s = Never)
    <2>1. Turned(g, z, t).trades = Append(z.trades, trade)
      BY <1>3 DEF Turned
    <2>2. trade \in Simulated(g)
      BY DEF Simulated
    <2> HIDE DEF trade
    <2>3. /\ Len(Append(z.trades, trade)) = Len(z.trades) + 1
          /\ \A n \in 1..Len(z.trades) : Append(z.trades, trade)[n] = z.trades[n]
      BY <1>1, <2>2
    <2>4. \A n \in 1..Len(y.trades) : n \in 1..Len(z.trades)
      BY <1>1 DEF Keeps
    <2>5. QED
      BY <1>1, <2>1, <2>3, <2>4 DEF Keeps
  <1>4. QED
    BY <1>2, <1>3

LEMMA ReplayExtends ==
    ASSUME NEW h, NEW g, Extends(g, h)
    PROVE  /\ Len(TradesOf(h)) \in Nat /\ Len(TradesOf(g)) \in Nat
           /\ Len(TradesOf(g)) >= Len(TradesOf(h))
           /\ DOMAIN TradesOf(h) = 1..Len(TradesOf(h))
           /\ \A n \in 1..Len(TradesOf(h)) : Settled(TradesOf(g)[n], TradesOf(h)[n], g, h)
  <1> DEFINE N == TurnsOf(h)
             M == TurnsOf(g)
  <1>1. h \in Seq(Sessions) /\ g \in Seq(Sessions)
    BY DEF Extends, History
  <1>2. N \in Nat /\ \A m \in 1..N : Turn(m).session \in 1..(Len(h) - 1) /\ Turn(m).playbook \in Traded
    BY <1>1, TurnsAreNumbered
  <1>3. M \in Nat /\ \A m \in 1..M : Turn(m).session \in 1..(Len(g) - 1) /\ Turn(m).playbook \in Traded
    BY <1>1, TurnsAreNumbered
  <1>4. N <= M
    BY <1>1, ReplayConstants DEF Extends, TurnsOf, Most
  <1>5. PICK sh : Plays(sh, h) /\ TradesOf(h) = sh[N].trades
    BY <1>1, TurnByTurn
  <1>6. PICK sg : Plays(sg, g) /\ TradesOf(g) = sg[M].trades
    BY <1>1, TurnByTurn
  <1> HIDE DEF N, M
  <1>7. /\ sh \in [0..N -> States(h)] /\ sh[0] = Start
        /\ \A m \in 1..N : sh[m] = Turned(h, sh[m - 1], Turn(m))
    BY <1>5 DEF Plays, N
  <1>8. /\ sg \in [0..M -> States(g)] /\ sg[0] = Start
        /\ \A m \in 1..M : sg[m] = Turned(g, sg[m - 1], Turn(m))
    BY <1>6 DEF Plays, M
  <1>9. \A m \in 0..N : m \in 0..M
    BY <1>2, <1>3, <1>4
  <1>10. 0..N \subseteq {m \in 0..N : Alike(sh[m], sg[m], h, g)}
    <2> DEFINE C == {m \in 0..N : Alike(sh[m], sg[m], h, g)}
    <2>1. 0 \in C
      <3>1. Start.trades = <<>>
        BY TurnsAreListed
      <3>2. Alike(Start, Start, h, g)
        BY <3>1 DEF Alike
      <3>3. QED
        BY <1>2, <1>7, <1>8, <3>2
    <2>2. ASSUME NEW m \in 0..N, m # 0, m - 1 \in C PROVE m \in C
      <3>1. m \in 1..N /\ m \in 1..M /\ m - 1 \in 0..N /\ m - 1 \in 0..M
        BY <1>2, <1>3, <1>4, <2>2
      <3>2. sh[m - 1] \in States(h) /\ sg[m - 1] \in States(g) /\ Alike(sh[m - 1], sg[m - 1], h, g)
        BY <1>7, <1>8, <2>2, <3>1
      <3>3. Turn(m).session \in 1..(Len(h) - 1) /\ Turn(m).playbook \in Traded
        BY <1>2, <3>1
      <3>4. Alike(Turned(h, sh[m - 1], Turn(m)), Turned(g, sg[m - 1], Turn(m)), h, g)
        BY <3>2, <3>3, TurnExtends
      <3>5. sh[m] = Turned(h, sh[m - 1], Turn(m)) /\ sg[m] = Turned(g, sg[m - 1], Turn(m))
        BY <1>7, <1>8, <3>1
      <3>6. QED
        BY <3>4, <3>5
    <2> HIDE DEF C
    <2>3. 0..N \subseteq C
      BY <1>2, <2>1, <2>2, CountUp
    <2>4. QED
      BY <2>3 DEF C
  <1>11. N..M \subseteq {m \in N..M : Keeps(sg[m], sg[N])}
    <2> DEFINE C == {m \in N..M : Keeps(sg[m], sg[N])}
    <2>1. N \in 0..M /\ N \in N..M
      BY <1>2, <1>3, <1>4
    <2>2. sg[N] \in States(g) /\ Len(sg[N].trades) \in Nat
      BY <1>8, <2>1, StateFacts
    <2>3. N \in C
      BY <2>1, <2>2 DEF Keeps
    <2>4. ASSUME NEW m \in N..M, m # N, m - 1 \in C PROVE m \in C
      <3>1. m \in 1..M /\ m - 1 \in 0..M
        BY <1>2, <1>3, <2>4
      <3>2. sg[m - 1] \in States(g) /\ Keeps(sg[m - 1], sg[N])
        BY <1>8, <2>4, <3>1
      <3>3. Turn(m).session \in Int /\ Turn(m).playbook \in Traded
        BY <1>3, <3>1
      <3>4. Keeps(Turned(g, sg[m - 1], Turn(m)), sg[N])
        BY <2>2, <3>2, <3>3, TurnKeeps
      <3>5. QED
        BY <1>8, <3>1, <3>4
    <2> HIDE DEF C
    <2>5. N..M \subseteq C
      BY <1>2, <1>3, <2>3, <2>4, CountUp
    <2>6. QED
      BY <2>5 DEF C
  <1>12. Alike(sh[N], sg[N], h, g) /\ Keeps(sg[M], sg[N])
    <2>1. N \in 0..N /\ M \in N..M
      BY <1>2, <1>3, <1>4
    <2>2. QED
      BY <1>10, <1>11, <2>1
  <1>13. sh[N] \in States(h) /\ sg[N] \in States(g) /\ sg[M] \in States(g)
    <2>1. N \in 0..N /\ N \in 0..M /\ M \in 0..M
      BY <1>2, <1>3, <1>4
    <2>2. QED
      BY <1>7, <1>8, <2>1
  <1>14. /\ TradesOf(h) \in Seq(Simulated(h)) /\ Len(TradesOf(h)) \in Nat
         /\ TradesOf(g) \in Seq(Simulated(g)) /\ Len(TradesOf(g)) \in Nat
    BY <1>5, <1>6, <1>13, StateFacts DEF N, M
  <1>15. DOMAIN TradesOf(h) = 1..Len(TradesOf(h))
    BY <1>14
  <1>16. /\ Len(TradesOf(h)) = Len(sg[N].trades) /\ Len(TradesOf(g)) >= Len(sg[N].trades)
         /\ \A n \in 1..Len(TradesOf(h)) :
               Settled(sg[N].trades[n], TradesOf(h)[n], g, h) /\ TradesOf(g)[n] = sg[N].trades[n]
    BY <1>5, <1>6, <1>12 DEF Alike, Keeps, N, M
  <1>17. \A n \in 1..Len(TradesOf(h)) : Settled(TradesOf(g)[n], TradesOf(h)[n], g, h)
    BY <1>16
  <1>18. QED
    BY <1>14, <1>15, <1>16, <1>17

ReplayInv == bars \in Seq(Sessions) /\ outcomes = TradesOf(bars)

LEMMA ReplayStarts == ReplayInit => ReplayInv
  <1> SUFFICES ASSUME ReplayInit PROVE ReplayInv
    OBVIOUS
  <1>1. bars = <<>> /\ outcomes = <<>> /\ bars \in Seq(Sessions) /\ Len(bars) = 0
    BY DEF ReplayInit
  <1>2. TurnsOf(bars) = 0
    BY <1>1, ReplayConstants DEF TurnsOf, Most
  <1>3. PICK st : Plays(st, bars) /\ TradesOf(bars) = st[0].trades
    BY <1>1, <1>2, TurnByTurn
  <1>4. Start.trades = <<>>
    BY TurnsAreListed
  <1>5. QED
    BY <1>1, <1>3, <1>4 DEF Plays, ReplayInv

LEMMA ReplayGrows ==
    ASSUME ReplayInv, NEW b \in Sessions, NextSession(b)
    PROVE  ReplayInv' /\ Extends(bars', bars) /\ outcomes' = TradesOf(bars')
  <1>1. bars \in Seq(Sessions) /\ bars' = Append(bars, b) /\ outcomes' = TradesOf(bars')
    BY DEF ReplayInv, NextSession
  <1>2. /\ bars' \in Seq(Sessions) /\ Len(bars') = Len(bars) + 1
        /\ \A x \in 1..Len(bars) : bars'[x] = bars[x]
    BY <1>1
  <1>3. QED
    BY <1>1, <1>2 DEF ReplayInv, Extends, History

(* The replay never looks ahead: with one more session every trade that was  *)
(* settled is as it was, and one that was not keeps its signal, fill and risk. *)
THEOREM ReplayNeverLooksAhead == ReplaySpec => NoLookAhead
  <1>1. ReplayInit => ReplayInv
    BY ReplayStarts
  <1>2. ReplayInv /\ [ReplayNext]_rvars => ReplayInv'
    <2> SUFFICES ASSUME ReplayInv, [ReplayNext]_rvars PROVE ReplayInv'
      OBVIOUS
    <2>1. ASSUME NEW b \in Sessions, NextSession(b) PROVE ReplayInv'
      BY <2>1, ReplayGrows
    <2>2. CASE UNCHANGED rvars
      BY <2>2 DEF ReplayInv, rvars
    <2>3. QED
      BY <2>1, <2>2 DEF ReplayNext
  <1> DEFINE Kept == /\ Len(outcomes') >= Len(outcomes)
                     /\ \A n \in DOMAIN outcomes :
                           LET was == outcomes[n]  now == outcomes'[n] IN
                           IF was.outcome # "unresolved" THEN now = was
                           ELSE /\ now.signal = was.signal /\ now.playbook = was.playbook
                                /\ was.fill # Never => now.fill = was.fill /\ now.risk = was.risk
  <1>3. ReplayInv /\ [ReplayNext]_rvars => [Kept]_rvars
    <2> SUFFICES ASSUME ReplayInv, NEW b \in Sessions, NextSession(b) PROVE Kept
      BY DEF ReplayNext
    <2>1. Extends(bars', bars) /\ outcomes' = TradesOf(bars') /\ outcomes = TradesOf(bars)
      BY ReplayGrows DEF ReplayInv
    <2>2. /\ Len(outcomes') >= Len(outcomes) /\ DOMAIN outcomes = 1..Len(outcomes)
          /\ \A n \in 1..Len(outcomes) : Settled(outcomes'[n], outcomes[n], bars', bars)
      BY <2>1, ReplayExtends
    <2>3. QED
      BY <2>2 DEF Settled
  <1>4. QED
    BY <1>1, <1>2, <1>3, PTL DEF ReplaySpec, NoLookAhead
=============================================================================
