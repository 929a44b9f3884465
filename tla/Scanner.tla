-------------------------------- MODULE Scanner --------------------------------
(***************************************************************************)
(* scanner/scan.py: from the snapshots of the universe to the proposals of  *)
(* a cycle.  Every snapshot is gated and gives at most one idea; the ideas  *)
(* are then taken in the order of their scores, one for each bucket of      *)
(* correlated names, into the free slots.                                   *)
(*                                                                          *)
(* Symbols are numbered in the order of their names.  A snapshot has what   *)
(* its gates look at, its last session and the option chain.  The owner may  *)
(* have an idea drafted of a snapshot of the same day (manual.py).          *)
(***************************************************************************)
EXTENDS Contracts

CONSTANTS
    Snapshots,      \* symbol -> snapshots the market may present
    IndexFunds,     \* INDEX_ETFS
    Exempt,         \* NO_EARNINGS_ETFS
    Universes,      \* what config.universe may be
    Enablings,      \* what config.enabled_playbooks may be
    Opens,          \* what open_symbols may be
    Today           \* the quote day

Symbols   == DOMAIN Snapshots
Playbooks == <<"breakout_continuation", "oversold_bounce", "trend_debit_spread", "trend_directional">>

ASSUME ScannerConstants ==
    /\ Symbols \subseteq Nat /\ IsFiniteSet(Symbols) /\ Today \in Int
    /\ IndexFunds \subseteq Exempt
    /\ \A enabled \in Enablings : enabled \subseteq {Playbooks[i] : i \in DOMAIN Playbooks}
    /\ \A open \in Opens : IsFiniteSet(open)
    /\ \A s \in Symbols : \A snap \in Snapshots[s] :
          /\ snap.bars \in Session /\ snap.preferSpread \in BOOLEAN
          /\ IsFiniteSet(snap.bars.highs) /\ IsFiniteSet(snap.bars.lows)
          /\ snap.chain \subseteq OptionQuote /\ IsFiniteSet(snap.chain)

VARIABLES
    config,        \* universe, enabled playbooks, open symbols
    market,        \* symbol -> its snapshot
    scanned,       \* symbols whose snapshot was looked at
    best,          \* the best idea of each symbol that has one
    taken,         \* ideas looked at by the second loop
    buckets,       \* held_buckets
    proposals,
    drafts         \* ideas the owner had drafted

nvars == <<config, market, scanned, best, taken, buckets, proposals, drafts>>

Bucket(symbol) == IF symbol \in IndexFunds THEN 0 ELSE symbol

SlotsOf(open) == IF Cardinality(open) < MaxSlots THEN MaxSlots - Cardinality(open) ELSE 0

ScanInit ==
    /\ config \in [universe : Universes, enabled : Enablings, open : Opens]
    /\ market \in {m \in [Symbols -> UNION {Snapshots[s] : s \in Symbols}] : \A s \in Symbols : m[s] \in Snapshots[s]}
    /\ scanned = {} /\ best = {} /\ taken = {}
    /\ buckets = {Bucket(s) : s \in config.open}
    /\ proposals = {} /\ drafts = {}

-----------------------------------------------------------------------------
(* The first loop *)

(* Unknown earnings fail closed; an exemption is only for funds on the list. *)
Passes(s) ==
    LET snap == market[s] IN
    /\ s \in config.universe /\ s \notin config.open
    /\ snap.exempt => s \in Exempt /\ snap.earnings = Missing
    /\ snap.exempt \/ snap.earnings # Missing
    /\ snap.current

Attach(s, playbook, signal, structure, preferred) ==
    LET snap == market[s]
        idea == IF structure = Missing THEN Missing ELSE BuildIdea(s, playbook, signal, structure, preferred)
    IN  IF idea = Missing \/ (snap.earnings # Missing /\ snap.earnings <= structure.legs[1].expiry) THEN {} ELSE {idea}

Candidates(s) ==
    LET snap     == market[s]
        trend    == TrendSignal(snap.bars)
        bounce   == BounceSignal(snap.bars)
        breakout == BreakoutSignal(snap.bars)
        right    == IF trend.direction = "long" THEN "call" ELSE "put"
    IN
    (IF trend = Missing THEN {}
     ELSE Attach(s, "trend_directional", trend, SelectLong(snap.chain, right, Today), ~snap.preferSpread)
          \cup Attach(s, "trend_debit_spread", trend, SelectDebitSpread(snap.chain, right, Today), snap.preferSpread))
    \cup (IF bounce = Missing THEN {}
          ELSE Attach(s, "oversold_bounce", bounce, SelectLong(snap.chain, "call", Today), TRUE))
    \cup (IF breakout = Missing THEN {}
          ELSE Attach(s, "breakout_continuation", breakout, SelectDebitSpread(snap.chain, "call", Today), TRUE))

PlaybookOrder(idea) == CHOOSE i \in DOMAIN Playbooks : Playbooks[i] = idea.playbook

(* Mutant: the playbooks have a fixed precedence.                           *)
BetterPlaybook(a, b) == PlaybookOrder(a) > PlaybookOrder(b)

Better(a, b) == a.score > b.score \/ (a.score = b.score /\ PlaybookOrder(a) > PlaybookOrder(b))

BestOf(ideas) == {a \in ideas : \A b \in ideas \ {a} : Better(a, b)}

Enabled(s) == {idea \in Candidates(s) : idea.playbook \in config.enabled}

ScanSymbol(s) ==
    /\ s \notin scanned /\ \A r \in Symbols \ scanned : s <= r
    /\ scanned' = scanned \cup {s}
    /\ best' = best \cup (IF Passes(s) THEN BestOf(Enabled(s)) ELSE {})
    /\ UNCHANGED <<config, market, taken, buckets, proposals, drafts>>

-----------------------------------------------------------------------------
(* The second loop *)

Before(a, b) == a.score > b.score \/ (a.score = b.score /\ a.symbol < b.symbol)

(* Mutant: the names held are in a bucket, those proposed are not.           *)
TakeUnmarked(idea) ==
    /\ scanned = Symbols
    /\ idea \in best \ taken /\ \A other \in best \ (taken \cup {idea}) : Before(idea, other)
    /\ taken' = taken \cup {idea}
    /\ IF Bucket(idea.symbol) \in buckets \/ Cardinality(proposals) >= SlotsOf(config.open)
       THEN UNCHANGED <<buckets, proposals>>
       ELSE proposals' = proposals \cup {idea} /\ UNCHANGED buckets
    /\ UNCHANGED <<config, market, scanned, best, drafts>>

Take(idea) ==
    /\ scanned = Symbols
    /\ idea \in best \ taken /\ \A other \in best \ (taken \cup {idea}) : Before(idea, other)
    /\ taken' = taken \cup {idea}
    /\ IF Bucket(idea.symbol) \in buckets \/ Cardinality(proposals) >= SlotsOf(config.open)
       THEN UNCHANGED <<buckets, proposals>>
       ELSE /\ buckets' = buckets \cup {Bucket(idea.symbol)}
            /\ proposals' = proposals \cup {idea}
    /\ UNCHANGED <<config, market, scanned, best, drafts>>

Scanned == scanned = Symbols /\ taken = best

(* A draft has nothing to do with the scan, and is put after it.  An unknown *)
(* earnings date is refused; an exemption is a fund of the list.            *)
Draft(s, right) ==
    LET snap == market[s] IN
    /\ Scanned
    /\ snap.exempt = (s \in Exempt) /\ snap.exempt = (snap.earnings = Missing)
    /\ ManualIdea(s, snap, right, Today) # Missing
    /\ drafts' = {ManualIdea(s, snap, right, Today)}
    /\ UNCHANGED <<config, market, scanned, best, taken, buckets, proposals>>

ScanNext ==
    \/ \E s \in Symbols : ScanSymbol(s) \/ \E right \in {"call", "put"} : Draft(s, right)
    \/ \E idea \in best : Take(idea)

ScanSpec == ScanInit /\ [][ScanNext]_nvars

-----------------------------------------------------------------------------
(* Properties *)

(* Among the ideas of a scan and the names already open no two are          *)
(* correlated, and together they fit the slots (README:965-970).            *)
Uncorrelated ==
    /\ \A a, b \in proposals : Bucket(a.symbol) = Bucket(b.symbol) => a = b
    /\ \A a \in proposals, s \in config.open : Bucket(a.symbol) # Bucket(s)
    /\ Cardinality(proposals) <= SlotsOf(config.open)

(* Nothing better was left out: an enabled idea that is not proposed has a   *)
(* better one of its name, or its bucket or every slot is taken by names     *)
(* that are open or by proposals that rank before it.                       *)
ScanChoosesBest ==
    Scanned =>
        \A s \in {r \in Symbols : Passes(r)} : \A idea \in Enabled(s) \ proposals :
            LET ahead == {p \in proposals : p.score > idea.score \/ (p.score = idea.score /\ p.symbol < s)} IN
            \/ \E a \in best : a.symbol = s /\ a # idea /\ a.score >= idea.score
            \/ \E o \in config.open : Bucket(o) = Bucket(s)
            \/ \E p \in ahead : Bucket(p.symbol) = Bucket(s)
            \/ Cardinality(ahead) = SlotsOf(config.open)

(* "Emits the exact idea shape rules.evaluate() validates" (scan.py:3), with *)
(* two exceptions: a reward that the cents made smaller than the risk, by    *)
(* less than the ratio is rounded; and a level below nothing.               *)
RefusedForRoundingOnly ==
    \A idea \in best \cup drafts :
        /\ 200 * Gap(idea.target, idea.entry) >= 199 * Gap(idea.entry, idea.stop)
        /\ idea.stop > 0 /\ idea.target > 0 /\ Gap(idea.target, idea.entry) >= Gap(idea.entry, idea.stop) => ValidIdea(idea, Today)
=============================================================================
