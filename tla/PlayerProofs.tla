---------------------------- MODULE PlayerProofs ----------------------------
(***************************************************************************)
(* What a player is shown, and what a player pays.                         *)
(*                                                                         *)
(* TabIInv is an invariant of ClientGame, for any instances, any lengths   *)
(* of the lanes, any number of rounds, presses, lost connections and       *)
(* reloads, and up to the 100 bets a page remembers.  From it: a           *)
(* settlement pops up once and tells the truth, and "Bet placed" counts    *)
(* bets that exist.  ResultIInv, an invariant on top of it, says that the  *)
(* update of a cancelled round follows its result to every tab.  From it:  *)
(* a cancelled round stands beside no result but its own, and beside that  *)
(* only until the update arrives.                                          *)
(*                                                                         *)
(* IInv is an invariant of PaymentPipeline, for any sets of intents,       *)
(* transactions, requests and deliveries, and any number of faults.  From  *)
(* it: an intent is credited at most once, only for a payment made in      *)
(* time, and an event is given up only after its credit.                   *)
(*                                                                         *)
(* The two share no state; a theorem about one holds whatever the other    *)
(* does.                                                                   *)
(***************************************************************************)
EXTENDS PaymentPipeline, ClientGame, FiniteSetTheorems, SequenceTheorems,
        WellFoundedInduction, TLAPS

-----------------------------------------------------------------------------
(* The lists of events a step sends *)

\* The recursion of FlattenSeq, up to the k-th of the sequences.
Joins(g, seqs, k) == g = [i \in 1 .. k |-> IF i = 1 THEN seqs[i] ELSE g[i - 1] \o seqs[i]]
Joined(seqs, k) == CHOOSE g : Joins(g, seqs, k)

LEMMA FlattenIsJoined ==
    ASSUME NEW seqs, Len(seqs) # 0
    PROVE  FlattenSeq(seqs) = Joined(seqs, Len(seqs))[Len(seqs)]
  BY DEF FlattenSeq, Joined, Joins

\* The smallest of a set of positive numbers.
LEMMA SmallestOf ==
    ASSUME NEW T, T \subseteq Nat, T # {}
    PROVE  \E k \in T : \A j \in T : k <= j
<1> DEFINE R == OpToRel(<, Nat)
<1>1. IsWellFoundedOn(R, Nat)
  BY NatLessThanWellFounded
<1>2. \A j, k \in Nat : j < k => <<j, k>> \in R
  BY DEF OpToRel
<1> HIDE DEF R
<1>3. PICK k \in T : \A j \in T : ~ (<<j, k>> \in R)
  BY <1>1, WFMin, Zenon
<1>4. ASSUME NEW j \in T PROVE k <= j
  <2>1. j \in Nat /\ k \in Nat
    OBVIOUS
  <2>2. ~ (<<j, k>> \in R)
    BY <1>3
  <2>3. ~ (j < k)
    BY <1>2, <2>1, <2>2
  <2> QED
    BY <2>1, <2>3
<1> QED
  BY <1>4

\* The recursion has a solution: one for k - 1 sequences is extended to k.
LEMMA JoinedExists ==
    ASSUME NEW seqs, NEW n \in Nat
    PROVE  Joins(Joined(seqs, n), seqs, n)
<1> DEFINE Bad == {k \in Nat : ~ \E g : Joins(g, seqs, k)}
<1>1. Bad = {}
  <2> SUFFICES ASSUME Bad # {} PROVE FALSE
    OBVIOUS
  <2>1. PICK k \in Bad : \A j \in Bad : k <= j
    <3>1. Bad \subseteq Nat
      OBVIOUS
    <3> HIDE DEF Bad
    <3> QED
      BY <3>1, SmallestOf
  <2>2. k \in Nat /\ ~ \E g : Joins(g, seqs, k)
    BY <2>1
  <2>3. CASE k = 0
    <3> DEFINE g == [i \in 1 .. 0 |-> 0]
    <3>1. Joins(g, seqs, k)
      BY <2>3 DEF Joins
    <3> QED
      BY <2>2, <3>1
  <2>4. CASE k # 0
    <3>1. k - 1 \in Nat /\ k - 1 \notin Bad
      BY <2>1, <2>2, <2>4
    <3>2. PICK h : Joins(h, seqs, k - 1)
      BY <3>1
    <3> DEFINE g == [i \in 1 .. k |-> IF i = 1 THEN seqs[i] ELSE h[i - 1] \o seqs[i]]
    <3>3. \A i \in 1 .. k - 1 : g[i] = h[i]
      <4>1. \A i \in 1 .. k - 1 : h[i] = IF i = 1 THEN seqs[i] ELSE h[i - 1] \o seqs[i]
        BY <3>2 DEF Joins
      <4>2. \A i \in 1 .. k - 1 : i \in 1 .. k
        BY <2>2
      <4> QED
        BY <4>1, <4>2
    <3>4. \A i \in 1 .. k : i # 1 => i - 1 \in 1 .. k - 1
      BY <2>2
    <3>5. g = [i \in 1 .. k |-> IF i = 1 THEN seqs[i] ELSE g[i - 1] \o seqs[i]]
      BY <3>3, <3>4
    <3>6. Joins(g, seqs, k)
      BY <3>5 DEF Joins
    <3> QED
      BY <2>2, <3>6
  <2> QED
    BY <2>3, <2>4
<1>2. \E g : Joins(g, seqs, n)
  BY <1>1
<1> QED
  BY <1>2 DEF Joined

\* What is flattened consists of elements of the sequences.
LEMMA FlattenType ==
    ASSUME NEW T, NEW seqs, NEW n \in Nat, seqs \in [1 .. n -> Seq(T)]
    PROVE  FlattenSeq(seqs) \in Seq(T)
<1>1. seqs \in Seq(Seq(T)) /\ Len(seqs) = n
  OBVIOUS
<1>2. CASE n = 0
  <2>1. FlattenSeq(seqs) = seqs
    BY <1>1, <1>2 DEF FlattenSeq
  <2>2. seqs = <<>>
    BY <1>1, <1>2, EmptySeq
  <2> QED
    BY <2>1, <2>2, EmptySeq
<1>3. CASE n # 0
  <2> DEFINE g == Joined(seqs, n)
  <2>1. Joins(g, seqs, n)
    BY JoinedExists
  <2> HIDE DEF g
  <2> DEFINE Bad == {k \in 1 .. n : g[k] \notin Seq(T)}
  <2>2. Bad = {}
    <3> SUFFICES ASSUME Bad # {} PROVE FALSE
      OBVIOUS
    <3>1. PICK k \in Bad : \A j \in Bad : k <= j
      <4>1. Bad \subseteq Nat
        OBVIOUS
      <4> HIDE DEF Bad
      <4> QED
        BY <4>1, SmallestOf
    <3>2. k \in 1 .. n /\ seqs[k] \in Seq(T) /\ g[k] \notin Seq(T)
      BY <3>1
    <3>3. g[k] = IF k = 1 THEN seqs[k] ELSE g[k - 1] \o seqs[k]
      BY <2>1, <3>2 DEF Joins
    <3>4. k # 1
      BY <3>2, <3>3
    <3>5. g[k - 1] \in Seq(T)
      BY <3>1, <3>2, <3>4
    <3>6. g[k - 1] \o seqs[k] \in Seq(T)
      BY <3>2, <3>5, ConcatProperties
    <3> QED
      BY <3>2, <3>3, <3>4, <3>6
  <2>3. g[n] \in Seq(T)
    BY <1>3, <2>2
  <2> QED
    BY <1>1, <1>3, <2>3, FlattenIsJoined DEF g
<1> QED
  BY <1>2, <1>3

LEMMA OneSeq == ASSUME NEW T, NEW e \in T PROVE <<e>> \in Seq(T)
  OBVIOUS

LEMMA OfInterestType ==
    ASSUME NEW T, NEW es \in Seq(T)
    PROVE  OfInterest(es) \in Seq(T)
<1> DEFINE f == [k \in DOMAIN es |-> IF Topic(es[k]) \in Topics THEN <<es[k]>> ELSE <<>>]
<1>1. DOMAIN es = 1 .. Len(es) /\ Len(es) \in Nat /\ \A k \in 1 .. Len(es) : es[k] \in T
  BY LenProperties, ElementOfSeq
<1>2. \A k \in 1 .. Len(es) : <<es[k]>> \in Seq(T) /\ <<>> \in Seq(T)
  BY <1>1, OneSeq, EmptySeq
<1>3. f \in [1 .. Len(es) -> Seq(T)]
  BY <1>1, <1>2
<1>4. FlattenSeq(f) \in Seq(T)
  <2> HIDE DEF f
  <2> QED
    BY <1>1, <1>3, FlattenType
<1> QED
  BY <1>4 DEF OfInterest

-----------------------------------------------------------------------------
(* What a scenario fixes *)

LEMMA ScenarioFacts ==
    ASSUME scenario \in Scenarios
    PROVE  /\ Own \in Instances /\ Engine \in Instances
           /\ MaxRound \in Nat /\ scenario.bets \in Nat /\ Bets = 1 .. scenario.bets
           /\ Quantity \in Nat \ {0} /\ Storage \in BOOLEAN
           /\ Budget \in [Kinds -> Nat] /\ Budget["reload"] # Forever
<1>1. /\ scenario \in Scenario /\ Own \in scenario.instances /\ scenario.engine \in scenario.instances
      /\ scenario.budget["reload"] # Forever
  BY ClientGameAssumption
<1>2. /\ scenario.rounds \in Nat /\ scenario.bets \in 0 .. 100 /\ scenario.quantity \in Nat \ {0}
      /\ scenario.storage \in BOOLEAN /\ scenario.budget \in [Kinds -> Nat]
  BY <1>1 DEF Scenario
<1> QED
  BY <1>1, <1>2 DEF Instances, Engine, MaxRound, Bets, Quantity, Storage, Budget

LEMMA BetsAreFinite ==
    ASSUME scenario \in Scenarios
    PROVE  /\ IsFiniteSet(Bets) /\ \A b \in Bets : b \in Nat /\ b # 0
           /\ \A S \in SUBSET Bets : IsFiniteSet(S) /\ Cardinality(S) \in Nat
<1>1. scenario.bets \in Nat /\ Bets = 1 .. scenario.bets
  BY ScenarioFacts
<1>2. IsFiniteSet(Bets)
  BY <1>1, FS_Interval
<1>3. \A S \in SUBSET Bets : IsFiniteSet(S) /\ Cardinality(S) \in Nat
  BY <1>2, FS_Subset, FS_CardinalityType
<1>4. \A b \in Bets : b \in Nat /\ b # 0
  BY <1>1
<1> QED
  BY <1>2, <1>3, <1>4

LEMMA ScenarioStays ==
    ASSUME UNCHANGED scenario
    PROVE  /\ Instances' = Instances /\ Bets' = Bets /\ Rounds' = Rounds /\ Running' = Running
           /\ Snapshot' = Snapshot /\ Message' = Message /\ Packet' = Packet /\ Page' = Page /\ Form' = Form
           /\ MaxRound' = MaxRound /\ Quantity' = Quantity /\ Storage' = Storage /\ Budget' = Budget
           /\ Queries' = Queries
  BY DEF Instances, Bets, Rounds, Running, Snapshot, Message, Packet, Page, Form, MaxRound, Quantity,
         Storage, Budget, Queries

LEMMA CachedStays == ASSUME UNCHANGED scenario, NEW n PROVE Cached(n)' = Cached(n)
  BY ScenarioStays DEF Cached, AnswerTo

-----------------------------------------------------------------------------
(* Events that are true *)

Truths == {e \in Message : Holds(e)}
Wires  == bus \in [Instances -> Seq(Truths)] /\ lane \in [Instances -> Seq(Truths)]

LEMMA EventFields ==
    ASSUME NEW e \in Message
    PROVE  /\ e.ev \in {"sync", "round", "cancelled", "result", "placed", "settled", "wallet", "control", "ack"}
           /\ e.ev = "sync" => e \in Snapshot /\ e.r \in Running /\ e.v \in Nat /\ e.p \in BOOLEAN
           /\ e.ev \in {"round", "cancelled"} => e.r \in Rounds
           /\ e.ev = "result" => e.r \in Rounds /\ e.r.st \in Over
           /\ e.ev \in {"placed", "settled"} => e.b \in Bets /\ e.st \in BetStatus
           /\ e.ev = "wallet" => e.v \in Nat
           /\ e.ev = "control" => e.p \in BOOLEAN
           /\ e.ev = "ack" => e.ok \in BOOLEAN /\ e.b \in Bets \cup {0} /\ e.v \in Nat /\ e.n \in Nat
<1>1. CASE e \in Snapshot
  BY <1>1 DEF Snapshot
<1>2. CASE e \in [ev : {"round", "cancelled"}, r : Rounds]
  BY <1>2
<1>3. CASE e \in [ev : {"result"}, r : {r \in Rounds : r.st \in Over}]
  BY <1>3
<1>4. CASE e \in [ev : {"placed", "settled"}, b : Bets, st : BetStatus]
  BY <1>4
<1>5. CASE e \in [ev : {"wallet"}, v : Nat]
  BY <1>5
<1>6. CASE e \in [ev : {"control"}, p : BOOLEAN]
  BY <1>6
<1>7. CASE e \in [ev : {"ack"}, ok : BOOLEAN, b : Bets \cup {0}, v : Nat, n : Nat]
  BY <1>7
<1> QED
  BY <1>1, <1>2, <1>3, <1>4, <1>5, <1>6, <1>7 DEF Message

\* What a step may do to the bets and to the form so that what was said stays true.
BetsKept ==
    \A b \in Bets : /\ bet[b] # NoBet => bet'[b] # NoBet /\ bet'[b].rd = bet[b].rd
                    /\ bet[b].st \in Settled => bet'[b].st = bet[b].st
FormKept ==
    /\ form.n <= form'.n
    /\ form'.at = "wait" /\ form'.n = form.n => form.at = "wait" /\ form'.rd = form.rd

LEMMA TruthsStay ==
    ASSUME TabTypeOK, UNCHANGED scenario, BetsKept, FormKept, form' \in Form
    PROVE  Truths \subseteq Truths'
<1> SUFFICES ASSUME NEW e \in Message, Holds(e) PROVE e \in Message' /\ Holds(e)'
  BY DEF Truths
<1>1. e \in Message'
  BY ScenarioStays
<1>2. form.n \in Nat /\ form'.n \in Nat
  BY DEF TabTypeOK, Form
<1>3. ASSUME e.ev = "settled" PROVE e.st \in Settled /\ bet'[e.b].st = e.st
  BY <1>3, EventFields DEF Holds, BetsKept
<1>4. ASSUME e.ev = "ack" PROVE e.n <= form'.n
  BY <1>2, <1>4, EventFields DEF Holds, FormKept
<1>5. ASSUME e.ev = "ack", e.ok PROVE e.b \in Bets' /\ bet'[e.b] # NoBet
  BY <1>5, ScenarioStays DEF Holds, BetsKept
<1>6. ASSUME e.ev = "ack", e.ok, e.n = form'.n, form'.at = "wait" PROVE bet'[e.b].rd = form'.rd
  <2>1. e.n <= form.n /\ e.b \in Bets /\ bet[e.b] # NoBet /\ e.n \in Nat
    BY <1>6, EventFields DEF Holds
  <2>2. e.n = form.n /\ form.at = "wait" /\ form'.rd = form.rd
    BY <1>2, <1>6, <2>1 DEF FormKept
  <2> QED
    BY <1>6, <2>1, <2>2 DEF Holds, BetsKept
<1> QED
  BY <1>1, <1>3, <1>4, <1>5, <1>6 DEF Holds, NoBet

\* Events that tell of no bet are true.
LEMMA PlainEvent ==
    ASSUME NEW e \in Message, e.ev \notin {"settled", "ack"}, UNCHANGED scenario
    PROVE  e \in Truths'
  BY ScenarioStays DEF Truths, Holds

LEMMA SeqOfTruths == ASSUME NEW s \in Seq(Message), \A k \in DOMAIN s : Holds(s[k]) PROVE s \in Seq(Truths)
<1>1. DOMAIN s = 1 .. Len(s) /\ Len(s) \in Nat /\ \A k \in 1 .. Len(s) : s[k] \in Message
  BY LenProperties, ElementOfSeq
<1>2. s \in [1 .. Len(s) -> Message]
  BY LenProperties
<1>3. \A k \in 1 .. Len(s) : s[k] \in Truths
  BY <1>1 DEF Truths
<1>4. s \in [1 .. Len(s) -> Truths]
  BY <1>2, <1>3
<1> QED
  BY <1>1, <1>4, SeqDef

LEMMA WiresHold == ASSUME TabTypeOK, EventsHold PROVE Wires
<1>1. \A i \in Instances : bus[i] \in Seq(Message) /\ lane[i] \in Seq(Message)
  BY DEF TabTypeOK
<1>2. \A i \in Instances : bus[i] \in Seq(Truths) /\ lane[i] \in Seq(Truths)
  BY <1>1, SeqOfTruths DEF EventsHold
<1> QED
  BY <1>2 DEF Wires, TabTypeOK

LEMMA NextEventsHold ==
    ASSUME Wires', UNCHANGED scenario
    PROVE  EventsHold' /\ bus' \in [Instances -> Seq(Message)] /\ lane' \in [Instances -> Seq(Message)]
<1>1. Instances' = Instances /\ Message' = Message
  BY ScenarioStays
<1>2. Truths' \subseteq Message /\ \A e \in Truths' : Holds(e)'
  BY <1>1 DEF Truths
<1>3. bus' \in [Instances -> Seq(Truths')] /\ lane' \in [Instances -> Seq(Truths')]
  BY <1>1 DEF Wires
<1> DEFINE T == Truths'
<1>4. \A s \in Seq(T) : s \in Seq(Message) /\ \A k \in DOMAIN s : s[k] \in T
  <2>1. T \subseteq Message
    BY <1>2
  <2> HIDE DEF T
  <2> QED
    BY <2>1, SeqMonotonic, LenProperties, ElementOfSeq
<1>5. \A i \in Instances : bus'[i] \in Seq(T) /\ lane'[i] \in Seq(T)
  BY <1>3
<1>6. bus' \in [Instances -> Seq(Message)] /\ lane' \in [Instances -> Seq(Message)]
  <2> HIDE DEF T
  <2> QED
    BY <1>3, <1>4, <1>5
<1>7. EventsHold'
  BY <1>1, <1>2, <1>4, <1>5 DEF EventsHold
<1> QED
  BY <1>6, <1>7

LEMMA RoutedType ==
    ASSUME NEW T, lane \in [Instances -> Seq(T)], NEW i \in Instances, NEW es \in Seq(T)
    PROVE  Routed(i, es) \in [Instances -> Seq(T)]
<1>1. lane[i] \o es \in Seq(T)
  BY ConcatProperties
<1> QED
  BY <1>1 DEF Routed

LEMMA WiresWiden ==
    ASSUME Wires, NEW T, Truths \subseteq T
    PROVE  bus \in [Instances -> Seq(T)] /\ lane \in [Instances -> Seq(T)]
<1>1. \A s \in Seq(Truths) : s \in Seq(T)
  BY SeqMonotonic
<1>2. \A i \in Instances : bus[i] \in Seq(Truths) /\ lane[i] \in Seq(Truths)
  BY DEF Wires
<1> QED
  BY <1>1, <1>2 DEF Wires

LEMMA WiresFromInv ==
    ASSUME TabIInv, UNCHANGED scenario, BetsKept, FormKept, form' \in Form
    PROVE  bus \in [Instances -> Seq(Truths')] /\ lane \in [Instances -> Seq(Truths')]
<1>1. TabTypeOK /\ EventsHold
  BY DEF TabIInv
<1>2. Wires
  BY <1>1, WiresHold
<1>3. Truths \subseteq Truths'
  BY <1>1, TruthsStay
<1> QED
  BY <1>2, <1>3, WiresWiden

LEMMA FormUnchanged == ASSUME TabIInv, UNCHANGED form PROVE FormKept /\ form' \in Form
<1>1. form \in Form /\ form.n \in Nat
  BY DEF TabIInv, TabTypeOK, Form
<1> QED
  BY <1>1 DEF FormKept

\* A database change is published.
LEMMA Publishes ==
    ASSUME TabIInv, UNCHANGED <<scenario, form>>, BetsKept, NEW i \in Instances,
           NEW es \in Seq(Truths'), PublishRealtimeEvent(i, es)
    PROVE  Wires'
<1> DEFINE T == Truths'
<1>1. bus \in [Instances -> Seq(T)] /\ lane \in [Instances -> Seq(T)]
  BY FormUnchanged, WiresFromInv
<1>2. es \in Seq(T)
  OBVIOUS
<1>3. /\ lane' = Routed(i, OfInterest(es))
      /\ bus' = [j \in Instances |-> IF j = i THEN bus[j] ELSE bus[j] \o OfInterest(es)]
  BY DEF PublishRealtimeEvent
<1>4. bus' \in [Instances -> Seq(T)] /\ lane' \in [Instances -> Seq(T)]
  <2> HIDE DEF T
  <2>2. OfInterest(es) \in Seq(T)
    BY <1>2, OfInterestType
  <2>1. lane' \in [Instances -> Seq(T)]
    BY <1>1, <1>3, <2>2, RoutedType
  <2>3. \A j \in Instances : bus[j] \in Seq(T) /\ bus[j] \o OfInterest(es) \in Seq(T)
    BY <1>1, <2>2, ConcatProperties
  <2> QED
    BY <1>3, <2>1, <2>3
<1> QED
  BY <1>4, ScenarioStays DEF Wires

-----------------------------------------------------------------------------
(* Steps of the game and of the servers leave the page alone *)

BetRow == [st : {"free"} \cup BetStatus, rd : 0 .. MaxRound]
SrvState == [at : {"none", "joined", "ready"}, snap : {NoSnapshot} \cup Snapshot]

LEMMA ServerStep ==
    ASSUME TabIInv, UNCHANGED <<conn, page, stored, query, form, shows, scenario>>,
           round' \in Rounds, closing' \in Rounds, paused' \in BOOLEAN, wallet' \in Nat, bet' \in [Bets -> BetRow],
           srv' \in SrvState, ask' \in BOOLEAN, req' \in {req, Nothing},
           left' \in [Kinds -> Nat], left'["reload"] = left["reload"],
           BetsKept, Wires'
    PROVE  TabIInv'
<1>0. TabTypeOK /\ scenario \in Scenarios
  BY DEF TabIInv, TabTypeOK
<1>1. EventsHold' /\ bus' \in [Instances -> Seq(Message)] /\ lane' \in [Instances -> Seq(Message)]
  BY NextEventsHold
<1>2. \A n : Cached(n)' = Cached(n)
  BY CachedStays
<1>3. TabTypeOK'
  BY <1>0, <1>1, <1>2, ScenarioStays DEF TabTypeOK, BetRow, SrvState
<1>4. HistoryHolds'
  BY ScenarioStays DEF TabIInv, HistoryHolds, BetsKept
<1>5. PacketIsOfForm'
  BY DEF TabIInv, PacketIsOfForm
<1>6. FormHolds'
  <2>1. form.got \subseteq Bets
    BY <1>0 DEF TabTypeOK, Form
  <2> QED
    BY <2>1, ScenarioStays DEF TabIInv, FormHolds, BetsKept
<1>7. ShowsAreKnown'
  BY ScenarioStays DEF TabIInv, ShowsAreKnown, Reloads
<1>8. NoticeIsFinal'
  <2>1. page.notice.b \in Bets \cup {0}
    BY <1>0 DEF TabTypeOK, Page
  <2> QED
    BY <2>1 DEF TabIInv, NoticeIsFinal, BetsKept
<1>9. OlderResultGone'
  BY DEF TabIInv, OlderResultGone
<1> QED
  BY <1>1, <1>3, <1>4, <1>5, <1>6, <1>7, <1>8, <1>9 DEF TabIInv

LEMMA SameBets == ASSUME UNCHANGED bet PROVE BetsKept
  BY DEF BetsKept

LEMMA Types ==
    ASSUME TabIInv
    PROVE  /\ scenario \in Scenarios /\ round \in Rounds /\ closing \in Rounds /\ paused \in BOOLEAN /\ wallet \in Nat
           /\ bet \in [Bets -> BetRow] /\ srv \in SrvState /\ ask \in BOOLEAN
           /\ req \in {Nothing} \cup Packet /\ left \in [Kinds -> Nat] /\ form \in Form
           /\ page \in Page /\ stored \subseteq Bets /\ shows \in [Bets -> Nat]
           /\ conn \in [up : BOOLEAN, active : BOOLEAN]
           /\ DOMAIN query = Queries /\ \A n \in Queries : query[n] \in Cached(n)
  BY DEF TabIInv, TabTypeOK, BetRow, SrvState

LEMMA SpendType ==
    ASSUME TabIInv, NEW k \in Kinds, Spend(k)
    PROVE  left' \in [Kinds -> Nat] /\ \A x \in Kinds : x # k => left'[x] = left[x]
<1>1. left \in [Kinds -> Nat] /\ left[k] > 0
      /\ left' = [left EXCEPT ![k] = IF Budget[k] = Forever THEN left[k] ELSE left[k] - 1]
  BY DEF TabIInv, TabTypeOK, Spend
<1>2. left[k] - 1 \in Nat
  BY <1>1
<1> QED
  BY <1>1, <1>2

LEMMA RoundShape == ASSUME scenario \in Scenarios, NEW r \in Rounds
    PROVE  /\ r.id \in 0 .. MaxRound /\ MaxRound \in Nat
           /\ r.st \in Ongoing \cup Over \cup {"NONE"}
           /\ r = [id |-> r.id, st |-> r.st]
  BY ScenarioFacts DEF Rounds

LEMMA RoundIsTold ==
    ASSUME UNCHANGED scenario, NEW r \in Rounds, NEW ev \in {"round", "cancelled"}
    PROVE  <<[ev |-> ev, r |-> r]>> \in Seq(Truths')
<1> DEFINE e == [ev |-> ev, r |-> r]
<1>1. e \in Message /\ e.ev = ev
  BY DEF Message
<1> HIDE DEF e
<1>2. e \in Truths'
  BY <1>1, PlainEvent
<1> QED
  BY <1>2, OneSeq DEF e

\* A step that moves the round, and the engine's copy of it, only.
LEMMA RoundMoves ==
    ASSUME TabIInv, UNCHANGED scenario,
           UNCHANGED <<paused, wallet, bet, srv, ask, req, tab, left>>, round' \in Rounds, closing' \in Rounds,
           NEW es \in Seq(Truths'), PublishRealtimeEvent(Engine, es)
    PROVE  TabIInv'
<1>1. BetsKept
  BY SameBets
<1>2. Wires'
  BY <1>1, Types, ScenarioFacts, Publishes DEF tab
<1> QED
  BY <1>1, <1>2, Types, ServerStep DEF tab

\* The same where nothing is told.
LEMMA RoundMovesUntold ==
    ASSUME TabIInv, UNCHANGED scenario, UNCHANGED <<paused, wallet, bet, net, tab>>,
           round' \in Rounds, closing' \in Rounds,
           left' \in [Kinds -> Nat], left'["reload"] = left["reload"]
    PROVE  TabIInv'
<1>1. BetsKept
  BY SameBets
<1>2. bus \in [Instances -> Seq(Truths')] /\ lane \in [Instances -> Seq(Truths')]
  BY <1>1, FormUnchanged, WiresFromInv DEF tab
<1>3. Wires'
  BY <1>2, ScenarioStays DEF Wires, net
<1> QED
  BY <1>1, <1>3, Types, ServerStep DEF tab, net

LEMMA NoRoundIsOne == ASSUME scenario \in Scenarios PROVE NoRound \in Rounds
  BY ScenarioFacts DEF Rounds, NoRound

LEMMA CreateKeeps == ASSUME TabIInv, UNCHANGED scenario, CreateNextRound PROVE TabIInv'
<1>1. round' \in Rounds /\ closing' \in Rounds
  BY Types, RoundShape DEF CreateNextRound, Rounds, Ongoing
<1> QED
  BY <1>1, RoundIsTold, RoundMoves DEF CreateNextRound, RoundEvent

LEMMA LockKeeps == ASSUME TabIInv, UNCHANGED scenario, LockRound PROVE TabIInv'
<1>1. round' \in Rounds /\ closing' \in Rounds
  BY Types, RoundShape DEF LockRound, Rounds, Ongoing
<1> QED
  BY <1>1, RoundIsTold, RoundMoves DEF LockRound, RoundEvent

LEMMA ResolveKeeps == ASSUME TabIInv, UNCHANGED scenario, ResolveRound PROVE TabIInv'
  BY Types, RoundMovesUntold DEF ResolveRound

LEMMA AbandonKeeps == ASSUME TabIInv, UNCHANGED scenario, AbandonRound PROVE TabIInv'
<1>1. left' \in [Kinds -> Nat] /\ left'["reload"] = left["reload"]
  BY SpendType DEF AbandonRound, Kinds
<1> QED
  BY <1>1, Types, NoRoundIsOne, RoundMovesUntold DEF AbandonRound

LEMMA CompleteKeeps == ASSUME TabIInv, UNCHANGED scenario, CompleteRound PROVE TabIInv'
<1>1. round' \in Rounds /\ closing' \in Rounds
  BY Types, RoundShape DEF CompleteRound, Rounds, Ongoing, Over
<1> QED
  BY <1>1, Types, RoundMovesUntold DEF CompleteRound

LEMMA AnnounceKeeps == ASSUME TabIInv, UNCHANGED scenario, AnnounceRound PROVE TabIInv'
<1> DEFINE e == [ev |-> "result", r |-> closing]
           f == RoundEvent(closing)
<1>1. closing \in Rounds /\ closing.st \in Over /\ closing' \in Rounds /\ round' \in Rounds
  BY Types, NoRoundIsOne DEF AnnounceRound
<1>2. e \in Message /\ e.ev = "result" /\ f \in Message /\ f.ev = "round"
  BY <1>1 DEF Message, RoundEvent
<1>3. PublishRealtimeEvent(Engine, <<e, f>>)
  BY DEF AnnounceRound
<1> HIDE DEF e, f
<1>4. e \in Truths' /\ f \in Truths'
  BY <1>2, PlainEvent
<1>5. <<e, f>> \in Seq(Truths')
  <2> DEFINE T == Truths'
  <2>1. e \in T /\ f \in T
    BY <1>4
  <2> HIDE DEF T
  <2>2. <<e, f>> \in Seq(T)
    BY <2>1
  <2> QED
    BY <2>2 DEF T
<1> QED
  BY <1>1, <1>3, <1>5, RoundMoves DEF AnnounceRound

LEMMA WalletIsTold ==
    ASSUME UNCHANGED scenario, NEW v \in Nat
    PROVE  [ev |-> "wallet", v |-> v] \in Truths'
<1>1. [ev |-> "wallet", v |-> v] \in Message
  BY DEF Message
<1> QED
  BY <1>1, PlainEvent

\* A settlement that the database holds is told truly.
LEMMA OutcomeIsTold ==
    ASSUME UNCHANGED scenario, NEW b \in Bets, NEW st \in Settled, bet'[b].st = st
    PROVE  [ev |-> "settled", b |-> b, st |-> st] \in Truths'
<1> DEFINE e == [ev |-> "settled", b |-> b, st |-> st]
<1>1. e \in Message
  BY DEF Message, BetStatus
<1>2. e.ev = "settled" /\ e.b = b /\ e.st = st
  OBVIOUS
<1> HIDE DEF e
<1>3. e \in Truths'
  BY <1>1, <1>2, ScenarioStays DEF Truths, Holds
<1> QED
  BY <1>3 DEF e

LEMMA SettleKeeps ==
    ASSUME TabIInv, UNCHANGED scenario, NEW b \in Bets, NEW st \in {"WON", "LOST"}, SettleBet(b, st)
    PROVE  TabIInv'
<1>1. bet \in [Bets -> BetRow] /\ bet[b].st = "PENDING" /\ bet' = [bet EXCEPT ![b].st = st]
  BY Types DEF SettleBet, Pending
<1>2. bet'[b].st = st /\ bet'[b].rd = bet[b].rd /\ bet'[b] # NoBet /\ st \in Settled
  BY <1>1 DEF BetRow, NoBet, Settled
<1>3. \A a \in Bets : a # b => bet'[a] = bet[a]
  BY <1>1
<1>4. bet' \in [Bets -> BetRow]
  BY <1>1 DEF BetRow, BetStatus, Settled
<1>5. BetsKept
  BY <1>1, <1>2, <1>3 DEF BetsKept, Settled
<1>6. wallet' \in Nat /\ wallet + 1 \in Nat
  BY Types DEF SettleBet
<1>7. SettledEvents(b, st) \in Seq(Truths')
  <2>1. [ev |-> "settled", b |-> b, st |-> st] \in Truths' /\ [ev |-> "wallet", v |-> wallet + 1] \in Truths'
    BY <1>2, <1>6, OutcomeIsTold, WalletIsTold
  <2> DEFINE T == Truths'
             w == [ev |-> "wallet", v |-> wallet + 1]
             e == [ev |-> "settled", b |-> b, st |-> st]
  <2>2. w \in T /\ e \in T
    BY <2>1
  <2> HIDE DEF T, w, e
  <2>3. <<>> \in Seq(T) /\ <<w>> \in Seq(T) /\ <<e>> \in Seq(T)
    BY <2>2, OneSeq, EmptySeq
  <2>4. <<>> \o <<e>> \in Seq(T) /\ <<w>> \o <<e>> \in Seq(T)
    BY <2>3, ConcatProperties
  <2> QED
    BY <2>4 DEF SettledEvents, T, w, e
<1>8. Wires'
  BY <1>5, <1>7, Types, ScenarioFacts, Publishes DEF SettleBet, tab
<1> QED
  BY <1>4, <1>5, <1>6, <1>8, Types, ServerStep DEF SettleBet, tab

\* What a stopped round publishes consists of wallets and of refunds.
LEMMA RefundsType ==
    ASSUME TabIInv, NEW turn \in SetToSeqs(Pending), NEW T,
           \A v \in Nat : [ev |-> "wallet", v |-> v] \in T,
           \A b \in Pending : [ev |-> "settled", b |-> b, st |-> "CANCELLED"] \in T
    PROVE  Refunds(turn) \in Seq(T)
<1> DEFINE n == Cardinality(Pending)
           w(k) == [ev |-> "wallet", v |-> wallet + k]
           e(k) == [ev |-> "settled", b |-> turn[k], st |-> "CANCELLED"]
<1>1. n \in Nat /\ wallet \in Nat
  BY Types, BetsAreFinite DEF Pending
<1>2. \A k \in 1 .. n : turn[k] \in Pending
  BY DEF SetToSeqs
<1>3. ASSUME NEW k \in 1 .. n PROVE <<w(k), e(k)>> \in Seq(T)
  <2> DEFINE x == w(k)
             y == e(k)
  <2>1. x \in T /\ y \in T
    BY <1>1, <1>2
  <2> HIDE DEF x, y
  <2>2. <<x, y>> \in Seq(T)
    BY <2>1
  <2> QED
    BY <2>2 DEF x, y
<1> DEFINE f == [k \in 1 .. n |-> <<w(k), e(k)>>]
<1>4. f \in [1 .. n -> Seq(T)]
  <2> HIDE DEF n, w, e
  <2> QED
    BY <1>3
<1>5. FlattenSeq(f) \in Seq(T)
  <2> HIDE DEF n, f
  <2> QED
    BY <1>1, <1>4, FlattenType
<1> QED
  BY <1>5 DEF Refunds

LEMMA RefundsAreTold ==
    ASSUME TabIInv, UNCHANGED scenario, NEW turn \in SetToSeqs(Pending),
           \A b \in Pending : bet'[b].st = "CANCELLED"
    PROVE  Refunds(turn) \in Seq(Truths')
<1> DEFINE T == Truths'
<1>1. \A v \in Nat : [ev |-> "wallet", v |-> v] \in T
  BY WalletIsTold
<1>2. \A b \in Pending : [ev |-> "settled", b |-> b, st |-> "CANCELLED"] \in T
  <2>1. Pending \subseteq Bets /\ "CANCELLED" \in Settled
    BY DEF Pending, Settled
  <2> QED
    BY <2>1, OutcomeIsTold
<1> HIDE DEF T
<1>3. Refunds(turn) \in Seq(T)
  BY <1>1, <1>2, RefundsType
<1> QED
  BY <1>3 DEF T

LEMMA StopKeeps == ASSUME TabIInv, UNCHANGED scenario, ForceStop PROVE TabIInv'
<1>1. /\ bet \in [Bets -> BetRow] /\ Pending \subseteq Bets /\ \A b \in Pending : bet[b].st = "PENDING"
      /\ bet' = [b \in Bets |-> IF b \in Pending THEN [bet[b] EXCEPT !.st = "CANCELLED"] ELSE bet[b]]
  BY Types DEF ForceStop, Pending
<1>2. \A b \in Pending : bet'[b].st = "CANCELLED" /\ bet'[b].rd = bet[b].rd /\ bet'[b] # NoBet
  BY <1>1 DEF BetRow, NoBet
<1>3. \A b \in Bets : b \notin Pending => bet'[b] = bet[b]
  BY <1>1
<1>4. bet' \in [Bets -> BetRow]
  BY <1>1 DEF BetRow, BetStatus, Settled
<1>5. BetsKept
  BY <1>1, <1>2, <1>3 DEF BetsKept, Settled
<1>6. wallet' \in Nat
  BY <1>1, Types, BetsAreFinite DEF ForceStop
<1>7. round' \in Rounds
  BY Types, RoundShape DEF ForceStop, Rounds, Ongoing, Over
<1>8. left' \in [Kinds -> Nat] /\ left'["reload"] = left["reload"]
  BY SpendType DEF ForceStop, Kinds
<1>9. PICK i \in Instances, turn \in SetToSeqs(Pending) :
          PublishRealtimeEvent(i, Refunds(turn) \o <<[ev |-> "cancelled", r |-> round']>>)
  BY DEF ForceStop
<1>10. Refunds(turn) \o <<[ev |-> "cancelled", r |-> round']>> \in Seq(Truths')
  <2>1. Refunds(turn) \in Seq(Truths') /\ <<[ev |-> "cancelled", r |-> round']>> \in Seq(Truths')
    BY <1>2, <1>7, RefundsAreTold, RoundIsTold
  <2> QED
    BY <2>1, ConcatProperties
<1>11. Wires'
  BY <1>5, <1>9, <1>10, Publishes DEF ForceStop, tab
<1> QED
  BY <1>4, <1>5, <1>6, <1>7, <1>8, <1>11, Types, ServerStep DEF ForceStop, tab

LEMMA PauseKeeps == ASSUME TabIInv, UNCHANGED scenario, SetPaused PROVE TabIInv'
<1>1. paused' \in BOOLEAN
  BY DEF SetPaused
<1>2. left' \in [Kinds -> Nat] /\ left'["reload"] = left["reload"]
  BY Types, SpendType DEF SetPaused, Kinds
<1> DEFINE e == [ev |-> "control", p |-> paused']
<1>3. e \in Message /\ e.ev = "control"
  BY <1>1 DEF Message
<1>4. <<e>> \in Seq(Truths')
  BY <1>3, PlainEvent, OneSeq
<1>5. BetsKept
  BY SameBets DEF SetPaused
<1>6. Wires'
  BY <1>4, <1>5, Publishes DEF SetPaused, tab
<1> QED
  BY <1>1, <1>2, <1>5, <1>6, Types, ServerStep DEF SetPaused, tab

LEMMA SnapshotType ==
    ASSUME TabIInv
    PROVE  BuildStateSnapshot \in Snapshot /\ BuildStateSnapshot # NoSnapshot
<1>1. CurrentRound \in Running
  BY Types, RoundShape, ScenarioFacts DEF CurrentRound, Running, Rounds, NoRound, Ongoing
<1> QED
  BY <1>1, Types DEF BuildStateSnapshot, Snapshot, NoSnapshot

\* A step of the player's socket that sends nothing.
LEMMA SocketMoves ==
    ASSUME TabIInv, UNCHANGED scenario, UNCHANGED <<db, bus, lane, req, tab, left>>,
           srv' \in SrvState, ask' \in BOOLEAN
    PROVE  TabIInv'
<1>1. BetsKept
  BY SameBets DEF db
<1>2. bus \in [Instances -> Seq(Truths')] /\ lane \in [Instances -> Seq(Truths')]
  BY <1>1, FormUnchanged, WiresFromInv DEF tab
<1>3. Wires'
  BY <1>2, ScenarioStays DEF Wires
<1> QED
  BY <1>1, <1>3, Types, ServerStep DEF tab, db

LEMMA SyncKeeps == ASSUME TabIInv, UNCHANGED scenario, SyncLatestState PROVE TabIInv'
<1>1. srv' \in SrvState
  BY Types, SnapshotType DEF SyncLatestState, SrvState
<1> QED
  BY <1>1, Types, SocketMoves DEF SyncLatestState

LEMMA AskedKeeps == ASSUME TabIInv, UNCHANGED scenario, StateSync PROVE TabIInv'
<1>1. srv' \in SrvState
  BY Types, SnapshotType DEF StateSync, SrvState
<1> QED
  BY <1>1, Types, SocketMoves DEF StateSync

LEMMA EmitKeeps == ASSUME TabIInv, UNCHANGED scenario, EmitSnapshot PROVE TabIInv'
<1>1. srv.snap \in Snapshot /\ srv.snap.ev = "sync" /\ srv' \in SrvState
  BY Types DEF EmitSnapshot, SrvState, Snapshot
<1>2. srv.snap \in Message
  BY <1>1 DEF Message
<1>3. BetsKept
  BY SameBets DEF EmitSnapshot, db
<1>4. lane' = Routed(Own, OfInterest(<<srv.snap>>)) /\ bus' = bus
  BY DEF EmitSnapshot
<1> DEFINE T == Truths'
           e == srv.snap
<1>5. bus \in [Instances -> Seq(T)] /\ lane \in [Instances -> Seq(T)]
  BY <1>3, FormUnchanged, WiresFromInv DEF EmitSnapshot, tab
<1>6. <<e>> \in Seq(T)
  BY <1>1, <1>2, PlainEvent, OneSeq
<1>7. lane' \in [Instances -> Seq(T)]
  <2>1. Own \in Instances
    BY Types, ScenarioFacts
  <2> HIDE DEF T
  <2>2. OfInterest(<<e>>) \in Seq(T)
    BY <1>6, OfInterestType
  <2> QED
    BY <1>4, <1>5, <2>1, <2>2, RoutedType
<1>8. Wires'
  BY <1>4, <1>5, <1>7, ScenarioStays DEF Wires
<1> QED
  BY <1>1, <1>3, <1>8, Types, ServerStep DEF EmitSnapshot, tab, db

LEMMA RouteKeeps ==
    ASSUME TabIInv, UNCHANGED scenario, NEW j \in Instances, ProcessRealtimeEvent(j)
    PROVE  TabIInv'
<1>1. BetsKept
  BY SameBets DEF ProcessRealtimeEvent, db
<1> DEFINE T == Truths'
<1>2. bus \in [Instances -> Seq(T)] /\ lane \in [Instances -> Seq(T)]
  BY <1>1, FormUnchanged, WiresFromInv DEF ProcessRealtimeEvent, tab
<1>3. bus' \in [Instances -> Seq(T)] /\ lane' \in [Instances -> Seq(T)]
  <2> HIDE DEF T
  <2>1. bus[j] \in Seq(T) /\ bus[j] # <<>>
    BY <1>2 DEF ProcessRealtimeEvent
  <2>2. Head(bus[j]) \in T /\ Tail(bus[j]) \in Seq(T)
    BY <2>1, HeadTailProperties
  <2>3. <<Head(bus[j])>> \in Seq(T)
    BY <2>2, OneSeq
  <2>4. Routed(j, <<Head(bus[j])>>) \in [Instances -> Seq(T)]
    BY <1>2, <2>3, RoutedType
  <2> QED
    BY <1>2, <2>2, <2>4 DEF ProcessRealtimeEvent
<1>4. Wires'
  BY <1>3, ScenarioStays DEF Wires
<1> QED
  BY <1>1, <1>4, Types, ServerStep DEF ProcessRealtimeEvent, tab, db

\* The ack of a bet that the last packet placed is true.
LEMMA AckIsTold ==
    ASSUME TabIInv, UNCHANGED <<scenario, form>>, req # Nothing, NEW ok \in BOOLEAN,
           NEW b \in Bets \cup {0}, NEW v \in Nat,
           ok => b \in Bets /\ bet'[b] # NoBet /\ bet'[b].rd = req.rd
    PROVE  Ack(ok, b, v) \in Seq(Truths')
<1>1. req \in Packet /\ req.n \in Nat
  BY Types DEF Packet
<1> DEFINE e == [ev |-> "ack", ok |-> ok, b |-> b, v |-> v, n |-> req.n]
<1>2. e \in Message /\ e.ev = "ack" /\ e.ok = ok /\ e.b = b /\ e.n = req.n
  BY <1>1 DEF Message
<1>3. e.n <= form.n /\ (e.n = form.n /\ form.at = "wait" => req.rd = form.rd)
  BY <1>2 DEF TabIInv, PacketIsOfForm
<1> HIDE DEF e
<1>4. e \in Truths'
  BY <1>2, <1>3, ScenarioStays DEF Truths, Holds
<1>5. <<e>> \in Seq(Truths') /\ <<>> \in Seq(Truths')
  BY <1>4, OneSeq, EmptySeq
<1> QED
  BY <1>5 DEF Ack, e

LEMMA PlaceType ==
    ASSUME TabIInv, UNCHANGED <<scenario, form>>, req # Nothing, NEW b \in Bets, PlaceBet(b)
    PROVE  BetsKept /\ Wires' /\ bet' \in [Bets -> BetRow] /\ wallet' \in Nat
<1>1. /\ bet \in [Bets -> BetRow] /\ bet[b] = NoBet /\ wallet \in Nat /\ wallet' = wallet + 1
      /\ bet' = [bet EXCEPT ![b] = [st |-> "PENDING", rd |-> req.rd]] /\ req \in Packet
  BY Types DEF PlaceBet
<1>2. bet'[b].st = "PENDING" /\ bet'[b].rd = req.rd /\ bet'[b] # NoBet
  BY <1>1 DEF NoBet
<1>3. \A a \in Bets : a # b => bet'[a] = bet[a]
  BY <1>1
<1>4. bet' \in [Bets -> BetRow]
  BY <1>1 DEF BetRow, BetStatus, Packet
<1>5. BetsKept
  BY <1>1, <1>3 DEF BetsKept, NoBet, Settled
<1> DEFINE T == Truths'
           p == [ev |-> "placed", b |-> b, st |-> "PENDING"]
           w == [ev |-> "wallet", v |-> wallet + 1]
           a == Ack(TRUE, b, wallet + 1)
<1>6. p \in T
  BY PlainEvent DEF Message, BetStatus
<1>7. w \in T
  BY <1>1, WalletIsTold
<1>8. a \in Seq(T)
  <2> DEFINE v == wallet + 1
             ok == TRUE
  <2>1. v \in Nat /\ ok \in BOOLEAN /\ b \in Bets \cup {0}
    BY <1>1
  <2>2. ok => b \in Bets /\ bet'[b] # NoBet /\ bet'[b].rd = req.rd
    BY <1>2
  <2> HIDE DEF v, ok
  <2>3. Ack(ok, b, v) \in Seq(Truths')
    BY <2>1, <2>2, AckIsTold
  <2> QED
    BY <2>3 DEF v, ok
<1>9. bus \in [Instances -> Seq(T)] /\ lane \in [Instances -> Seq(T)]
  BY <1>5, FormUnchanged, WiresFromInv
<1>10. /\ bus' = [j \in Instances |-> IF j = Own THEN bus[j] ELSE bus[j] \o OfInterest(<<p, w>>)]
       /\ lane' = Routed(Own, OfInterest(<<p, w>> \o a))
  BY DEF PlaceBet
<1>11. bus' \in [Instances -> Seq(T)] /\ lane' \in [Instances -> Seq(T)]
  <2>0. Own \in Instances
    BY Types, ScenarioFacts
  <2> HIDE DEF T, p, w, a
  <2>1. <<p, w>> \in Seq(T)
    BY <1>6, <1>7
  <2>2. OfInterest(<<p, w>>) \in Seq(T) /\ <<p, w>> \o a \in Seq(T)
    BY <1>8, <2>1, OfInterestType, ConcatProperties
  <2>3. \A j \in Instances : bus[j] \in Seq(T) /\ bus[j] \o OfInterest(<<p, w>>) \in Seq(T)
    BY <1>9, <2>2, ConcatProperties
  <2>5. OfInterest(<<p, w>> \o a) \in Seq(T)
    BY <2>2, OfInterestType
  <2>4. Routed(Own, OfInterest(<<p, w>> \o a)) \in [Instances -> Seq(T)]
    BY <1>9, <2>0, <2>5, RoutedType
  <2> QED
    BY <1>10, <2>3, <2>4
<1>12. Wires'
  BY <1>11, ScenarioStays DEF Wires
<1> QED
  BY <1>1, <1>4, <1>5, <1>12

LEMMA RefuseType ==
    ASSUME TabIInv, UNCHANGED <<scenario, form>>, req # Nothing, Refuse
    PROVE  BetsKept /\ Wires'
<1>1. BetsKept
  BY SameBets DEF Refuse
<1> DEFINE T == Truths'
           a == Ack(FALSE, 0, 0)
<1>2. bus \in [Instances -> Seq(T)] /\ lane \in [Instances -> Seq(T)]
  BY <1>1, FormUnchanged, WiresFromInv
<1>3. a \in Seq(T)
  BY AckIsTold
<1>4. lane' \in [Instances -> Seq(T)]
  <2>1. Own \in Instances /\ lane' = Routed(Own, OfInterest(a))
    BY Types, ScenarioFacts DEF Refuse
  <2> HIDE DEF T, a
  <2>2. OfInterest(a) \in Seq(T)
    BY <1>3, OfInterestType
  <2> QED
    BY <1>2, <2>1, <2>2, RoutedType
<1>5. Wires'
  BY <1>2, <1>4, ScenarioStays DEF Wires, Refuse
<1> QED
  BY <1>1, <1>5

LEMMA PlaceKeeps == ASSUME TabIInv, UNCHANGED scenario, HandlePlaceBet PROVE TabIInv'
<1>1. /\ req # Nothing /\ req' = Nothing
      /\ UNCHANGED <<round, paused, closing, srv, ask, tab, left>>
  BY DEF HandlePlaceBet
<1>2. BetsKept /\ Wires' /\ bet' \in [Bets -> BetRow] /\ wallet' \in Nat
  <2>1. CASE req.live /\ srv.at = "joined"
    <3>1. UNCHANGED <<bet, wallet, bus, lane>>
      BY <2>1 DEF HandlePlaceBet
    <3>2. BetsKept
      BY <3>1, SameBets
    <3>3. bus \in [Instances -> Seq(Truths')] /\ lane \in [Instances -> Seq(Truths')]
      BY <1>1, <3>2, FormUnchanged, WiresFromInv DEF tab
    <3> QED
      BY <3>1, <3>2, <3>3, Types, ScenarioStays DEF Wires
  <2>2. CASE ~ (req.live /\ srv.at = "joined")
    <3>1. Refuse \/ \E b \in Bets : PlaceBet(b)
      BY <2>2 DEF HandlePlaceBet
    <3>2. CASE Refuse
      BY <1>1, <3>2, RefuseType, Types DEF Refuse, tab
    <3>3. CASE \E b \in Bets : PlaceBet(b)
      BY <1>1, <3>3, PlaceType DEF tab
    <3> QED
      BY <3>1, <3>2, <3>3
  <2> QED
    BY <2>1, <2>2
<1> QED
  BY <1>1, <1>2, Types, ServerStep DEF tab

-----------------------------------------------------------------------------
(* Steps of the browser leave the database alone *)

ConnState == [up : BOOLEAN, active : BOOLEAN]

LEMMA TabStep ==
    ASSUME TabIInv, UNCHANGED <<db, bus, scenario>>, lane' \in [Instances -> Seq(Truths')],
           srv' \in SrvState, ask' \in BOOLEAN, req' \in {Nothing} \cup Packet, conn' \in ConnState,
           page' \in Page, stored' \subseteq Bets, shows' \in [Bets -> Nat], form' \in Form,
           DOMAIN query' = Queries, \A n \in Queries : query'[n] \in Cached(n), left' \in [Kinds -> Nat],
           FormKept, HistoryHolds', PacketIsOfForm', FormHolds', ShowsAreKnown', NoticeIsFinal',
           OlderResultGone'
    PROVE  TabIInv'
<1>1. BetsKept
  BY SameBets DEF db
<1>2. bus \in [Instances -> Seq(Truths')]
  BY <1>1, WiresFromInv
<1>3. Wires'
  BY <1>2, ScenarioStays DEF Wires
<1>4. EventsHold' /\ bus' \in [Instances -> Seq(Message)] /\ lane' \in [Instances -> Seq(Message)]
  BY <1>3, NextEventsHold
<1>5. \A n : Cached(n)' = Cached(n)
  BY CachedStays
<1>6. TabTypeOK'
  BY <1>4, <1>5, Types, ScenarioStays DEF TabTypeOK, BetRow, SrvState, ConnState, db
<1> QED
  BY <1>4, <1>6 DEF TabIInv

\* Lanes that lost their contents, or kept them.
LEMMA LanesStay ==
    ASSUME TabIInv, UNCHANGED <<db, scenario>>, FormKept, form' \in Form
    PROVE  lane \in [Instances -> Seq(Truths')] /\ [i \in Instances |-> <<>>] \in [Instances -> Seq(Truths')]
<1>1. BetsKept
  BY SameBets DEF db
<1>2. <<>> \in Seq(Truths')
  BY EmptySeq
<1> QED
  BY <1>1, <1>2, WiresFromInv

LEMMA QueryNames == ASSUME scenario \in Scenarios PROVE Queries \subseteq {"round", "wallet", "bets"}
  BY ClientGameAssumption DEF Scenario, Queries

LEMMA InvalidatedType ==
    ASSUME TabIInv, UNCHANGED <<db, scenario>>, NEW names, query' = Invalidated(query, names)
    PROVE  DOMAIN query' = Queries /\ (\A n \in Queries : query'[n] \in Cached(n)) /\ HistoryHolds'
<1>1. ASSUME NEW n \in Queries
      PROVE  query'[n] \in Cached(n) /\ (query'[n].fly = Asked \/ query'[n] = query[n])
  <2>1. query[n] \in Cached(n) /\ query'[n] = IF n \in names THEN [query[n] EXCEPT !.fly = Asked] ELSE query[n]
    BY Types DEF Invalidated
  <2>2. [query[n] EXCEPT !.fly = Asked] \in Cached(n) /\ [query[n] EXCEPT !.fly = Asked].fly = Asked
    BY <2>1 DEF Cached
  <2> QED
    BY <2>1, <2>2
<1>2. HistoryHolds'
  BY <1>1, ScenarioStays DEF TabIInv, HistoryHolds, Asked, db
<1> QED
  BY <1>1, <1>2 DEF Invalidated

LEMMA QueryUnchanged ==
    ASSUME TabIInv, UNCHANGED <<db, scenario, query>>
    PROVE  DOMAIN query' = Queries /\ (\A n \in Queries : query'[n] \in Cached(n)) /\ HistoryHolds'
  BY Types, ScenarioStays DEF TabIInv, HistoryHolds, db

LEMMA EmptyCacheType ==
    ASSUME TabIInv, UNCHANGED <<db, scenario>>, query' = EmptyCache
    PROVE  DOMAIN query' = Queries /\ (\A n \in Queries : query'[n] \in Cached(n)) /\ HistoryHolds'
<1>1. \A n \in Queries : query'[n] \in Cached(n) /\ query'[n].fly.at = "asked"
  BY DEF EmptyCache, Cached, Asked
<1> QED
  BY <1>1, ScenarioStays DEF EmptyCache, HistoryHolds

-----------------------------------------------------------------------------
(* The page and the popups *)

GoodPage(p) ==
    /\ p \in Page
    /\ p.notice.b # 0 => p.notice.st \in Settled /\ p.notice.st = bet[p.notice.b].st
    /\ p.round.st = "CANCELLED" => p.last \in {0, p.round.id}

LEMMA PageIsGood == ASSUME TabIInv PROVE GoodPage(page)
  BY Types DEF TabIInv, NoticeIsFinal, OlderResultGone, GoodPage

LEMMA GoodPageKept ==
    ASSUME UNCHANGED <<db, scenario>>, GoodPage(page')
    PROVE  page' \in Page /\ NoticeIsFinal' /\ OlderResultGone'
  BY DEF GoodPage, NoticeIsFinal, OlderResultGone, db

LEMMA ReloadsType ==
    ASSUME TabIInv
    PROVE  Reloads \in Int /\ Budget["reload"] \in Nat /\ left["reload"] \in Nat
<1>1. "reload" \in Kinds
  BY DEF Kinds
<1>2. Budget \in [Kinds -> Nat] /\ left \in [Kinds -> Nat]
  BY Types, ScenarioFacts
<1>3. Budget["reload"] \in Nat /\ left["reload"] \in Nat
  BY <1>1, <1>2
<1> QED
  BY <1>3 DEF Reloads

\* Popups that no step of this kind can raise.
LEMMA ShowsUnchanged ==
    ASSUME TabIInv, UNCHANGED <<scenario, shows, stored>>, page.ids \subseteq page'.ids,
           left' \in [Kinds -> Nat], left'["reload"] = left["reload"]
    PROVE  ShowsAreKnown'
<1>1. Budget' = Budget /\ Storage' = Storage /\ Bets' = Bets
  BY ScenarioStays
<1>2. Reloads' = Reloads /\ Reloads \in Int
  BY <1>1, ReloadsType DEF Reloads
<1>3. \A b \in Bets : shows[b] \in Nat
  BY Types
<1> QED
  BY <1>1, <1>2, <1>3 DEF TabIInv, ShowsAreKnown

\* A settlement raises a popup where neither the store nor the session knew of it.
LEMMA ShownIsKnown ==
    ASSUME TabIInv, UNCHANGED <<scenario, left>>, NEW p, NEW e, page.ids \subseteq p.ids,
           page'.ids = p.ids \cup (IF Fresh(p, e) THEN {e.b} ELSE {}), shows' = Shown(p, e),
           stored \subseteq stored', Storage /\ Fresh(p, e) => e.b \notin stored /\ e.b \in stored'
    PROVE  shows' \in [Bets -> Nat] /\ ShowsAreKnown'
<1>1. Storage' = Storage /\ Bets' = Bets /\ Budget' = Budget
  BY ScenarioStays
<1>2. Reloads' = Reloads /\ Reloads \in Int
  BY <1>1, ReloadsType DEF Reloads
<1>3. shows \in [Bets -> Nat]
  BY Types
<1>4. \A b \in Bets : shows'[b] = shows[b] + IF Fresh(p, e) /\ e.b = b THEN 1 ELSE 0
  BY DEF Shown
<1>5. shows' \in [Bets -> Nat]
  BY <1>3 DEF Shown
<1>6. ASSUME NEW b \in Bets, Storage PROVE shows'[b] <= IF b \in stored' THEN 1 ELSE 0
  <2>1. shows[b] <= IF b \in stored THEN 1 ELSE 0
    BY <1>6 DEF TabIInv, ShowsAreKnown
  <2>2. CASE Fresh(p, e) /\ e.b = b
    BY <1>3, <1>4, <1>6, <2>1, <2>2
  <2>3. CASE ~ (Fresh(p, e) /\ e.b = b)
    BY <1>3, <1>4, <2>1, <2>3
  <2> QED
    BY <2>2, <2>3
<1>7. ASSUME NEW b \in Bets, ~ Storage PROVE shows'[b] <= Reloads + IF b \in page'.ids THEN 1 ELSE 0
  <2>1. shows[b] <= Reloads + IF b \in page.ids THEN 1 ELSE 0
    BY <1>7 DEF TabIInv, ShowsAreKnown
  <2>2. CASE Fresh(p, e) /\ e.b = b
    <3>1. b \notin page.ids /\ b \in page'.ids
      BY <2>2 DEF Fresh
    <3> QED
      BY <1>2, <1>3, <1>4, <2>1, <2>2, <3>1
  <2>3. CASE ~ (Fresh(p, e) /\ e.b = b)
    BY <1>2, <1>3, <1>4, <2>1, <2>3
  <2> QED
    BY <2>2, <2>3
<1>8. ShowsAreKnown'
  BY <1>1, <1>2, <1>6, <1>7 DEF ShowsAreKnown
<1> QED
  BY <1>5, <1>8

\* An event leaves a page that was in order in order.
LEMMA AppliedIsGood ==
    ASSUME TabIInv, NEW p, GoodPage(p), NEW e \in Message, Holds(e), e.ev # "ack"
    PROVE  /\ GoodPage(ApplyRealtimeEvent(p, e))
           /\ ApplyRealtimeEvent(p, e).ids = p.ids \cup (IF Fresh(p, e) THEN {e.b} ELSE {})
<1> DEFINE q == ApplyRealtimeEvent(p, e)
<1>1. p \in Page /\ p.round \in Rounds /\ p.last \in 0 .. MaxRound /\ p.ids \subseteq Bets
      /\ p.orders \in [Bets -> {"none"} \cup BetStatus]
      /\ p.notice \in [b : Bets \cup {0}, st : {"none"} \cup BetStatus]
  BY DEF GoodPage, Page
<1>2. CASE e.ev = "sync"
  <2>1. q = AfterSync(p, e)
    BY <1>2 DEF ApplyRealtimeEvent
  <2>2. e.r \in Rounds /\ e.r.st # "CANCELLED" /\ e.v \in Nat /\ e.p \in BOOLEAN
    BY <1>2, EventFields DEF Running, Ongoing
  <2>3. q = [p EXCEPT !.round = IF e.r = NoRound THEN p.round ELSE e.r, !.wallet = e.v, !.paused = e.p]
    BY <2>1 DEF AfterSync
  <2>4. q \in Page /\ q.notice = p.notice /\ q.ids = p.ids /\ q.last = p.last
        /\ (q.round = p.round \/ q.round = e.r)
    BY <1>1, <2>2, <2>3 DEF Page
  <2> QED
    BY <1>2, <2>2, <2>4 DEF GoodPage, Fresh
<1>3. CASE e.ev = "control"
  <2>1. q = [p EXCEPT !.paused = e.p] /\ e.p \in BOOLEAN
    BY <1>3, EventFields DEF ApplyRealtimeEvent
  <2>2. q \in Page /\ q.notice = p.notice /\ q.ids = p.ids /\ q.last = p.last /\ q.round = p.round
    BY <1>1, <2>1 DEF Page
  <2> QED
    BY <1>3, <2>2 DEF GoodPage, Fresh
<1>4. CASE e.ev \in {"round", "cancelled"}
  <2>1. q = [p EXCEPT !.round = e.r, !.last = ResultAfter(p, e.r)] /\ e.r \in Rounds
    BY <1>4, EventFields DEF ApplyRealtimeEvent
  <2>2. ResultAfter(p, e.r) \in 0 .. MaxRound /\ (e.r.st = "CANCELLED" => ResultAfter(p, e.r) = 0)
    BY <1>1, Types, ScenarioFacts DEF ResultAfter
  <2>3. q \in Page /\ q.notice = p.notice /\ q.ids = p.ids /\ q.last = ResultAfter(p, e.r) /\ q.round = e.r
    BY <1>1, <2>1, <2>2 DEF Page
  <2> QED
    BY <1>4, <2>2, <2>3 DEF GoodPage, Fresh
<1>5. CASE e.ev = "result"
  <2>1. q = [p EXCEPT !.round = e.r, !.last = e.r.id] /\ e.r \in Rounds
    BY <1>5, EventFields DEF ApplyRealtimeEvent
  <2>2. e.r.id \in 0 .. MaxRound
    BY <2>1 DEF Rounds
  <2>3. q \in Page /\ q.notice = p.notice /\ q.ids = p.ids /\ q.round = e.r /\ q.last = e.r.id
    BY <1>1, <2>1, <2>2 DEF Page
  <2> QED
    BY <1>5, <2>1, <2>3 DEF GoodPage, Fresh
<1>6. CASE e.ev \in {"placed", "settled"}
  <2>1. q = [p EXCEPT !.orders[e.b] = e.st,
                      !.notice = IF Fresh(p, e) THEN [b |-> e.b, st |-> e.st] ELSE p.notice,
                      !.ids = IF Fresh(p, e) THEN p.ids \cup {e.b} ELSE p.ids]
    BY <1>6 DEF ApplyRealtimeEvent
  <2>2. e.b \in Bets /\ e.st \in BetStatus /\ (e.ev = "settled" => e.st \in Settled /\ bet[e.b].st = e.st)
    BY <1>6, EventFields DEF Holds
  <2>3. [p.orders EXCEPT ![e.b] = e.st] \in [Bets -> {"none"} \cup BetStatus]
    BY <1>1, <2>2
  <2> DEFINE n == IF Fresh(p, e) THEN [b |-> e.b, st |-> e.st] ELSE p.notice
             s == IF Fresh(p, e) THEN p.ids \cup {e.b} ELSE p.ids
             o == [p.orders EXCEPT ![e.b] = e.st]
  <2>4. n \in [b : Bets \cup {0}, st : {"none"} \cup BetStatus] /\ s \subseteq Bets
    BY <1>1, <2>2
  <2>5. q = [p EXCEPT !.orders = o, !.notice = n, !.ids = s]
    BY <1>1, <2>1 DEF Page
  <2>6. q \in Page /\ q.notice = n /\ q.ids = s /\ q.last = p.last /\ q.round = p.round
    <3> HIDE DEF n, s, o, q
    <3> QED
      BY <1>1, <2>3, <2>4, <2>5 DEF Page, o
  <2>7. n.b # 0 => n.st \in Settled /\ n.st = bet[n.b].st
    BY <2>2 DEF GoodPage, Fresh
  <2>8. s = p.ids \cup (IF Fresh(p, e) THEN {e.b} ELSE {})
    OBVIOUS
  <2> QED
    <3> HIDE DEF n, s, o, q
    <3> QED
      BY <2>6, <2>7, <2>8 DEF GoodPage, q
<1>7. CASE e.ev = "wallet"
  <2>1. q = [p EXCEPT !.wallet = e.v] /\ e.v \in Nat
    BY <1>7, EventFields DEF ApplyRealtimeEvent
  <2>2. q \in Page /\ q.notice = p.notice /\ q.ids = p.ids /\ q.last = p.last /\ q.round = p.round
    BY <1>1, <2>1 DEF Page
  <2> QED
    BY <1>7, <2>2 DEF GoodPage, Fresh
<1> QED
  BY <1>2, <1>3, <1>4, <1>5, <1>6, <1>7, EventFields

-----------------------------------------------------------------------------
(* Connection, queries and popup *)

LEMMA SamePackets ==
    ASSUME TabIInv, UNCHANGED <<db, scenario, form, req>>
    PROVE  FormKept /\ form' \in Form /\ PacketIsOfForm' /\ FormHolds' /\ req' \in {Nothing} \cup Packet
<1>1. Quantity' = Quantity
  BY ScenarioStays
<1> QED
  BY <1>1, Types, FormUnchanged DEF TabIInv, PacketIsOfForm, FormHolds, db

\* A step in which no popup is raised, on a page that stays in order.
LEMMA TabStaysQuiet ==
    ASSUME TabIInv, UNCHANGED <<db, bus, scenario, stored, shows>>,
           lane' \in [Instances -> Seq(Truths')], srv' \in SrvState, ask' \in BOOLEAN,
           req' \in {Nothing} \cup Packet, conn' \in ConnState, form' \in Form,
           DOMAIN query' = Queries, \A n \in Queries : query'[n] \in Cached(n), HistoryHolds',
           left' \in [Kinds -> Nat], left'["reload"] = left["reload"],
           FormKept, PacketIsOfForm', FormHolds', page.ids \subseteq page'.ids, GoodPage(page')
    PROVE  TabIInv'
<1>1. page' \in Page /\ NoticeIsFinal' /\ OlderResultGone'
  BY GoodPageKept
<1>2. ShowsAreKnown'
  BY ShowsUnchanged
<1> QED
  BY <1>1, <1>2, Types, TabStep

\* A page that differs in what no invariant is about.
LEMMA PageAlike ==
    ASSUME TabIInv, page' \in Page, page'.notice = page.notice, page'.ids = page.ids,
           page'.last = page.last, page'.round = page.round
    PROVE  GoodPage(page') /\ page.ids \subseteq page'.ids
  BY PageIsGood DEF GoodPage

LEMMA ConnectKeeps == ASSUME TabIInv, UNCHANGED scenario, Connect PROVE TabIInv'
<1>1. page \in Page /\ page' = [page EXCEPT !.connected = TRUE]
  BY Types DEF Connect
<1>2. page' \in Page /\ page'.notice = page.notice /\ page'.ids = page.ids
      /\ page'.last = page.last /\ page'.round = page.round
  BY <1>1 DEF Page
<1>3. conn' \in ConnState /\ srv' \in SrvState /\ ask' \in BOOLEAN
  <2>1. conn' = [conn EXCEPT !.up = TRUE] /\ conn \in ConnState
    BY Types DEF Connect, ConnState
  <2>2. srv' \in SrvState
    BY DEF Connect, SrvState
  <2>3. ask' \in BOOLEAN
    BY DEF Connect
  <2> QED
    BY <2>1, <2>2, <2>3 DEF ConnState
<1>4. FormKept /\ form' \in Form /\ PacketIsOfForm' /\ FormHolds' /\ req' \in {Nothing} \cup Packet
  BY SamePackets DEF Connect
<1>5. lane' \in [Instances -> Seq(Truths')]
  BY <1>4, LanesStay DEF Connect
<1>6. DOMAIN query' = Queries /\ (\A n \in Queries : query'[n] \in Cached(n)) /\ HistoryHolds'
  BY InvalidatedType DEF Connect
<1> QED
  BY <1>2, <1>3, <1>4, <1>5, <1>6, PageAlike, TabStaysQuiet, Types DEF Connect

\* What is left of the packets when the socket is gone.
LEMMA GoneType ==
    ASSUME TabIInv, UNCHANGED scenario, Gone, FormKept, form' \in Form
    PROVE  /\ srv' \in SrvState /\ ask' \in BOOLEAN /\ req' \in {Nothing} \cup Packet
           /\ lane' \in [Instances -> Seq(Truths')]
           /\ req' # Nothing => req # Nothing /\ req'.n = req.n /\ req'.rd = req.rd
<1>1. srv' \in SrvState /\ ask' \in BOOLEAN
  BY DEF Gone, SrvState
<1>2. req' = Nothing \/ (req # Nothing /\ req' = [req EXCEPT !.live = FALSE])
  BY DEF Gone
<1>3. req # Nothing => req \in Packet /\ [req EXCEPT !.live = FALSE] \in Packet
                       /\ [req EXCEPT !.live = FALSE].n = req.n /\ [req EXCEPT !.live = FALSE].rd = req.rd
  BY Types DEF Packet
<1>4. lane' \in [Instances -> Seq(Truths')]
  BY LanesStay DEF Gone
<1> QED
  BY <1>1, <1>2, <1>3, <1>4

LEMMA DropKeeps == ASSUME TabIInv, UNCHANGED scenario, Drop PROVE TabIInv'
<1>1. page \in Page /\ page' = [page EXCEPT !.connected = FALSE]
  BY Types DEF Drop
<1>2. page' \in Page /\ page'.notice = page.notice /\ page'.ids = page.ids
      /\ page'.last = page.last /\ page'.round = page.round
  BY <1>1 DEF Page
<1>3. conn' \in ConnState
  BY DEF Drop, ConnState
<1>4. FormKept /\ form' \in Form
  BY FormUnchanged DEF Drop
<1>5. /\ srv' \in SrvState /\ ask' \in BOOLEAN /\ req' \in {Nothing} \cup Packet
      /\ lane' \in [Instances -> Seq(Truths')]
      /\ req' # Nothing => req # Nothing /\ req'.n = req.n /\ req'.rd = req.rd
  BY <1>4, GoneType DEF Drop
<1>6. UNCHANGED <<db, bus, stored, query, form, shows>>
  BY DEF Drop, Gone
<1>7. PacketIsOfForm' /\ FormHolds'
  BY <1>5, <1>6, ScenarioStays DEF TabIInv, PacketIsOfForm, FormHolds, db
<1>8. DOMAIN query' = Queries /\ (\A n \in Queries : query'[n] \in Cached(n)) /\ HistoryHolds'
  BY <1>6, QueryUnchanged
<1>9. left' \in [Kinds -> Nat] /\ left'["reload"] = left["reload"]
  BY SpendType DEF Drop, Kinds
<1> QED
  BY <1>2, <1>3, <1>4, <1>5, <1>6, <1>7, <1>8, <1>9, PageAlike, TabStaysQuiet

LEMMA FormShape ==
    ASSUME NEW f \in Form
    PROVE  f.at \in {"idle", "wait", "ok", "failed", "refused"} /\ f.rd \in 0 .. MaxRound
           /\ f.got \subseteq Bets /\ f.n \in Nat /\ f.up \in BOOLEAN
  BY DEF Form

LEMMA FormMade ==
    ASSUME NEW a \in {"idle", "wait", "ok", "failed", "refused"}, NEW r \in 0 .. MaxRound,
           NEW g \in SUBSET Bets, NEW n \in Nat, NEW u \in BOOLEAN
    PROVE  [at |-> a, rd |-> r, got |-> g, n |-> n, up |-> u] \in Form
<1> DEFINE R == 0 .. MaxRound
<1>1. r \in R
  OBVIOUS
<1> HIDE DEF R
<1>2. [at |-> a, rd |-> r, got |-> g, n |-> n, up |-> u]
        \in [at : {"idle", "wait", "ok", "failed", "refused"}, rd : R, got : SUBSET Bets, n : Nat, up : BOOLEAN]
  BY <1>1
<1> QED
  BY <1>2 DEF Form, R

LEMMA ReloadKeeps == ASSUME TabIInv, UNCHANGED scenario, Reload PROVE TabIInv'
<1>1. form \in Form /\ form.n \in Nat /\ form' = [EmptyForm EXCEPT !.n = form.n] /\ MaxRound \in Nat
  BY Types, ScenarioFacts DEF Reload, Form
<1>2. form' \in Form /\ form'.at = "idle" /\ form'.n = form.n
  <2>1. form' = [at |-> "idle", rd |-> 0, got |-> {}, n |-> form.n, up |-> FALSE]
    BY <1>1 DEF EmptyForm
  <2>2. 0 \in 0 .. MaxRound /\ {} \in SUBSET Bets
    BY <1>1
  <2> QED
    <3>1. form' \in Form
      <4>1. \A r \in 0 .. MaxRound, g \in SUBSET Bets, n \in Nat :
               [at |-> "idle", rd |-> r, got |-> g, n |-> n, up |-> FALSE] \in Form
        BY FormMade
      <4>2. [at |-> "idle", rd |-> 0, got |-> {}, n |-> form.n, up |-> FALSE] \in Form
        BY ONLY <1>1, <2>2, <4>1
      <4> QED
        BY <2>1, <4>2
    <3>2. form'.at = "idle" /\ form'.n = form.n
      BY ONLY <2>1
    <3> QED
      BY ONLY <3>1, <3>2
<1>3. FormKept
  BY <1>1, <1>2 DEF FormKept
<1>4. /\ srv' \in SrvState /\ ask' \in BOOLEAN /\ req' \in {Nothing} \cup Packet
      /\ lane' \in [Instances -> Seq(Truths')]
      /\ req' # Nothing => req # Nothing /\ req'.n = req.n /\ req'.rd = req.rd
  BY <1>2, <1>3, GoneType DEF Reload
<1>5. UNCHANGED <<db, bus, stored, shows>> /\ page' = EmptyPage /\ conn' \in ConnState
  BY DEF Reload, Gone, ConnState
<1>6. PacketIsOfForm' /\ FormHolds'
  BY <1>2, <1>4 DEF TabIInv, PacketIsOfForm, FormHolds
<1>7. DOMAIN query' = Queries /\ (\A n \in Queries : query'[n] \in Cached(n)) /\ HistoryHolds'
  BY <1>5, EmptyCacheType DEF Reload
<1>8. NoRound \in Rounds
  BY <1>1 DEF NoRound, Rounds
<1>9. page' \in Page /\ page'.notice.b = 0 /\ page'.round.st = "NONE" /\ page'.ids = {}
  BY <1>1, <1>5, <1>8 DEF EmptyPage, Page, NoRound
<1>10. NoticeIsFinal' /\ OlderResultGone'
  BY <1>9 DEF NoticeIsFinal, OlderResultGone
<1>11. left' \in [Kinds -> Nat] /\ left'["reload"] = left["reload"] - 1 /\ left["reload"] > 0
  <2>1. "reload" \in Kinds /\ Budget["reload"] # Forever
    BY Types, ScenarioFacts DEF Kinds
  <2>2. left' \in [Kinds -> Nat]
    BY <2>1, SpendType DEF Reload
  <2> QED
    BY <2>1, <2>2, Types DEF Reload, Spend
<1>12. ShowsAreKnown'
  <2>1. Storage' = Storage /\ Bets' = Bets /\ Budget' = Budget
    BY ScenarioStays
  <2>2. Reloads' = Reloads + 1 /\ Reloads \in Int
    BY <1>11, <2>1, ReloadsType DEF Reloads
  <2>3. \A b \in Bets : shows[b] \in Nat
    BY Types
  <2> QED
    BY <1>5, <2>1, <2>2, <2>3 DEF TabIInv, ShowsAreKnown
<1> QED
  BY <1>2, <1>3, <1>4, <1>5, <1>6, <1>7, <1>9, <1>10, <1>11, <1>12, Types, TabStep

LEMMA ResyncKeeps == ASSUME TabIInv, UNCHANGED scenario, Resync PROVE TabIInv'
<1>1. UNCHANGED <<db, bus, lane, srv, req, conn, page, stored, form, shows>> /\ ask' \in BOOLEAN
  BY DEF Resync
<1>2. FormKept /\ form' \in Form /\ PacketIsOfForm' /\ FormHolds' /\ req' \in {Nothing} \cup Packet
  BY <1>1, SamePackets
<1>3. lane' \in [Instances -> Seq(Truths')]
  BY <1>1, <1>2, LanesStay
<1>4. DOMAIN query' = Queries /\ (\A n \in Queries : query'[n] \in Cached(n)) /\ HistoryHolds'
  BY <1>1, InvalidatedType DEF Resync
<1>5. left' \in [Kinds -> Nat] /\ left'["reload"] = left["reload"]
  BY SpendType DEF Resync, Kinds
<1>6. conn' \in ConnState /\ srv' \in SrvState /\ page' \in Page
  BY <1>1, Types DEF ConnState
<1> QED
  BY <1>1, <1>2, <1>3, <1>4, <1>5, <1>6, PageAlike, TabStaysQuiet

\* What a step of the page alone leaves as it was.
LEMMA PageStep ==
    ASSUME TabIInv, UNCHANGED <<db, net, scenario, conn, form, left>>
    PROVE  /\ FormKept /\ form' \in Form /\ PacketIsOfForm' /\ FormHolds' /\ req' \in {Nothing} \cup Packet
           /\ lane' \in [Instances -> Seq(Truths')] /\ UNCHANGED <<bus, srv, ask>>
           /\ srv' \in SrvState /\ ask' \in BOOLEAN /\ conn' \in ConnState /\ left' \in [Kinds -> Nat]
<1>1. UNCHANGED <<bus, lane, srv, ask, req>>
  BY DEF net
<1>2. FormKept /\ form' \in Form /\ PacketIsOfForm' /\ FormHolds' /\ req' \in {Nothing} \cup Packet
  BY <1>1, SamePackets
<1>3. lane' \in [Instances -> Seq(Truths')]
  BY <1>1, <1>2, LanesStay
<1> QED
  BY <1>1, <1>2, <1>3, Types DEF ConnState

LEMMA DismissKeeps == ASSUME TabIInv, UNCHANGED scenario, DismissSettlementNotice PROVE TabIInv'
<1>1. page \in Page /\ page' = [page EXCEPT !.notice = [b |-> 0, st |-> "none"]]
  BY Types DEF DismissSettlementNotice
<1>2. page' \in Page /\ page'.notice.b = 0 /\ page'.ids = page.ids
      /\ page'.last = page.last /\ page'.round = page.round
  BY <1>1 DEF Page
<1>3. GoodPage(page')
  BY <1>2, PageIsGood DEF GoodPage
<1>4. UNCHANGED <<db, net, conn, stored, query, form, shows, left>>
  BY DEF DismissSettlementNotice
<1>5. DOMAIN query' = Queries /\ (\A n \in Queries : query'[n] \in Cached(n)) /\ HistoryHolds'
  BY <1>4, QueryUnchanged
<1> QED
  BY <1>2, <1>3, <1>4, <1>5, PageStep, TabStaysQuiet

-----------------------------------------------------------------------------
(* The bet form *)

\* A packet is sent for a form whose counted bets exist, or it is refused at once.
LEMMA SendsABet ==
    ASSUME TabIInv, UNCHANGED <<db, scenario>>, NEW f \in Form, f.n = form.n, SendBet(f),
           \A b \in f.got : bet[b] # NoBet /\ bet[b].rd = f.rd, Cardinality(f.got) < Quantity
    PROVE  FormKept /\ form' \in Form /\ PacketIsOfForm' /\ FormHolds' /\ req' \in {Nothing} \cup Packet
<1>1. f.rd \in 0 .. MaxRound /\ f.got \subseteq Bets /\ f.n \in Nat /\ Quantity' = Quantity /\ UNCHANGED bet
  BY FormShape, ScenarioStays DEF db
<1>2. CASE conn.up /\ conn.active
  <2>1. /\ req' = [kind |-> "bet", rd |-> f.rd, n |-> f.n + 1, live |-> TRUE]
        /\ form' = [f EXCEPT !.at = "wait", !.n = f.n + 1]
    BY <1>2 DEF SendBet
  <2>2. form' \in Form /\ form'.at = "wait" /\ form'.n = f.n + 1 /\ form'.rd = f.rd /\ form'.got = f.got
    <3>1. f = [at |-> f.at, rd |-> f.rd, got |-> f.got, n |-> f.n, up |-> f.up]
      BY DEF Form
    <3>2. form' = [at |-> "wait", rd |-> f.rd, got |-> f.got, n |-> f.n + 1, up |-> f.up]
      BY <2>1, <3>1
    <3>3. f.up \in BOOLEAN /\ f.n + 1 \in Nat /\ f.got \in SUBSET Bets
      BY <1>1, FormShape
    <3>4. form' \in Form
      BY <1>1, <3>2, <3>3, FormMade
    <3> QED
      BY <3>2, <3>4
  <2>3. req' \in Packet /\ req'.n = f.n + 1 /\ req'.rd = f.rd
    BY <1>1, <2>1 DEF Packet
  <2>4. FormKept
    BY <1>1, <2>2 DEF FormKept
  <2>5. PacketIsOfForm'
    BY <1>1, <2>2, <2>3 DEF PacketIsOfForm
  <2>6. FormHolds'
    BY <1>1, <2>2 DEF FormHolds
  <2> QED
    BY <2>2, <2>3, <2>4, <2>5, <2>6
<1>3. CASE ~ (conn.up /\ conn.active)
  <2>1. form' = [f EXCEPT !.at = "refused", !.up = conn.up] /\ req' = req
    BY <1>3 DEF SendBet
  <2>2. conn.up \in BOOLEAN
    BY Types
  <2>3. form' \in Form /\ form'.at = "refused" /\ form'.n = form.n
    BY <1>1, <2>1, <2>2 DEF Form
  <2>4. FormKept
    BY <1>1, <2>3 DEF FormKept
  <2>5. PacketIsOfForm'
    BY <2>1, <2>3 DEF TabIInv, PacketIsOfForm
  <2>6. FormHolds'
    BY <2>3 DEF FormHolds
  <2> QED
    BY <2>1, <2>3, <2>4, <2>5, <2>6, Types
<1> QED
  BY <1>2, <1>3

LEMMA PressKeeps == ASSUME TabIInv, UNCHANGED scenario, Press PROVE TabIInv'
<1> DEFINE f == [form EXCEPT !.rd = page.round.id, !.got = {}]
<1>1. UNCHANGED <<db, bus, lane, srv, ask, conn, page, stored, query, shows>> /\ SendBet(f)
  BY DEF Press
<1>2. page.round.id \in 0 .. MaxRound
  BY Types DEF Page, Rounds
<1>3. f \in Form /\ f.n = form.n /\ f.got = {}
  BY <1>2, Types DEF Form
<1>4. Cardinality(f.got) < Quantity
  BY <1>3, FS_EmptySet, Types, ScenarioFacts
<1>5. FormKept /\ form' \in Form /\ PacketIsOfForm' /\ FormHolds' /\ req' \in {Nothing} \cup Packet
  <2> HIDE DEF f
  <2> QED
    BY <1>1, <1>3, <1>4, SendsABet
<1>6. lane' \in [Instances -> Seq(Truths')]
  BY <1>1, <1>5, LanesStay
<1>7. DOMAIN query' = Queries /\ (\A n \in Queries : query'[n] \in Cached(n)) /\ HistoryHolds'
  BY <1>1, QueryUnchanged
<1>8. left' \in [Kinds -> Nat] /\ left'["reload"] = left["reload"]
  BY SpendType DEF Press, Kinds
<1>9. conn' \in ConnState /\ srv' \in SrvState /\ ask' \in BOOLEAN /\ page' \in Page
  BY <1>1, Types DEF ConnState
<1> QED
  BY <1>1, <1>5, <1>6, <1>7, <1>8, <1>9, PageAlike, TabStaysQuiet

LEMMA TimeoutKeeps == ASSUME TabIInv, UNCHANGED scenario, Timeout PROVE TabIInv'
<1>1. UNCHANGED <<db, net, conn, page, stored, query, shows, left>> /\ form' = [form EXCEPT !.at = "failed"]
  BY DEF Timeout
<1>2. form' \in Form /\ form'.at = "failed" /\ form'.n = form.n /\ form.n \in Nat
  BY <1>1, Types DEF Form
<1>3. FormKept /\ PacketIsOfForm' /\ FormHolds'
  BY <1>1, <1>2 DEF FormKept, TabIInv, PacketIsOfForm, FormHolds, net
<1>4. lane' \in [Instances -> Seq(Truths')]
  BY <1>1, <1>2, <1>3, LanesStay DEF net
<1>5. DOMAIN query' = Queries /\ (\A n \in Queries : query'[n] \in Cached(n)) /\ HistoryHolds'
  BY <1>1, QueryUnchanged
<1>6. /\ UNCHANGED <<bus, srv, ask, req>> /\ conn' \in ConnState /\ srv' \in SrvState /\ ask' \in BOOLEAN
      /\ page' \in Page /\ req' \in {Nothing} \cup Packet /\ left' \in [Kinds -> Nat]
  BY <1>1, Types DEF ConnState, net
<1> QED
  BY <1>1, <1>2, <1>3, <1>4, <1>5, <1>6, PageAlike, TabStaysQuiet

-----------------------------------------------------------------------------
(* Messages arrive *)

LEMMA AckKeeps ==
    ASSUME TabIInv, UNCHANGED <<db, bus, srv, ask, conn, left, scenario>>,
           NEW e \in Truths, e.ev = "ack", OnAck(e),
           FormKept /\ form' \in Form => lane' \in [Instances -> Seq(Truths')]
    PROVE  TabIInv'
<1> DEFINE got == form.got \cup {e.b}
<1>1. e \in Message /\ Holds(e) /\ e.b \in Bets \cup {0} /\ e.v \in Nat /\ e.ok \in BOOLEAN
  BY EventFields DEF Truths
<1>2. form \in Form /\ form.n \in Nat /\ form.got \subseteq Bets
  BY Types, FormShape
<1>3. UNCHANGED <<stored, shows>>
  BY DEF OnAck
<1>4. DOMAIN query' = Queries /\ (\A n \in Queries : query'[n] \in Cached(n)) /\ HistoryHolds'
  <2>1. query' = query \/ query' = Invalidated(query, {"round"})
    BY DEF OnAck
  <2> QED
    BY <2>1, QueryUnchanged, InvalidatedType
<1>5. /\ FormKept /\ form' \in Form /\ PacketIsOfForm' /\ FormHolds' /\ req' \in {Nothing} \cup Packet
      /\ page.ids \subseteq page'.ids /\ GoodPage(page')
  <2>1. CASE form.at # "wait" \/ e.n # form.n
    <3>1. UNCHANGED <<page, form, req>>
      BY <2>1 DEF OnAck
    <3> QED
      BY <3>1, SamePackets, PageIsGood
  <2>2. CASE form.at = "wait" /\ e.n = form.n /\ ~ e.ok
    <3>1. form' = [form EXCEPT !.at = "failed"] /\ UNCHANGED <<page, req>>
      BY <2>2 DEF OnAck
    <3>2. form' \in Form /\ form'.at = "failed" /\ form'.n = form.n
      BY <1>2, <3>1 DEF Form
    <3>3. FormKept /\ PacketIsOfForm' /\ FormHolds'
      BY <1>2, <3>1, <3>2 DEF FormKept, TabIInv, PacketIsOfForm, FormHolds
    <3> QED
      BY <3>1, <3>2, <3>3, PageIsGood, Types
  <2>3. CASE form.at = "wait" /\ e.n = form.n /\ e.ok
    <3>1. e.b \in Bets /\ bet[e.b] # NoBet /\ bet[e.b].rd = form.rd
      BY <1>1, <2>3 DEF Holds
    <3>2. got \subseteq Bets /\ \A b \in got : bet[b] # NoBet /\ bet[b].rd = form.rd
      BY <1>2, <2>3, <3>1 DEF TabIInv, FormHolds
    <3>3. /\ Cardinality(got) \in Nat /\ Cardinality(form.got) < Quantity /\ Quantity \in Nat
          /\ Cardinality(got) <= Cardinality(form.got) + 1 /\ Cardinality(form.got) \in Nat
      <4>1. IsFiniteSet(form.got) /\ Cardinality(form.got) \in Nat /\ Cardinality(got) \in Nat
        BY <1>2, <3>2, Types, BetsAreFinite
      <4>2. Cardinality(got) = IF e.b \in form.got THEN Cardinality(form.got) ELSE Cardinality(form.got) + 1
        BY <4>1, FS_AddElement
      <4>3. Cardinality(form.got) < Quantity
        BY <2>3 DEF TabIInv, FormHolds
      <4> QED
        BY <4>1, <4>2, <4>3, Types, ScenarioFacts
    <3> DEFINE f == [form EXCEPT !.got = got]
    <3>4. f \in Form /\ f.n = form.n /\ f.got = got /\ f.rd = form.rd
      BY <1>2, <3>2 DEF Form
    <3>5. CASE Cardinality(got) < Quantity
      <4>1. SendBet(f) /\ UNCHANGED page
        BY <2>3, <3>5 DEF OnAck
      <4>2. \A b \in f.got : bet[b] # NoBet /\ bet[b].rd = f.rd
        BY <3>2, <3>4
      <4>3. Cardinality(f.got) < Quantity
        BY <3>4, <3>5
      <4> HIDE DEF f, got
      <4> QED
        BY <3>4, <4>1, <4>2, <4>3, SendsABet, PageIsGood
    <3>6. CASE ~ (Cardinality(got) < Quantity)
      <4> DEFINE o == [b \in Bets |-> IF b \in got THEN "PENDING" ELSE page.orders[b]]
      <4>1. /\ form' = [form EXCEPT !.at = "ok", !.got = got] /\ UNCHANGED req
            /\ page' = [page EXCEPT !.wallet = e.v, !.orders = o]
        BY <2>3, <3>6 DEF OnAck
      <4>2. form' \in Form /\ form'.at = "ok" /\ form'.n = form.n /\ form'.got = got /\ form'.rd = form.rd
        BY <1>2, <3>2, <4>1 DEF Form
      <4>3. Cardinality(got) = Quantity
        BY <3>3, <3>6
      <4>4. Quantity' = Quantity /\ UNCHANGED bet
        BY ScenarioStays DEF db
      <4>5. FormKept
        BY <1>2, <4>2 DEF FormKept
      <4>6. PacketIsOfForm'
        BY <4>1, <4>2 DEF TabIInv, PacketIsOfForm
      <4>7. FormHolds'
        <5> HIDE DEF got
        <5> QED
          BY <3>2, <4>2, <4>3, <4>4 DEF FormHolds
      <4>8. page \in Page /\ o \in [Bets -> {"none"} \cup BetStatus]
        BY Types DEF Page, BetStatus
      <4>9. page' \in Page /\ page'.notice = page.notice /\ page'.ids = page.ids
            /\ page'.last = page.last /\ page'.round = page.round
        <5> HIDE DEF o
        <5> QED
          BY <1>1, <4>1, <4>8 DEF Page
      <4> QED
        BY <4>1, <4>2, <4>5, <4>6, <4>7, <4>9, PageAlike, Types
    <3> QED
      BY <3>5, <3>6
  <2> QED
    BY <1>1, <2>1, <2>2, <2>3
<1>6. lane' \in [Instances -> Seq(Truths')]
  BY <1>5
<1>7. conn' \in ConnState /\ srv' \in SrvState /\ ask' \in BOOLEAN /\ left' \in [Kinds -> Nat]
  BY Types DEF ConnState
<1> QED
  BY <1>3, <1>4, <1>5, <1>6, <1>7, TabStaysQuiet

LEMMA OnEventKeeps ==
    ASSUME TabIInv, UNCHANGED <<db, bus, srv, ask, conn, left, scenario>>,
           NEW e \in Truths, e.ev # "ack", OnEvent(e),
           FormKept /\ form' \in Form => lane' \in [Instances -> Seq(Truths')]
    PROVE  TabIInv'
<1> DEFINE p == IF e.ev = "settled" THEN MarkShown(e) ELSE page
<1>1. e \in Message /\ Holds(e)
  BY DEF Truths
<1>2. /\ page' = ApplyRealtimeEvent(p, e) /\ shows' = Shown(p, e)
      /\ IF e.ev = "settled" THEN Remember(e.b) ELSE UNCHANGED stored
      /\ query' = Invalidated(query, Refetched(e)) /\ UNCHANGED <<form, req>>
  BY DEF OnEvent
<1>3. page \in Page /\ page.ids \subseteq Bets /\ stored \subseteq Bets /\ GoodPage(page)
  BY Types, PageIsGood DEF Page
<1>4. e.ev = "settled" => e.b \in Bets
  BY <1>1, EventFields
<1>5. GoodPage(p) /\ page.ids \subseteq p.ids /\ (e.ev = "settled" /\ e.b \in stored => e.b \in p.ids)
  <2>1. CASE e.ev = "settled"
    <3> DEFINE s == IF e.b \in stored THEN page.ids \cup {e.b} ELSE page.ids
    <3>1. p = [page EXCEPT !.ids = s] /\ s \subseteq Bets
      BY <1>3, <1>4, <2>1 DEF MarkShown
    <3>2. p \in Page /\ p.ids = s /\ p.notice = page.notice /\ p.last = page.last /\ p.round = page.round
      <4> HIDE DEF s, p
      <4> QED
        BY <1>3, <3>1 DEF Page
    <3>3. page.ids \subseteq s /\ (e.b \in stored => e.b \in s)
      OBVIOUS
    <3> HIDE DEF s, p
    <3> QED
      BY <1>3, <3>2, <3>3 DEF GoodPage
  <2>2. CASE e.ev # "settled"
    BY <1>3, <2>2
  <2> QED
    BY <2>1, <2>2
<1> HIDE DEF p
<1>6. GoodPage(page') /\ page'.ids = p.ids \cup (IF Fresh(p, e) THEN {e.b} ELSE {})
  BY <1>1, <1>2, <1>5, AppliedIsGood
<1>7. /\ stored' \subseteq Bets /\ stored \subseteq stored'
      /\ Storage /\ Fresh(p, e) => e.b \notin stored /\ e.b \in stored'
  <2>1. CASE e.ev = "settled"
    <3>1. stored' = IF Storage THEN stored \cup {e.b} ELSE stored
      BY <1>2, <2>1 DEF Remember
    <3> QED
      BY <1>3, <1>4, <1>5, <2>1, <3>1 DEF Fresh
  <2>2. CASE e.ev # "settled"
    BY <1>2, <1>3, <2>2 DEF Fresh
  <2> QED
    BY <2>1, <2>2
<1>8. shows' \in [Bets -> Nat] /\ ShowsAreKnown'
  BY <1>2, <1>5, <1>6, <1>7, ShownIsKnown
<1>9. FormKept /\ form' \in Form /\ PacketIsOfForm' /\ FormHolds' /\ req' \in {Nothing} \cup Packet
  BY <1>2, SamePackets
<1>10. lane' \in [Instances -> Seq(Truths')]
  BY <1>9
<1>11. DOMAIN query' = Queries /\ (\A n \in Queries : query'[n] \in Cached(n)) /\ HistoryHolds'
  BY <1>2, InvalidatedType
<1>12. page' \in Page /\ NoticeIsFinal' /\ OlderResultGone'
  BY <1>6, GoodPageKept
<1>13. conn' \in ConnState /\ srv' \in SrvState /\ ask' \in BOOLEAN /\ left' \in [Kinds -> Nat]
  BY Types DEF ConnState
<1> QED
  BY <1>7, <1>8, <1>9, <1>10, <1>11, <1>12, <1>13, TabStep

LEMMA ReceiveKeeps ==
    ASSUME TabIInv, UNCHANGED scenario, NEW i \in Instances, Receive(i)
    PROVE  TabIInv'
<1> DEFINE e == Head(lane[i])
<1>1. /\ lane[i] # <<>> /\ lane' = [lane EXCEPT ![i] = Tail(lane[i])]
      /\ UNCHANGED <<db, bus, srv, ask, conn, left>>
      /\ IF e.ev = "ack" THEN OnAck(e) ELSE OnEvent(e)
  BY DEF Receive
<1>2. lane \in [Instances -> Seq(Truths)] /\ e \in Truths
  <2>1. Wires
    BY WiresHold DEF TabIInv
  <2>2. lane \in [Instances -> Seq(Truths)] /\ lane[i] \in Seq(Truths)
    BY <2>1 DEF Wires
  <2> QED
    BY <1>1, <2>2, HeadTailProperties
<1>3. ASSUME FormKept, form' \in Form PROVE lane' \in [Instances -> Seq(Truths')]
  <2> DEFINE T == Truths'
  <2>1. lane \in [Instances -> Seq(T)]
    BY <1>1, <1>3, LanesStay
  <2> HIDE DEF T
  <2>2. Tail(lane[i]) \in Seq(T)
    BY <1>1, <2>1, HeadTailProperties
  <2>3. lane' \in [Instances -> Seq(T)]
    BY <1>1, <2>1, <2>2
  <2> QED
    BY <2>3 DEF T
<1> HIDE DEF e
<1>4. CASE e.ev = "ack"
  <2>1. OnAck(e)
    BY <1>1, <1>4
  <2> QED
    BY <1>1, <1>2, <1>3, <1>4, <2>1, AckKeeps
<1>5. CASE e.ev # "ack"
  <2>1. OnEvent(e)
    BY <1>1, <1>5
  <2> QED
    BY <1>1, <1>2, <1>3, <1>5, <2>1, OnEventKeeps
<1> QED
  BY <1>4, <1>5

\* The database answers a query with what it holds.
LEMMA AnswerType ==
    ASSUME TabIInv, NEW n \in {"round", "wallet", "bets"}
    PROVE  Answer(n) \in AnswerTo(n)
<1>1. CASE n = "round"
  <2>1. CurrentRound \in Running
    <3>1. round \in Rounds /\ NoRound \in Rounds
      BY Types, ScenarioFacts DEF NoRound, Rounds
    <3> QED
      BY <3>1 DEF CurrentRound, Running, NoRound
  <2> QED
    BY <1>1, <2>1 DEF Answer, AnswerTo
<1>2. CASE n = "wallet"
  BY <1>2, Types DEF Answer, AnswerTo
<1>3. CASE n = "bets"
  <2>1. \A b \in Bets : bet[b].st \in {"free"} \cup BetStatus
    BY Types DEF BetRow
  <2> QED
    BY <1>3, <2>1 DEF Answer, AnswerTo
<1> QED
  BY <1>1, <1>2, <1>3

LEMMA FetchKeeps ==
    ASSUME TabIInv, UNCHANGED scenario, NEW n \in Queries, Fetch(n)
    PROVE  TabIInv'
<1>1. /\ query' = [query EXCEPT ![n].fly = [at |-> "read", answer |-> Answer(n)]]
      /\ UNCHANGED <<db, net, conn, page, stored, form, shows, left>>
  BY DEF Fetch
<1>2. n \in {"round", "wallet", "bets"} /\ scenario \in Scenarios
  BY QueryNames, Types
<1>3. Answer(n) \in AnswerTo(n)
  BY <1>2, AnswerType
<1> DEFINE w == [at |-> "read", answer |-> Answer(n)]
<1>4. DOMAIN query = Queries /\ query[n] \in Cached(n) /\ \A m \in Queries : query[m] \in Cached(m)
  BY Types
<1>5. w \in [at : {"read"}, answer : AnswerTo(n)]
  BY <1>3
<1>6. [query[n] EXCEPT !.fly = w] \in Cached(n) /\ [query[n] EXCEPT !.fly = w].fly = w
  <2> HIDE DEF w
  <2> QED
    BY <1>4, <1>5 DEF Cached
<1>7. DOMAIN query' = Queries /\ query'[n] = [query[n] EXCEPT !.fly = w]
      /\ \A m \in Queries : m # n => query'[m] = query[m]
  BY <1>1, <1>4
<1>8. \A m \in Queries : query'[m] \in Cached(m)
  BY <1>4, <1>6, <1>7
<1>9. HistoryHolds'
  <2>1. Queries' = Queries /\ Bets' = Bets /\ UNCHANGED bet
    BY <1>1, ScenarioStays DEF db
  <2>2. CASE n = "bets"
    <3>1. query'["bets"].fly.answer = Answer("bets")
      <4>1. query'[n].fly = w
        <5> HIDE DEF w
        <5> QED
          BY <1>6, <1>7
      <4> QED
        BY <2>2, <4>1
    <3>2. \A b \in Bets : query'["bets"].fly.answer.st[b] = bet[b].st
      BY <3>1 DEF Answer
    <3> QED
      BY <2>1, <3>2 DEF HistoryHolds
  <2>3. CASE n # "bets"
    <3>1. "bets" \in Queries => query'["bets"] = query["bets"]
      BY <1>7, <2>3
    <3> QED
      BY <2>1, <3>1 DEF TabIInv, HistoryHolds
  <2> QED
    BY <2>2, <2>3
<1>10. page' \in Page /\ GoodPage(page') /\ page.ids \subseteq page'.ids
  BY <1>1, Types, PageAlike
<1> QED
  BY <1>1, <1>7, <1>8, <1>9, <1>10, PageStep, TabStaysQuiet

LEMMA LargestOf ==
    ASSUME NEW N \in Nat, NEW T \in SUBSET (1 .. N), T # {}
    PROVE  \E k \in T : \A j \in T : j <= k
<1> DEFINE U == {N - k : k \in T}
<1>1. U \subseteq Nat /\ U # {}
  <2>1. \A k \in T : k \in 1 .. N
    OBVIOUS
  <2>2. \A k \in T : N - k \in Nat
    BY <2>1
  <2> QED
    BY <2>2
<1>2. PICK u \in U : \A v \in U : u <= v
  <2> HIDE DEF U
  <2> QED
    BY <1>1, SmallestOf
<1>3. PICK k \in T : u = N - k
  BY <1>2
<1>4. ASSUME NEW j \in T PROVE j <= k
  <2>1. N - j \in U
    OBVIOUS
  <2>2. N - k <= N - j
    BY <1>2, <1>3, <2>1
  <2> QED
    BY <2>2
<1> QED
  BY <1>4

\* The bet history raises the popup for a settlement that the session has not shown.
LEMMA HistoryType ==
    ASSUME TabIInv, UNCHANGED <<db, scenario, left>>, NEW a \in AnswerTo("bets"), HistoryEffect(a),
           \A b \in Bets : a.st[b] \in Settled => a.st[b] = bet[b].st
    PROVE  /\ GoodPage(page') /\ stored' \subseteq Bets
           /\ shows' \in [Bets -> Nat] /\ ShowsAreKnown'
<1>1. a.st \in [Bets -> {"free"} \cup BetStatus]
  BY DEF AnswerTo
<1>2. CASE Unshown(a) = {}
  <2>1. UNCHANGED <<page, stored, shows>>
    BY <1>2 DEF HistoryEffect
  <2>2. left' \in [Kinds -> Nat] /\ left'["reload"] = left["reload"]
    BY Types
  <2>3. ShowsAreKnown'
    BY <2>1, <2>2, ShowsUnchanged
  <2> QED
    BY <2>1, <2>3, PageIsGood, Types
<1>3. CASE Unshown(a) # {}
  <2> DEFINE b == CHOOSE x \in Unshown(a) : \A y \in Unshown(a) : y <= x
             e == [ev |-> "settled", b |-> b, st |-> a.st[b]]
  <2>1. b \in Unshown(a)
    <3>1. Unshown(a) \subseteq Bets /\ scenario.bets \in Nat /\ Bets = 1 .. scenario.bets
      BY Types, ScenarioFacts DEF Unshown
    <3>2. \E x \in Unshown(a) : \A y \in Unshown(a) : y <= x
      BY <1>3, <3>1, LargestOf
    <3> QED
      BY <3>2
  <2>2. /\ page' = ApplyRealtimeEvent(page, e) /\ shows' = Shown(page, e)
        /\ stored' = IF Storage THEN stored \cup {b} ELSE stored
    BY <1>3 DEF HistoryEffect, Remember
  <2> HIDE DEF b
  <2>3. b \in Bets /\ a.st[b] \in Settled /\ b \notin (IF Storage THEN stored ELSE {}) /\ a.st[b] = bet[b].st
    BY <2>1 DEF Unshown
  <2>4. e \in Message /\ e.ev = "settled" /\ e.b = b /\ Holds(e)
    <3>1. a.st[b] \in BetStatus
      BY <2>3 DEF BetStatus
    <3>2. e \in [ev : {"placed", "settled"}, b : Bets, st : BetStatus]
      BY <2>3, <3>1
    <3> QED
      BY <2>3, <3>2 DEF Message, Holds
  <2> HIDE DEF e
  <2>5. GoodPage(page') /\ page'.ids = page.ids \cup (IF Fresh(page, e) THEN {e.b} ELSE {})
    BY <2>2, <2>4, PageIsGood, AppliedIsGood
  <2>6. stored \subseteq stored' /\ stored' \subseteq Bets
        /\ (Storage /\ Fresh(page, e) => e.b \notin stored /\ e.b \in stored')
    BY <2>2, <2>3, <2>4, Types
  <2>7. shows' \in [Bets -> Nat] /\ ShowsAreKnown'
    BY <2>2, <2>5, <2>6, ShownIsKnown
  <2> QED
    BY <2>5, <2>6, <2>7
<1> QED
  BY <1>2, <1>3

LEMMA ArriveKeeps ==
    ASSUME TabIInv, UNCHANGED scenario, NEW n \in Queries, Arrive(n)
    PROVE  TabIInv'
<1> DEFINE a == query[n].fly.answer
<1>1. /\ query[n].fly.at = "read" /\ query' = [query EXCEPT ![n] = [data |-> a, fly |-> NotAsked]]
      /\ UNCHANGED <<db, net, conn, form, left>>
  BY DEF Arrive
<1>2. n \in {"round", "wallet", "bets"} /\ scenario \in Scenarios
  BY QueryNames, Types
<1>3. DOMAIN query = Queries /\ query[n] \in Cached(n) /\ \A m \in Queries : query[m] \in Cached(m)
  BY Types
<1>4. a \in AnswerTo(n)
  <2>1. query[n].fly \in {NotAsked, Asked} \cup [at : {"read"}, answer : AnswerTo(n)]
    BY <1>3 DEF Cached
  <2> QED
    BY <1>1, <2>1 DEF NotAsked, Asked
<1>5. /\ DOMAIN query' = Queries /\ query'[n] = [data |-> a, fly |-> NotAsked]
      /\ \A m \in Queries : m # n => query'[m] = query[m]
  BY <1>1, <1>3
<1>6. \A m \in Queries : query'[m] \in Cached(m)
  <2>1. query'[n] \in Cached(n)
    <3> HIDE DEF a
    <3> QED
      BY <1>4, <1>5 DEF Cached
  <2> QED
    BY <1>3, <1>5, <2>1
<1>7. HistoryHolds'
  <2>1. Queries' = Queries /\ Bets' = Bets /\ UNCHANGED bet
    BY <1>1, ScenarioStays DEF db
  <2>2. CASE n = "bets"
    BY <1>5, <2>2 DEF HistoryHolds, NotAsked
  <2>3. CASE n # "bets"
    <3>1. "bets" \in Queries => query'["bets"] = query["bets"]
      BY <1>5, <2>3
    <3> QED
      BY <2>1, <3>1 DEF TabIInv, HistoryHolds
  <2> QED
    BY <2>2, <2>3
<1>8. GoodPage(page') /\ stored' \subseteq Bets /\ shows' \in [Bets -> Nat] /\ ShowsAreKnown'
  <2>1. CASE UNCHANGED <<page, stored, shows>>
    <3>1. left' \in [Kinds -> Nat] /\ left'["reload"] = left["reload"] /\ page.ids \subseteq page'.ids
      BY <1>1, <2>1, Types
    <3>2. ShowsAreKnown'
      BY <2>1, <3>1, ShowsUnchanged
    <3> QED
      BY <2>1, <3>2, PageIsGood, Types
  <2>2. CASE n = "round" /\ page' = [page EXCEPT !.round = a.r] /\ UNCHANGED <<stored, shows>>
    <3>1. a.r \in Rounds /\ a.r.st # "CANCELLED" /\ page \in Page
      BY <1>4, <2>2, Types DEF AnswerTo, Running, Ongoing
    <3>2. page' \in Page /\ page'.round = a.r /\ page'.notice = page.notice /\ page'.ids = page.ids
      <4> HIDE DEF a
      <4> QED
        BY <2>2, <3>1 DEF Page
    <3>3. GoodPage(page')
      BY <3>1, <3>2, PageIsGood DEF GoodPage
    <3>4. left' \in [Kinds -> Nat] /\ left'["reload"] = left["reload"] /\ page.ids \subseteq page'.ids
      BY <1>1, <3>2, Types
    <3>5. ShowsAreKnown'
      BY <2>2, <3>4, ShowsUnchanged
    <3> QED
      BY <2>2, <3>3, <3>5, Types
  <2>3. CASE n = "wallet" /\ page' = [page EXCEPT !.wallet = a.v] /\ UNCHANGED <<stored, shows>>
    <3>1. a.v \in Nat /\ page \in Page
      BY <1>4, <2>3, Types DEF AnswerTo
    <3>2. page' \in Page /\ page'.notice = page.notice /\ page'.ids = page.ids
          /\ page'.last = page.last /\ page'.round = page.round
      <4> HIDE DEF a
      <4> QED
        BY <2>3, <3>1 DEF Page
    <3>3. left' \in [Kinds -> Nat] /\ left'["reload"] = left["reload"] /\ page.ids \subseteq page'.ids
      BY <1>1, <3>2, Types
    <3>4. ShowsAreKnown'
      BY <2>3, <3>3, ShowsUnchanged
    <3> QED
      BY <2>3, <3>2, <3>4, PageAlike, Types
  <2>4. CASE n = "bets" /\ HistoryEffect(a)
    <3>1. a \in AnswerTo("bets")
      BY <1>4, <2>4
    <3>2. \A b \in Bets : a.st[b] \in Settled => a.st[b] = bet[b].st
      BY <1>1, <2>4 DEF TabIInv, HistoryHolds
    <3>3. HistoryEffect(a)
      BY <2>4
    <3> HIDE DEF a
    <3> QED
      BY <1>1, <3>1, <3>2, <3>3, HistoryType
  <2>5. \/ UNCHANGED <<page, stored, shows>>
        \/ (n = "round" /\ page' = [page EXCEPT !.round = a.r] /\ UNCHANGED <<stored, shows>>)
        \/ (n = "wallet" /\ page' = [page EXCEPT !.wallet = a.v] /\ UNCHANGED <<stored, shows>>)
        \/ (n = "bets" /\ HistoryEffect(a))
    BY <1>2 DEF Arrive
  <2> QED
    BY <2>1, <2>2, <2>3, <2>4, <2>5
<1>9. page' \in Page /\ NoticeIsFinal' /\ OlderResultGone'
  BY <1>1, <1>8, GoodPageKept
<1> QED
  BY <1>1, <1>5, <1>6, <1>7, <1>8, <1>9, PageStep, TabStep

-----------------------------------------------------------------------------
(* The inductive invariant *)

LEMMA TabInitHolds == ASSUME TabInit PROVE TabIInv
<1>1. scenario \in Scenarios
  BY DEF TabInit
<1>2. /\ MaxRound \in Nat /\ Quantity \in Nat \ {0} /\ Budget \in [Kinds -> Nat] /\ Budget["reload"] \in Nat
      /\ \A b \in Bets : b # 0
  BY <1>1, ScenarioFacts, BetsAreFinite DEF Kinds
<1>3. NoRound \in Rounds
  BY <1>2 DEF NoRound, Rounds
<1>4. page \in Page /\ page.notice.b = 0 /\ page.round.st = "NONE"
  BY <1>2, <1>3 DEF TabInit, EmptyPage, Page, NoRound
<1>5. form \in Form /\ form.at = "idle"
  <2>1. form = [at |-> "idle", rd |-> 0, got |-> {}, n |-> 0, up |-> FALSE]
    BY DEF TabInit, EmptyForm
  <2>2. 0 \in 0 .. MaxRound /\ {} \in SUBSET Bets
    BY <1>2
  <2>3. [at |-> "idle", rd |-> 0, got |-> {}, n |-> 0, up |-> FALSE] \in Form
    BY <2>2, FormMade
  <2> QED
    BY <2>1, <2>3
<1>6. DOMAIN query = Queries /\ \A n \in Queries : query[n] \in Cached(n) /\ query[n].fly.at = "asked"
  BY DEF TabInit, EmptyCache, Cached, Asked
<1>7. bus \in [Instances -> Seq(Message)] /\ lane \in [Instances -> Seq(Message)]
      /\ \A i \in Instances : bus[i] = <<>> /\ lane[i] = <<>>
  BY EmptySeq DEF TabInit
<1>8. bet \in [Bets -> [st : {"free"} \cup BetStatus, rd : 0 .. MaxRound]]
  <2>1. NoBet \in [st : {"free"} \cup BetStatus, rd : 0 .. MaxRound]
    BY <1>2 DEF NoBet
  <2> QED
    BY <2>1 DEF TabInit
<1>9. TabTypeOK
  BY <1>1, <1>2, <1>3, <1>4, <1>5, <1>6, <1>7, <1>8 DEF TabTypeOK, TabInit
<1>10. EventsHold
  BY <1>7, EmptySeq DEF EventsHold
<1>11. HistoryHolds
  BY <1>6 DEF HistoryHolds
<1>12. PacketIsOfForm
  BY DEF TabInit, PacketIsOfForm
<1>13. FormHolds
  BY <1>5 DEF FormHolds
<1>14. ShowsAreKnown
  <2>1. left = Budget /\ \A b \in Bets : shows[b] = 0
    BY DEF TabInit
  <2>2. Reloads = 0
    BY <1>2, <2>1 DEF Reloads
  <2> QED
    BY <2>1, <2>2 DEF ShowsAreKnown
<1>15. NoticeIsFinal /\ OlderResultGone
  BY <1>4 DEF NoticeIsFinal, OlderResultGone
<1> QED
  BY <1>9, <1>10, <1>11, <1>12, <1>13, <1>14, <1>15 DEF TabIInv

LEMMA TabStutters == ASSUME TabIInv, UNCHANGED tabVars PROVE TabIInv'
<1>1. UNCHANGED <<db, net, tab, left, scenario>>
  BY DEF tabVars, state
<1>2. UNCHANGED <<conn, page, stored, query, form, shows>>
  BY <1>1 DEF tab
<1>3. DOMAIN query' = Queries /\ (\A n \in Queries : query'[n] \in Cached(n)) /\ HistoryHolds'
  BY <1>1, <1>2, QueryUnchanged
<1>4. page' \in Page /\ GoodPage(page') /\ page.ids \subseteq page'.ids
  BY <1>2, Types, PageAlike
<1> QED
  BY <1>1, <1>2, <1>3, <1>4, PageStep, TabStaysQuiet

LEMMA TabStepKeeps == ASSUME TabIInv, [TabNext]_tabVars PROVE TabIInv'
<1>1. CASE UNCHANGED tabVars
  BY <1>1, TabStutters
<1>2. CASE TabNext
  <2> USE <1>2 DEF TabNext
  <2>1. UNCHANGED scenario
    OBVIOUS
  <2>2. CASE Game
    <3>1. CASE CreateNextRound
      BY <2>1, <3>1, CreateKeeps
    <3>2. CASE LockRound
      BY <2>1, <3>2, LockKeeps
    <3>3. CASE ResolveRound \/ CompleteRound \/ AnnounceRound \/ AbandonRound
      BY <2>1, <3>3, ResolveKeeps, CompleteKeeps, AnnounceKeeps, AbandonKeeps
    <3>4. CASE ForceStop
      BY <2>1, <3>4, StopKeeps
    <3>5. CASE SetPaused
      BY <2>1, <3>5, PauseKeeps
    <3>6. CASE \E b \in Bets, st \in {"WON", "LOST"} : SettleBet(b, st)
      BY <2>1, <3>6, SettleKeeps
    <3> QED
      BY <2>2, <3>1, <3>2, <3>3, <3>4, <3>5, <3>6 DEF Game
  <2>3. CASE Server
    <3>1. CASE SyncLatestState
      BY <2>1, <3>1, SyncKeeps
    <3>2. CASE StateSync
      BY <2>1, <3>2, AskedKeeps
    <3>3. CASE EmitSnapshot
      BY <2>1, <3>3, EmitKeeps
    <3>4. CASE HandlePlaceBet
      BY <2>1, <3>4, PlaceKeeps
    <3>5. CASE \E i \in AnyInstance : RouteAt(i)
      BY <2>1, <3>5, RouteKeeps DEF RouteAt
    <3> QED
      BY <2>3, <3>1, <3>2, <3>3, <3>4, <3>5 DEF Server
  <2>4. CASE Browser
    <3>1. CASE Connect
      BY <2>1, <3>1, ConnectKeeps
    <3>2. CASE Drop
      BY <2>1, <3>2, DropKeeps
    <3>3. CASE Reload
      BY <2>1, <3>3, ReloadKeeps
    <3>4. CASE Resync
      BY <2>1, <3>4, ResyncKeeps
    <3>5. CASE DismissSettlementNotice
      BY <2>1, <3>5, DismissKeeps
    <3>6. CASE Press
      BY <2>1, <3>6, PressKeeps
    <3>7. CASE Timeout
      BY <2>1, <3>7, TimeoutKeeps
    <3>8. CASE \E i \in AnyInstance : ReceiveFrom(i)
      BY <2>1, <3>8, ReceiveKeeps DEF ReceiveFrom
    <3>9. CASE \E n \in AnyQuery : Ask(n) \/ Get(n)
      BY <2>1, <3>9, FetchKeeps, ArriveKeeps DEF Ask, Get
    <3> QED
      BY <2>4, <3>1, <3>2, <3>3, <3>4, <3>5, <3>6, <3>7, <3>8, <3>9 DEF Browser
  <2> QED
    BY <2>2, <2>3, <2>4
<1> QED
  BY <1>1, <1>2

\* Every state keeps the types; what the servers said of a bet, in an event or
\* an answer that is still on its way, is true; the form counts the bets that
\* answer it; and someone remembers each popup that was raised.
THEOREM TabInvariant == TabSpec => []TabIInv
<1>1. TabInit => TabIInv
  BY TabInitHolds
<1>2. TabIInv /\ [TabNext]_tabVars => TabIInv'
  BY TabStepKeeps
<1> QED
  BY <1>1, <1>2, PTL DEF TabSpec

\* The popup of a settlement comes once for each bet, however many copies of
\* the event arrive and whatever the bet history repeats; without session
\* storage once more for each reload of the page.
THEOREM NoticesComeOnce == TabSpec => []NoticeOnce
<1>1. TabIInv => NoticeOnce
  <2> SUFFICES ASSUME TabIInv PROVE NoticeOnce
    OBVIOUS
  <2>1. Reloads \in Int /\ \A b \in Bets : shows[b] \in Nat
    BY Types, ReloadsType
  <2> QED
    BY <2>1 DEF TabIInv, ShowsAreKnown, NoticeOnce
<1> QED
  BY <1>1, TabInvariant, PTL

\* The popup tells the outcome that the database holds.
THEOREM NoticesAreTrue == TabSpec => []NoticeIsFinal
<1>1. TabIInv => NoticeIsFinal
  BY DEF TabIInv
<1> QED
  BY <1>1, TabInvariant, PTL

\* When the form says "Bet placed", as many bets as were asked for exist, in
\* the round the player saw: neither the ack of an attempt that was given up
\* nor an error was taken for an answer.
THEOREM PlacedBetsExist == TabSpec => []PlacedMeansPlaced
<1>1. TabIInv => PlacedMeansPlaced
  <2> SUFFICES ASSUME TabIInv, form.at = "ok" PROVE PlacedMeansPlaced
    BY DEF PlacedMeansPlaced
  <2>1. form.got \subseteq Bets
    BY Types, FormShape
  <2> QED
    BY <2>1 DEF TabIInv, FormHolds, PlacedMeansPlaced
<1> QED
  BY <1>1, TabInvariant, PTL

-----------------------------------------------------------------------------
(* A result of a cancelled round is followed by the round's update *)

LEMMA NothingFollows == Followed(<<>>)
  BY DEF Followed

\* Events put between others leave what follows what as it was.
LEMMA FollowedInserted ==
    ASSUME NEW S, NEW a \in Seq(S), NEW x \in Seq(S), NEW b \in Seq(S), Followed(a \o b), Followed(x)
    PROVE  Followed((a \o x) \o b) /\ Range(a \o b) \subseteq Range((a \o x) \o b)
<1> DEFINE n == Len(a)
           l == Len(x)
           s == (a \o x) \o b
           t == a \o b
<1>1. n \in Nat /\ l \in Nat /\ Len(b) \in Nat /\ DOMAIN x = 1 .. l
  BY LenProperties
<1>2. /\ t \in Seq(S) /\ Len(t) = n + Len(b)
      /\ \A i \in 1 .. n + Len(b) : t[i] = IF i <= n THEN a[i] ELSE b[i - n]
  BY ConcatProperties
<1>3. /\ a \o x \in Seq(S) /\ Len(a \o x) = n + l
      /\ \A i \in 1 .. n + l : (a \o x)[i] = IF i <= n THEN a[i] ELSE x[i - n]
  BY ConcatProperties
<1>4. /\ s \in Seq(S) /\ Len(s) = n + l + Len(b)
      /\ \A i \in 1 .. n + l + Len(b) : s[i] = IF i <= n + l THEN (a \o x)[i] ELSE b[i - (n + l)]
  BY <1>3, ConcatProperties
<1>5. DOMAIN t = 1 .. n + Len(b) /\ DOMAIN s = 1 .. n + l + Len(b)
  BY <1>2, <1>4, LenProperties
<1> HIDE DEF n, l, s, t
<1> DEFINE at(i) == IF i <= n THEN i ELSE i + l
\* Where the old events are, and where the new ones.
<1>6. ASSUME NEW i \in DOMAIN t PROVE at(i) \in DOMAIN s /\ s[at(i)] = t[i]
  <2>1. CASE i <= n
    <3>1. i \in 1 .. n + l /\ i \in 1 .. n + l + Len(b) /\ i \in 1 .. n + Len(b)
      BY <1>1, <1>5, <2>1
    <3> QED
      BY <1>1, <1>2, <1>3, <1>4, <1>5, <2>1, <3>1
  <2>2. CASE ~ (i <= n)
    <3>1. i \in 1 .. n + Len(b) /\ i + l \in 1 .. n + l + Len(b) /\ ~ (i + l <= n + l)
          /\ (i + l) - (n + l) = i - n
      BY <1>1, <1>5, <2>2
    <3> QED
      BY <1>2, <1>4, <1>5, <2>2, <3>1
  <2> QED
    BY <2>1, <2>2
<1>7. ASSUME NEW i \in DOMAIN x PROVE n + i \in DOMAIN s /\ s[n + i] = x[i]
  <2> DEFINE k == n + i
  <2>1. k \in 1 .. n + l /\ k \in 1 .. n + l + Len(b) /\ ~ (k <= n) /\ k - n = i /\ k <= n + l
    BY <1>1
  <2> HIDE DEF k
  <2>2. (a \o x)[k] = x[i]
    BY <1>3, <2>1
  <2>3. s[k] = (a \o x)[k]
    BY <1>4, <2>1
  <2> QED
    BY <1>5, <2>1, <2>2, <2>3 DEF k
<1>8. ASSUME NEW k \in DOMAIN s
      PROVE  (\E i \in DOMAIN t : k = at(i)) \/ (\E i \in DOMAIN x : k = n + i)
  <2>1. CASE k <= n
    <3>1. k \in DOMAIN t /\ k = at(k)
      BY <1>1, <1>5, <2>1
    <3> QED
      BY <3>1
  <2>2. CASE n < k /\ k <= n + l
    <3>1. k - n \in DOMAIN x /\ k = n + (k - n)
      BY <1>1, <1>5, <2>2
    <3> QED
      BY <3>1
  <2>3. CASE n + l < k
    <3>1. k - l \in DOMAIN t /\ k = at(k - l)
      BY <1>1, <1>5, <2>3
    <3> QED
      BY <3>1
  <2> QED
    BY <1>1, <1>5, <2>1, <2>2, <2>3
<1>9. \A i, j \in DOMAIN t : i < j => at(i) < at(j)
  BY <1>1, <1>5
<1>10. Followed(s)
  <2> SUFFICES ASSUME NEW k \in DOMAIN s, s[k].ev = "result", s[k].r.st = "CANCELLED"
               PROVE  \E m \in DOMAIN s : k < m /\ s[m] = RoundEvent(s[k].r)
    BY DEF Followed
  <2>1. CASE \E i \in DOMAIN t : k = at(i)
    <3>1. PICK i \in DOMAIN t : k = at(i)
      BY <2>1
    <3>2. s[k] = t[i]
      BY <1>6, <3>1
    <3>3. PICK j \in DOMAIN t : i < j /\ t[j] = RoundEvent(t[i].r)
      BY <3>2 DEF Followed, t
    <3>4. at(j) \in DOMAIN s /\ s[at(j)] = t[j] /\ at(i) < at(j)
      BY <1>6, <1>9, <3>3
    <3> HIDE DEF at
    <3> QED
      BY <3>1, <3>2, <3>3, <3>4
  <2>2. CASE \E i \in DOMAIN x : k = n + i
    <3>1. PICK i \in DOMAIN x : k = n + i
      BY <2>2
    <3>2. s[k] = x[i]
      BY <1>7, <3>1
    <3>3. PICK j \in DOMAIN x : i < j /\ x[j] = RoundEvent(x[i].r)
      BY <3>2 DEF Followed
    <3>4. n + j \in DOMAIN s /\ s[n + j] = x[j] /\ n + i < n + j
      BY <1>1, <1>7, <3>3
    <3> QED
      BY <3>1, <3>2, <3>3, <3>4
  <2> QED
    BY <1>8, <2>1, <2>2
<1>11. Range(t) \subseteq Range(s)
  <2> SUFFICES ASSUME NEW i \in DOMAIN t PROVE t[i] \in Range(s)
    BY DEF Range
  <2>1. at(i) \in DOMAIN s /\ s[at(i)] = t[i]
    BY <1>6
  <2> HIDE DEF at
  <2> QED
    BY <2>1 DEF Range
<1> QED
  BY <1>10, <1>11 DEF s, t

LEMMA FollowedAppended ==
    ASSUME NEW S, NEW a \in Seq(S), NEW b \in Seq(S), NEW x \in Seq(S), Followed(a \o b), Followed(x)
    PROVE  Followed(a \o (b \o x)) /\ Range(a \o b) \subseteq Range(a \o (b \o x))
<1> DEFINE c == a \o b
           e == <<>>
<1>1. c \in Seq(S) /\ e \in Seq(S)
  BY ConcatProperties, EmptySeq
<1>2. c \o e = c /\ (c \o x) \o e = c \o x
  BY <1>1, ConcatProperties, ConcatEmptySeq
<1>3. c \o x = a \o (b \o x)
  BY ConcatAssociative
<1> HIDE DEF c, e
<1>4. Followed((c \o x) \o e) /\ Range(c \o e) \subseteq Range((c \o x) \o e)
  <2>1. Followed(c \o e)
    BY <1>2 DEF c
  <2> QED
    BY <1>1, <2>1, FollowedInserted
<1> QED
  BY <1>2, <1>3, <1>4 DEF c

\* What is left when the first events are gone.
LEMMA FollowedRest ==
    ASSUME NEW S, NEW a \in Seq(S), NEW b \in Seq(S), Followed(a \o b)
    PROVE  Followed(b)
<1> DEFINE n == Len(a)
           t == a \o b
<1>1. n \in Nat /\ Len(b) \in Nat /\ DOMAIN b = 1 .. Len(b)
  BY LenProperties
<1>2. /\ t \in Seq(S) /\ Len(t) = n + Len(b)
      /\ \A i \in 1 .. n + Len(b) : t[i] = IF i <= n THEN a[i] ELSE b[i - n]
  BY ConcatProperties
<1>3. DOMAIN t = 1 .. n + Len(b)
  BY <1>2, LenProperties
<1> HIDE DEF n, t
<1> SUFFICES ASSUME NEW k \in DOMAIN b, b[k].ev = "result", b[k].r.st = "CANCELLED"
             PROVE  \E m \in DOMAIN b : k < m /\ b[m] = RoundEvent(b[k].r)
  BY DEF Followed
<1>4. n + k \in DOMAIN t /\ t[n + k] = b[k]
  <2>1. n + k \in 1 .. n + Len(b) /\ ~ (n + k <= n) /\ (n + k) - n = k
    BY <1>1
  <2> QED
    BY <1>2, <1>3, <2>1
<1>5. PICK j \in DOMAIN t : n + k < j /\ t[j] = RoundEvent(t[n + k].r)
  BY <1>4 DEF Followed, t
<1>6. j - n \in DOMAIN b /\ k < j - n /\ t[j] = b[j - n]
  BY <1>1, <1>2, <1>3, <1>5
<1> QED
  BY <1>4, <1>5, <1>6

LEMMA ConcatAt ==
    ASSUME NEW S, NEW h \in Seq(S), NEW t \in Seq(S)
    PROVE  /\ h \o t \in Seq(S) /\ Len(h \o t) = Len(h) + Len(t) /\ Len(t) \in Nat /\ Len(h) \in Nat
           /\ \A i \in 1 .. Len(h) : (h \o t)[i] = h[i]
           /\ \A i \in 1 .. Len(t) : (h \o t)[Len(h) + i] = t[i]
<1> DEFINE n == Len(h)
           l == Len(t)
<1>1. /\ h \o t \in Seq(S) /\ Len(h \o t) = n + l /\ n \in Nat /\ l \in Nat
      /\ \A i \in 1 .. n + l : (h \o t)[i] = IF i <= n THEN h[i] ELSE t[i - n]
  BY ConcatProperties, LenProperties
<1> HIDE DEF n, l
<1>2. ASSUME NEW i \in 1 .. n PROVE (h \o t)[i] = h[i]
  BY <1>1
<1>3. ASSUME NEW i \in 1 .. l PROVE (h \o t)[n + i] = t[i]
  <2>1. n + i \in 1 .. n + l /\ ~ (n + i <= n) /\ (n + i) - n = i
    BY <1>1
  <2> QED
    BY <1>1, <2>1
<1> QED
  BY <1>1, <1>2, <1>3 DEF n, l

LEMMA FirstJoined ==
    ASSUME NEW S, NEW h \in Seq(S), NEW t \in Seq(S), NEW s \in Seq(S), Len(h) = 1, h[1] = s[1], Len(s) = Len(t) + 1,
       \A i \in 1 .. Len(t) : t[i] = s[i + 1]
    PROVE s = h \o t
<1>1. /\ h \o t \in Seq(S) /\ Len(h \o t) = Len(s) /\ Len(t) \in Nat /\ Len(s) \in Nat
      /\ (h \o t)[1] = s[1]
      /\ \A i \in 1 .. Len(t) : (h \o t)[1 + i] = t[i]
  <2>1. /\ h \o t \in Seq(S) /\ Len(h \o t) = Len(h) + Len(t) /\ Len(t) \in Nat /\ Len(h) \in Nat
        /\ \A i \in 1 .. Len(h) : (h \o t)[i] = h[i]
        /\ \A i \in 1 .. Len(t) : (h \o t)[Len(h) + i] = t[i]
    BY ONLY h \in Seq(S), t \in Seq(S), ConcatAt
  <2>2. Len(h) + Len(t) = Len(s) /\ Len(s) \in Nat
    BY <2>1
  <2>3. (h \o t)[1] = s[1]
    <3>1. 1 \in 1 .. Len(h)
      OBVIOUS
    <3> QED
      BY <2>1, <3>1
  <2>4. ASSUME NEW i \in 1 .. Len(t) PROVE (h \o t)[1 + i] = t[i]
    <3>1. Len(h) + i = 1 + i
      OBVIOUS
    <3>2. (h \o t)[Len(h) + i] = t[i]
      BY <2>1, Zenon
    <3> QED
      BY <3>1, <3>2, Zenon
  <2> QED
    BY <2>1, <2>2, <2>3, <2>4
<1>2. ASSUME NEW i \in 1 .. Len(s) PROVE (h \o t)[i] = s[i]
  <2>1. CASE i = 1
    BY <1>1, <2>1
  <2>2. CASE i # 1
    <3>1. i - 1 \in 1 .. Len(t) /\ 1 + (i - 1) = i /\ (i - 1) + 1 = i
      BY <1>1, <2>2
    <3> QED
      BY <1>1, <3>1
  <2> QED
    BY <2>1, <2>2
<1> QED
  BY <1>1, <1>2, SeqEqual

\* The first event, and the rest.
LEMMA FirstAndRest ==
    ASSUME NEW S, NEW s \in Seq(S), s # <<>>
    PROVE  <<Head(s)>> \in Seq(S) /\ Tail(s) \in Seq(S) /\ s = <<Head(s)>> \o Tail(s)
<1>1. Head(s) \in S /\ Tail(s) \in Seq(S) /\ Len(Tail(s)) = Len(s) - 1 /\ Len(s) \in Nat
      /\ \A i \in 1 .. Len(Tail(s)) : Tail(s)[i] = s[i + 1]
  BY HeadTailProperties, LenProperties
<1> DEFINE h == <<Head(s)>>
           t == Tail(s)
<1>2. h \in Seq(S) /\ Len(h) = 1 /\ h[1] = s[1]
  BY <1>1, OneSeq
<1>3. t \in Seq(S) /\ Len(s) = Len(t) + 1 /\ \A i \in 1 .. Len(t) : t[i] = s[i + 1]
  BY <1>1
<1> HIDE DEF h, t
<1>4. s = h \o t
  BY <1>2, <1>3, FirstJoined
<1> QED
  BY <1>2, <1>3, <1>4 DEF h, t

Plain == {e \in Message : e.ev # "result"}

LEMMA PlainIsFollowed == ASSUME NEW s \in Seq(Plain) PROVE s \in Seq(Message) /\ Followed(s)
<1>1. \A k \in DOMAIN s : s[k] \in Plain
  BY LenProperties, ElementOfSeq
<1>2. s \in Seq(Message)
  BY SeqMonotonic DEF Plain
<1> QED
  BY <1>1, <1>2 DEF Followed, Plain

LEMMA JoinTwo == ASSUME NEW f, Len(f) = 2 PROVE FlattenSeq(f) = f[1] \o f[2]
<1> DEFINE g == Joined(f, 2)
<1>1. Joins(g, f, 2)
  BY JoinedExists
<1>2. FlattenSeq(f) = g[2]
  <2>1. Len(f) # 0
    OBVIOUS
  <2>2. FlattenSeq(f) = Joined(f, Len(f))[Len(f)]
    BY <2>1, FlattenIsJoined
  <2> QED
    BY <2>2
<1> HIDE DEF g
<1>3. g = [i \in 1 .. 2 |-> IF i = 1 THEN f[i] ELSE g[i - 1] \o f[i]]
  BY <1>1 DEF Joins
<1>4. g[1] = f[1]
  BY <1>3
<1>5. g[2] = g[1] \o f[2]
  BY <1>3
<1> QED
  BY <1>2, <1>4, <1>5

LEMMA PairOf == ASSUME NEW a, NEW b PROVE <<a>> \o <<b>> = <<a, b>>
<1> DEFINE S == {a, b}
           x == <<a>>
           y == <<b>>
           z == <<a, b>>
<1>1. x \in Seq(S) /\ y \in Seq(S) /\ z \in Seq(S) /\ Len(x) = 1 /\ Len(y) = 1 /\ Len(z) = 2
      /\ x[1] = a /\ y[1] = b /\ z[1] = a /\ z[2] = b
  OBVIOUS
<1> HIDE DEF S, x, y, z
<1>2. /\ x \o y \in Seq(S) /\ Len(x \o y) = Len(x) + Len(y)
      /\ \A i \in 1 .. Len(x) + Len(y) : (x \o y)[i] = IF i <= Len(x) THEN x[i] ELSE y[i - Len(x)]
  BY <1>1, ConcatProperties
<1>3. Len(x \o y) = Len(z) /\ \A i \in 1 .. Len(x \o y) : (x \o y)[i] = z[i]
  BY <1>1, <1>2
<1>4. x \o y = z
  BY <1>1, <1>2, <1>3, SeqEqual
<1> QED
  BY <1>4 DEF x, y, z

\* Two events of one topic are sent together or not at all.
LEMMA PairOfInterest ==
    ASSUME NEW a, NEW b, Topic(a) = Topic(b)
    PROVE  OfInterest(<<a, b>>) \in {<<>>, <<a, b>>}
<1> DEFINE es == <<a, b>>
           f == [k \in DOMAIN es |-> IF Topic(es[k]) \in Topics THEN <<es[k]>> ELSE <<>>]
           g == f[1] \o f[2]
<1>1. DOMAIN es = 1 .. 2 /\ es[1] = a /\ es[2] = b
  OBVIOUS
<1>2. f[1] = (IF Topic(a) \in Topics THEN <<a>> ELSE <<>>) /\ f[2] = (IF Topic(b) \in Topics THEN <<b>> ELSE <<>>)
  BY <1>1
<1>3. f \in [1 .. 2 -> {<<>>, <<a>>, <<b>>}]
  BY <1>1
<1>4. Len(f) = 2
  <2> HIDE DEF f
  <2>1. f \in Seq({<<>>, <<a>>, <<b>>}) /\ DOMAIN f = 1 .. 2
    BY <1>3, SeqDef
  <2> QED
    BY <2>1
<1> HIDE DEF f
<1>5. FlattenSeq(f) = g
  BY <1>4, JoinTwo
<1>6. g \in {<<>>, <<a, b>>}
  <2>1. CASE Topic(a) \in Topics
    <3>1. f[1] = <<a>> /\ f[2] = <<b>>
      BY <1>2, <2>1
    <3> QED
      BY <3>1, PairOf
  <2>2. CASE Topic(a) \notin Topics
    <3>1. f[1] = <<>> /\ f[2] = <<>>
      BY <1>2, <2>2
    <3>2. <<>> \in Seq({}) /\ <<>> \o <<>> = <<>>
      BY EmptySeq, ConcatEmptySeq
    <3> QED
      BY <3>1, <3>2
  <2> QED
    BY <2>1, <2>2
<1> QED
  BY <1>5, <1>6 DEF OfInterest, f
-----------------------------------------------------------------------------
(* What is coming: a step may put events between others or lose the first *)

Orderly(i) == Followed(Coming(i)') /\ (conn.up => Range(Coming(i)) \subseteq Range(Coming(i)'))
ComingKept == \A i \in Instances : Orderly(i)

LEMMA WireTypes ==
    ASSUME TabIInv, NEW i \in Instances
    PROVE  lane[i] \in Seq(Message) /\ bus[i] \in Seq(Message) /\ Coming(i) \in Seq(Message)
<1>1. lane[i] \in Seq(Message) /\ bus[i] \in Seq(Message)
  BY DEF TabIInv, TabTypeOK
<1> QED
  BY <1>1, ConcatProperties DEF Coming

LEMMA SameComing ==
    ASSUME ResultIInv, NEW i \in Instances, Coming(i)' = Coming(i)
    PROVE  Orderly(i)
  BY DEF ResultIInv, Followed, Orderly

LEMMA DropCount ==
    ASSUME TabIInv
    PROVE  Budget["drop"] \in Nat /\ left["drop"] \in Nat /\ Budget["drop"] # Forever
<1>1. scenario \in Scenarios /\ left \in [Kinds -> Nat]
  BY Types
<1>2. Budget \in [Kinds -> Nat] /\ Budget["drop"] # Forever
  BY <1>1, ScenarioFacts, ClientGameAssumption DEF Budget
<1> QED
  BY <1>1, <1>2 DEF Kinds

\* A step that leaves the round, the result and the connection alone.
LEMMA Steady ==
    ASSUME ResultIInv, UNCHANGED scenario, conn'.up = conn.up, (srv'.at = "none") = (srv.at = "none"),
           srv.at = "none" => srv'.snap = NoSnapshot /\ UNCHANGED lane,
           left'["drop"] = left["drop"], page'.last = page.last, page'.round = page.round, ComingKept
    PROVE  ResultIInv'
<1>1. Instances' = Instances /\ Budget' = Budget /\ Lost' = Lost
  BY ScenarioStays DEF Lost
<1>2. conn'.up = Reaches'
  BY DEF ResultIInv, Reaches
<1>3. CancelledShowsNoResult'
  <2> SUFFICES ASSUME page'.round.st = "CANCELLED", page'.last # 0
               PROVE  /\ page'.last = page'.round.id
                      /\ Lost \/ \E i \in Instances : RoundEvent(page'.round) \in Range(Coming(i)')
    BY <1>1 DEF CancelledShowsNoResult, RoundEvent
  <2>1. page.last = page.round.id /\ (Lost \/ \E i \in Instances : RoundEvent(page.round) \in Range(Coming(i)))
    BY DEF ResultIInv, CancelledShowsNoResult
  <2>2. ASSUME ~ Lost PROVE \E i \in Instances : RoundEvent(page'.round) \in Range(Coming(i)')
    <3>1. conn.up
      BY <2>2 DEF ResultIInv
    <3>2. PICK i \in Instances : RoundEvent(page.round) \in Range(Coming(i))
      BY <2>1, <2>2
    <3>3. Range(Coming(i)) \subseteq Range(Coming(i)')
      BY <3>1 DEF ComingKept, Orderly
    <3>4. RoundEvent(page'.round) = RoundEvent(page.round)
      BY DEF RoundEvent
    <3> QED
      BY <3>2, <3>3, <3>4
  <2> QED
    BY <2>1, <2>2
<1>4. \A i \in Instances : Followed(Coming(i)')
  BY DEF ComingKept, Orderly
<1>5. \A i \in Instances : Followed(Coming(i))'
  BY <1>4 DEF Followed, RoundEvent
<1> QED
  BY <1>1, <1>2, <1>3, <1>5 DEF ResultIInv

\* Events are sent from instance i: x to the tab, y to the other instances.
LEMMA Sends ==
    ASSUME TabIInv, ResultIInv, NEW i \in Instances, NEW x \in Seq(Message), NEW y \in Seq(Message),
           Followed(x), Followed(y), lane' = Routed(i, x),
           \A j \in Instances : bus'[j] = IF j = i THEN bus[j] ELSE bus[j] \o y
    PROVE  ComingKept
<1> SUFFICES ASSUME NEW j \in Instances PROVE Orderly(j)
  BY DEF ComingKept
<1>1. lane[j] \in Seq(Message) /\ bus[j] \in Seq(Message) /\ Followed(lane[j] \o bus[j])
  BY WireTypes DEF ResultIInv, Coming
<1>2. lane \in [Instances -> Seq(Message)]
  BY DEF TabIInv, TabTypeOK
<1>3. CASE j = i
  <2>1. bus'[j] = bus[j]
    BY <1>3
  <2>2. CASE Reaches
    <3>1. Coming(j)' = (lane[j] \o x) \o bus[j]
      BY <1>2, <1>3, <2>1, <2>2 DEF Routed, Coming
    <3> QED
      BY <1>1, <3>1, FollowedInserted DEF Orderly, Coming
  <2>3. CASE ~ Reaches
    <3>1. Coming(j)' = Coming(j)
      BY <2>1, <2>3 DEF Routed, Coming
    <3> QED
      BY <3>1, SameComing
  <2> QED
    BY <2>2, <2>3
<1>4. CASE j # i
  <2>1. lane'[j] = lane[j] /\ bus'[j] = bus[j] \o y
    BY <1>2, <1>4 DEF Routed
  <2>2. Coming(j)' = lane[j] \o (bus[j] \o y)
    BY <2>1 DEF Coming
  <2> QED
    BY <1>1, <2>2, FollowedAppended DEF Orderly, Coming
<1> QED
  BY <1>3, <1>4

\* A step of the game or of the servers that publishes.
LEMMA ServerSends ==
    ASSUME TabIInv, ResultIInv, UNCHANGED <<conn, page, scenario>>, (srv'.at = "none") = (srv.at = "none"),
           srv.at = "none" => srv'.snap = NoSnapshot, left'["drop"] = left["drop"],
           NEW i \in Instances, NEW x \in Seq(Message), NEW y \in Seq(Message),
           Followed(x), Followed(y), lane' = Routed(i, x),
           \A j \in Instances : bus'[j] = IF j = i THEN bus[j] ELSE bus[j] \o y
    PROVE  ResultIInv'
<1>1. ComingKept
  BY Sends
<1>2. srv.at = "none" => UNCHANGED lane
  BY DEF Routed, Reaches
<1> QED
  BY <1>1, <1>2, Steady

LEMMA PublishesPlain ==
    ASSUME TabIInv, ResultIInv, UNCHANGED <<conn, page, srv, scenario>>, left'["drop"] = left["drop"],
           NEW i \in Instances, NEW es \in Seq(Plain), PublishRealtimeEvent(i, es)
    PROVE  ResultIInv'
<1> DEFINE x == OfInterest(es)
<1>1. x \in Seq(Message) /\ Followed(x)
  BY OfInterestType, PlainIsFollowed
<1>2. lane' = Routed(i, x) /\ bus' = [j \in Instances |-> IF j = i THEN bus[j] ELSE bus[j] \o x]
  BY DEF PublishRealtimeEvent
<1> HIDE DEF x
<1>3. \A j \in Instances : bus'[j] = IF j = i THEN bus[j] ELSE bus[j] \o x
  BY <1>2
<1>4. srv.at = "none" => srv'.snap = NoSnapshot
  BY DEF ResultIInv
<1> QED
  BY <1>1, <1>2, <1>3, <1>4, ServerSends

\* A step that sends nothing.
LEMMA SendsNothing ==
    ASSUME TabIInv, ResultIInv, UNCHANGED <<lane, bus, scenario>>, (srv'.at = "none") = (srv.at = "none"),
           srv.at = "none" => srv'.snap = NoSnapshot, conn'.up = conn.up,
           left'["drop"] = left["drop"], page'.last = page.last, page'.round = page.round
    PROVE  ResultIInv'
<1>1. ComingKept
  BY SameComing DEF ComingKept, Coming
<1> QED
  BY <1>1, Steady

-----------------------------------------------------------------------------
(* What the game and the servers send *)

LEMMA PlainWallet == ASSUME NEW v \in Nat PROVE [ev |-> "wallet", v |-> v] \in Plain
  BY DEF Plain, Message

LEMMA PlainSettled == ASSUME NEW b \in Bets, NEW st \in BetStatus PROVE [ev |-> "settled", b |-> b, st |-> st] \in Plain
  BY DEF Plain, Message

LEMMA PlainRound == ASSUME NEW r \in Rounds PROVE RoundEvent(r) \in Plain /\ [ev |-> "cancelled", r |-> r] \in Plain
  BY DEF Plain, Message, RoundEvent

LEMMA OtherBudget == ASSUME TabIInv, NEW k \in Kinds, k # "drop", Spend(k) PROVE left'["drop"] = left["drop"]
<1>1. "drop" \in Kinds
  BY DEF Kinds
<1> QED
  BY <1>1, SpendType

LEMMA CreateSends ==
    ASSUME TabIInv, ResultIInv, UNCHANGED scenario, CreateNextRound \/ LockRound
    PROVE  ResultIInv'
<1>1. round' \in Rounds
  BY Types, RoundShape DEF CreateNextRound, LockRound, Rounds, Ongoing
<1> DEFINE e == RoundEvent(round')
<1>2. e \in Plain
  BY <1>1, PlainRound
<1>3. PublishRealtimeEvent(Engine, <<e>>) /\ UNCHANGED <<srv, tab, left>>
  BY DEF CreateNextRound, LockRound
<1> HIDE DEF e
<1>4. <<e>> \in Seq(Plain)
  BY <1>2, OneSeq
<1> QED
  BY <1>3, <1>4, Types, ScenarioFacts, PublishesPlain DEF tab

LEMMA AnnounceSends ==
    ASSUME TabIInv, ResultIInv, UNCHANGED scenario, AnnounceRound
    PROVE  ResultIInv'
<1> DEFINE e == [ev |-> "result", r |-> closing]
           f == RoundEvent(closing)
           x == OfInterest(<<e, f>>)
<1>1. closing \in Rounds /\ closing.st \in Over
  BY Types DEF AnnounceRound
<1>2. e \in Message /\ f \in Message /\ Topic(e) = Topic(f) /\ f = RoundEvent(e.r) /\ f.ev = "round"
  BY <1>1 DEF Message, RoundEvent, Topic
<1>3. PublishRealtimeEvent(Engine, <<e, f>>) /\ UNCHANGED <<srv, tab, left>>
  BY DEF AnnounceRound
<1> HIDE DEF e, f
<1>4. x \in {<<>>, <<e, f>>}
  BY <1>2, PairOfInterest
<1>5. <<e, f>> \in Seq(Message) /\ <<>> \in Seq(Message)
  BY <1>2, EmptySeq
<1>6. Followed(<<e, f>>)
  BY <1>2 DEF Followed
<1>7. x \in Seq(Message) /\ Followed(x)
  BY <1>4, <1>5, <1>6, NothingFollows
<1>8. lane' = Routed(Engine, x) /\ bus' = [j \in Instances |-> IF j = Engine THEN bus[j] ELSE bus[j] \o x]
  BY <1>3 DEF PublishRealtimeEvent
<1> HIDE DEF x
<1>9. \A j \in Instances : bus'[j] = IF j = Engine THEN bus[j] ELSE bus[j] \o x
  BY <1>8
<1>10. srv.at = "none" => srv'.snap = NoSnapshot
  BY <1>3 DEF ResultIInv
<1>11. Engine \in Instances
  BY Types, ScenarioFacts
<1> QED
  BY <1>3, <1>7, <1>8, <1>9, <1>10, <1>11, ServerSends DEF tab

LEMMA SettleSends ==
    ASSUME TabIInv, ResultIInv, UNCHANGED scenario, NEW b \in Bets, NEW st \in {"WON", "LOST"}, SettleBet(b, st)
    PROVE  ResultIInv'
<1> DEFINE w == [ev |-> "wallet", v |-> wallet + 1]
           e == [ev |-> "settled", b |-> b, st |-> st]
<1>1. w \in Plain /\ e \in Plain
  <2>1. wallet + 1 \in Nat /\ st \in BetStatus
    BY Types DEF BetStatus, Settled
  <2> QED
    BY <2>1, PlainWallet, PlainSettled
<1>2. SettledEvents(b, st) = (IF st = "LOST" THEN <<>> ELSE <<w>>) \o <<e>>
  BY DEF SettledEvents
<1> HIDE DEF w, e
<1>3. <<>> \in Seq(Plain) /\ <<w>> \in Seq(Plain) /\ <<e>> \in Seq(Plain)
  BY <1>1, OneSeq, EmptySeq
<1>4. SettledEvents(b, st) \in Seq(Plain)
  BY <1>2, <1>3, ConcatProperties
<1>5. PublishRealtimeEvent(Engine, SettledEvents(b, st)) /\ UNCHANGED <<srv, tab, left>>
  BY DEF SettleBet
<1> QED
  BY <1>4, <1>5, Types, ScenarioFacts, PublishesPlain DEF tab

LEMMA StopSends ==
    ASSUME TabIInv, ResultIInv, UNCHANGED scenario, ForceStop
    PROVE  ResultIInv'
<1>1. round' \in Rounds
  BY Types, RoundShape DEF ForceStop, Rounds, Ongoing, Over
<1> DEFINE e == [ev |-> "cancelled", r |-> round']
<1>2. e \in Plain
  BY <1>1, PlainRound
<1>3. PICK i \in Instances, turn \in SetToSeqs(Pending) : PublishRealtimeEvent(i, Refunds(turn) \o <<e>>)
  BY DEF ForceStop
<1>4. Refunds(turn) \in Seq(Plain)
  <2>1. \A b \in Pending : [ev |-> "settled", b |-> b, st |-> "CANCELLED"] \in Plain
    <3>1. Pending \subseteq Bets /\ "CANCELLED" \in BetStatus
      BY DEF Pending, BetStatus, Settled
    <3> QED
      BY <3>1, PlainSettled
  <2> QED
    BY <2>1, PlainWallet, RefundsType
<1> HIDE DEF e
<1>5. <<e>> \in Seq(Plain)
  BY <1>2, OneSeq
<1>6. Refunds(turn) \o <<e>> \in Seq(Plain)
  BY <1>4, <1>5, ConcatProperties
<1>7. UNCHANGED <<srv, tab>> /\ left'["drop"] = left["drop"]
  BY OtherBudget DEF ForceStop, Kinds
<1> QED
  BY <1>3, <1>6, <1>7, PublishesPlain DEF tab

LEMMA PauseSends ==
    ASSUME TabIInv, ResultIInv, UNCHANGED scenario, SetPaused
    PROVE  ResultIInv'
<1> DEFINE e == [ev |-> "control", p |-> paused']
<1>1. e \in Plain
  BY DEF SetPaused, Plain, Message
<1>2. PICK i \in Instances : PublishRealtimeEvent(i, <<e>>)
  BY DEF SetPaused
<1> HIDE DEF e
<1>3. <<e>> \in Seq(Plain)
  BY <1>1, OneSeq
<1>4. UNCHANGED <<srv, tab>> /\ left'["drop"] = left["drop"]
  BY OtherBudget DEF SetPaused, Kinds
<1> QED
  BY <1>2, <1>3, <1>4, PublishesPlain DEF tab

LEMMA QuietGame ==
    ASSUME TabIInv, ResultIInv, UNCHANGED scenario, ResolveRound \/ CompleteRound \/ AbandonRound
    PROVE  ResultIInv'
<1>1. UNCHANGED <<net, tab>> /\ left'["drop"] = left["drop"]
  BY OtherBudget DEF ResolveRound, CompleteRound, AbandonRound, Kinds
<1>2. srv.at = "none" => srv'.snap = NoSnapshot
  BY <1>1 DEF ResultIInv, net
<1> QED
  BY <1>1, <1>2, SendsNothing DEF net, tab

LEMMA SyncSends ==
    ASSUME TabIInv, ResultIInv, UNCHANGED scenario, SyncLatestState \/ StateSync
    PROVE  ResultIInv'
<1>1. UNCHANGED <<lane, bus, tab, left>>
  BY DEF SyncLatestState, StateSync
<1>2. srv'.at = srv.at /\ (srv.at = "none" => srv'.snap = NoSnapshot)
  <2>1. srv \in SrvState
    BY Types
  <2> QED
    BY <2>1 DEF SyncLatestState, StateSync, ResultIInv, SrvState
<1> QED
  BY <1>1, <1>2, SendsNothing DEF tab

LEMMA EmitSends ==
    ASSUME TabIInv, ResultIInv, UNCHANGED scenario, EmitSnapshot
    PROVE  ResultIInv'
<1> DEFINE e == srv.snap
           x == OfInterest(<<e>>)
           y == <<>>
<1>1. e \in Plain
  BY Types DEF EmitSnapshot, SrvState, Snapshot, Plain, Message
<1>2. lane' = Routed(Own, x) /\ bus' = bus /\ srv' = [at |-> "ready", snap |-> NoSnapshot] /\ srv.at # "none"
      /\ UNCHANGED <<tab, left>>
  BY DEF EmitSnapshot, ResultIInv
<1> HIDE DEF e
<1>3. <<e>> \in Seq(Plain)
  BY <1>1, OneSeq
<1>4. x \in Seq(Plain)
  BY <1>3, OfInterestType
<1> HIDE DEF x
<1>5. x \in Seq(Message) /\ Followed(x)
  BY <1>4, PlainIsFollowed
<1>6. y \in Seq(Message) /\ Followed(y)
  BY NothingFollows, EmptySeq
<1>7. \A j \in Instances : bus'[j] = IF j = Own THEN bus[j] ELSE bus[j] \o y
  BY <1>2, WireTypes, ConcatEmptySeq
<1>8. Own \in Instances
  BY Types, ScenarioFacts
<1> HIDE DEF y
<1> QED
  BY <1>2, <1>5, <1>6, <1>7, <1>8, ServerSends DEF tab

LEMMA PlainAck ==
    ASSUME TabIInv, req # Nothing, NEW ok \in BOOLEAN, NEW b \in Bets \cup {0}, NEW v \in Nat
    PROVE  Ack(ok, b, v) \in Seq(Plain)
<1> DEFINE e == [ev |-> "ack", ok |-> ok, b |-> b, v |-> v, n |-> req.n]
<1>1. e \in Plain
  <2>1. req.n \in Nat
    BY Types DEF Packet
  <2> QED
    BY <2>1 DEF Plain, Message
<1> HIDE DEF e
<1>2. <<e>> \in Seq(Plain) /\ <<>> \in Seq(Plain)
  BY <1>1, OneSeq, EmptySeq
<1> QED
  BY <1>2 DEF Ack, e

LEMMA BetSends ==
    ASSUME TabIInv, ResultIInv, UNCHANGED scenario, HandlePlaceBet
    PROVE  ResultIInv'
<1>1. req # Nothing /\ UNCHANGED <<srv, tab, left>> /\ Own \in Instances /\ (srv.at = "none" => srv'.snap = NoSnapshot)
  BY Types, ScenarioFacts DEF HandlePlaceBet, ResultIInv
<1>2. CASE UNCHANGED <<lane, bus>>
  BY <1>1, <1>2, SendsNothing DEF tab
<1>3. CASE Refuse
  <2> DEFINE x == OfInterest(Ack(FALSE, 0, 0))
             y == <<>>
  <2>1. Ack(FALSE, 0, 0) \in Seq(Plain)
    BY <1>1, PlainAck
  <2>2. lane' = Routed(Own, x) /\ bus' = bus
    BY <1>3 DEF Refuse
  <2>3. x \in Seq(Message) /\ Followed(x)
    BY <2>1, OfInterestType, PlainIsFollowed
  <2>4. y \in Seq(Message) /\ Followed(y)
    BY NothingFollows, EmptySeq
  <2>5. \A j \in Instances : bus'[j] = IF j = Own THEN bus[j] ELSE bus[j] \o y
    BY <2>2, WireTypes, ConcatEmptySeq
  <2> HIDE DEF x, y
  <2> QED
    BY <1>1, <2>2, <2>3, <2>4, <2>5, ServerSends DEF tab
<1>4. ASSUME NEW b \in Bets, PlaceBet(b) PROVE ResultIInv'
  <2> DEFINE p == [ev |-> "placed", b |-> b, st |-> "PENDING"]
             w == [ev |-> "wallet", v |-> wallet + 1]
             a == Ack(TRUE, b, wallet + 1)
             y == OfInterest(<<p, w>>)
             x == OfInterest(<<p, w>> \o a)
  <2>1. wallet + 1 \in Nat
    BY Types
  <2>2. p \in Plain /\ w \in Plain
    BY <2>1, PlainWallet DEF Plain, Message, BetStatus
  <2>3. a \in Seq(Plain)
    BY <1>1, <2>1, PlainAck
  <2>4. /\ lane' = Routed(Own, x)
        /\ bus' = [j \in Instances |-> IF j = Own THEN bus[j] ELSE bus[j] \o y]
    BY <1>4 DEF PlaceBet
  <2> HIDE DEF p, w, a
  <2>5. <<p, w>> \in Seq(Plain)
    BY <2>2
  <2>6. <<p, w>> \o a \in Seq(Plain)
    BY <2>3, <2>5, ConcatProperties
  <2>7. x \in Seq(Plain) /\ y \in Seq(Plain)
    BY <2>5, <2>6, OfInterestType
  <2> HIDE DEF x, y
  <2>8. x \in Seq(Message) /\ Followed(x) /\ y \in Seq(Message) /\ Followed(y)
    BY <2>7, PlainIsFollowed
  <2>9. \A j \in Instances : bus'[j] = IF j = Own THEN bus[j] ELSE bus[j] \o y
    BY <2>4
  <2> QED
    BY <1>1, <2>4, <2>8, <2>9, ServerSends DEF tab
<1> QED
  BY <1>2, <1>3, <1>4 DEF HandlePlaceBet

\* An instance routes an event it was sent: what was on the bus is now on its way,
\* or lost where no socket has joined.
LEMMA RouteSends ==
    ASSUME TabIInv, ResultIInv, UNCHANGED scenario, NEW j \in Instances, ProcessRealtimeEvent(j)
    PROVE  ResultIInv'
<1> DEFINE h == <<Head(bus[j])>>
           t == Tail(bus[j])
<1>1. /\ bus[j] # <<>> /\ lane' = Routed(j, h) /\ bus' = [bus EXCEPT ![j] = t] /\ UNCHANGED <<srv, tab, left>>
  BY DEF ProcessRealtimeEvent
<1>2. h \in Seq(Message) /\ t \in Seq(Message) /\ bus[j] = h \o t /\ lane[j] \in Seq(Message)
  BY <1>1, WireTypes, FirstAndRest
<1>3. lane \in [Instances -> Seq(Message)] /\ bus \in [Instances -> Seq(Message)]
  BY DEF TabIInv, TabTypeOK
<1> HIDE DEF h, t
<1>4. \A i \in Instances : bus'[i] = IF i = j THEN t ELSE bus[i]
  BY <1>1, <1>3
<1>5. ASSUME NEW i \in Instances PROVE Orderly(i)
  <2>1. CASE i # j
    <3>1. Coming(i)' = Coming(i)
      BY <1>1, <1>3, <1>4, <2>1 DEF Routed, Coming
    <3> QED
      BY <3>1, SameComing
  <2>2. CASE i = j /\ Reaches
    <3>1. Coming(i)' = (lane[j] \o h) \o t
      BY <1>1, <1>3, <1>4, <2>2 DEF Routed, Coming
    <3>2. (lane[j] \o h) \o t = lane[j] \o (h \o t)
      <4> DEFINE l == lane[j]
      <4>1. l \in Seq(Message) /\ h \in Seq(Message) /\ t \in Seq(Message)
        BY <1>2
      <4> HIDE DEF l
      <4>2. (l \o h) \o t = l \o (h \o t)
        BY ONLY <4>1, ConcatAssociative
      <4> QED
        BY <4>2 DEF l
    <3>3. Coming(i) = lane[j] \o (h \o t)
      BY <1>2, <2>2 DEF Coming
    <3>4. Coming(i)' = Coming(i)
      BY <3>1, <3>2, <3>3
    <3> QED
      BY <3>4, SameComing
  <2>3. CASE i = j /\ ~ Reaches
    <3>1. ~ conn.up /\ lane[i] = <<>>
      BY <2>3 DEF ResultIInv, Reaches
    <3>2. Coming(i)' = lane[i] \o t /\ Coming(i) = lane[i] \o (h \o t)
      BY <1>1, <1>2, <1>4, <2>3 DEF Routed, Coming
    <3>3. Coming(i)' = t /\ Coming(i) = h \o t
      BY <1>2, <3>1, <3>2, ConcatEmptySeq, ConcatProperties
    <3>4. Followed(h \o t)
      BY <3>3 DEF ResultIInv
    <3>5. Followed(t)
      BY <1>2, <3>4, FollowedRest
    <3> QED
      BY <3>1, <3>3, <3>5 DEF Orderly
  <2> QED
    BY <2>1, <2>2, <2>3
<1>6. ComingKept
  BY <1>5 DEF ComingKept
<1>7. srv.at = "none" => srv'.snap = NoSnapshot /\ UNCHANGED lane
  BY <1>1 DEF Routed, Reaches, ResultIInv
<1> QED
  BY <1>1, <1>6, <1>7, Steady DEF tab

-----------------------------------------------------------------------------
(* What reaches the page *)

\* What an event does to the round and to the result.
LEMMA RoundAndResult ==
    ASSUME NEW p \in Page, NEW e \in Message, e.ev # "ack"
    PROVE  LET q == ApplyRealtimeEvent(p, e) IN
           /\ e.ev = "sync" => q.last = p.last /\ (q.round = p.round \/ q.round.st # "CANCELLED")
           /\ e.ev \in {"control", "placed", "settled", "wallet"} => q.last = p.last /\ q.round = p.round
           /\ e.ev \in {"round", "cancelled"} => q.round = e.r /\ (e.r.st = "CANCELLED" => q.last = 0)
           /\ e.ev = "result" => q.round = e.r /\ q.last = e.r.id
<1> DEFINE q == ApplyRealtimeEvent(p, e)
<1>1. CASE e.ev = "sync"
  <2>1. q = AfterSync(p, e) /\ e.r.st # "CANCELLED"
    BY <1>1, EventFields DEF ApplyRealtimeEvent, Running, Ongoing
  <2>2. q.last = p.last /\ q.round = IF e.r = NoRound THEN p.round ELSE e.r
    BY <2>1 DEF AfterSync, Page
  <2> QED
    BY <1>1, <2>1, <2>2
<1>2. CASE e.ev \in {"round", "cancelled"}
  <2>1. q = [p EXCEPT !.round = e.r, !.last = ResultAfter(p, e.r)]
    BY <1>2 DEF ApplyRealtimeEvent
  <2> QED
    BY <1>2, <2>1 DEF ResultAfter, Page
<1>3. CASE e.ev = "result"
  BY <1>3 DEF ApplyRealtimeEvent, Page
<1>4. CASE e.ev = "control"
  BY <1>4 DEF ApplyRealtimeEvent, Page
<1>5. CASE e.ev = "wallet"
  BY <1>5 DEF ApplyRealtimeEvent, Page
<1>6. CASE e.ev \in {"placed", "settled"}
  <2>1. q = [p EXCEPT !.orders[e.b] = e.st,
                      !.notice = IF Fresh(p, e) THEN [b |-> e.b, st |-> e.st] ELSE p.notice,
                      !.ids = IF Fresh(p, e) THEN p.ids \cup {e.b} ELSE p.ids]
    BY <1>6 DEF ApplyRealtimeEvent
  <2>2. q.last = p.last /\ q.round = p.round
    BY <2>1 DEF Page
  <2> QED
    BY <1>6, <2>2
<1> QED
  BY <1>1, <1>2, <1>3, <1>4, <1>5, <1>6, EventFields

\* The first event of a lane is taken off it.
LEMMA TakenOff ==
    ASSUME TabIInv, ResultIInv, NEW i \in Instances, lane[i] # <<>>,
           lane' = [lane EXCEPT ![i] = Tail(lane[i])], UNCHANGED bus
    PROVE  /\ Head(lane[i]) \in Message
           /\ \A j \in Instances : Followed(Coming(j)')
           /\ \A j \in Instances : j # i => Coming(j)' = Coming(j)
           /\ \A e \in Range(Coming(i)) : e = Head(lane[i]) \/ e \in Range(Coming(i)')
           /\ LET e == Head(lane[i]) IN
              e.ev = "result" /\ e.r.st = "CANCELLED" => RoundEvent(e.r) \in Range(Coming(i)')
<1> DEFINE e == Head(lane[i])
           h == <<e>>
           t == Tail(lane[i])
           c == t \o bus[i]
<1>1. h \in Seq(Message) /\ t \in Seq(Message) /\ lane[i] = h \o t /\ bus[i] \in Seq(Message) /\ e \in Message
  BY WireTypes, FirstAndRest, HeadTailProperties
<1>2. lane \in [Instances -> Seq(Message)]
  BY DEF TabIInv, TabTypeOK
<1>3. Len(h) = 1 /\ h[1] = e
  OBVIOUS
<1> HIDE DEF h, t, e
<1>4. \A j \in Instances : lane'[j] = IF j = i THEN t ELSE lane[j]
  BY <1>2 DEF t
<1>5. Coming(i)' = c /\ \A j \in Instances : j # i => Coming(j)' = Coming(j)
  BY <1>4 DEF Coming
<1>6. c \in Seq(Message)
  BY <1>1, ConcatProperties
<1>7. Coming(i) = h \o c
  <2> DEFINE b == bus[i]
  <2>1. b \in Seq(Message) /\ h \in Seq(Message) /\ t \in Seq(Message)
    BY <1>1
  <2> HIDE DEF b
  <2>2. (h \o t) \o b = h \o (t \o b)
    BY ONLY <2>1, ConcatAssociative
  <2> QED
    BY <1>1, <2>2 DEF Coming, b
<1> HIDE DEF c
<1>8. Followed(h \o c)
  BY <1>7 DEF ResultIInv
<1>9. Followed(c)
  BY <1>1, <1>6, <1>8, FollowedRest
<1>10. /\ DOMAIN c = 1 .. Len(c) /\ DOMAIN (h \o c) = 1 .. 1 + Len(c) /\ Len(c) \in Nat
       /\ (h \o c)[1] = e /\ \A k \in 1 .. Len(c) : (h \o c)[1 + k] = c[k]
  <2>1. /\ h \o c \in Seq(Message) /\ Len(h \o c) = Len(h) + Len(c) /\ Len(c) \in Nat /\ Len(h) \in Nat
        /\ \A k \in 1 .. Len(h) : (h \o c)[k] = h[k]
        /\ \A k \in 1 .. Len(c) : (h \o c)[Len(h) + k] = c[k]
    BY ONLY <1>1, <1>6, ConcatAt
  <2>2. DOMAIN c = 1 .. Len(c) /\ DOMAIN (h \o c) = 1 .. Len(h \o c)
    BY <1>6, <2>1, LenProperties
  <2> QED
    BY <1>3, <2>1, <2>2
<1>11. \A x \in Range(h \o c) : x = e \/ x \in Range(c)
  <2> SUFFICES ASSUME NEW k \in DOMAIN (h \o c) PROVE (h \o c)[k] = e \/ (h \o c)[k] \in Range(c)
    BY DEF Range
  <2>1. CASE k = 1
    BY <1>10, <2>1
  <2>2. CASE k # 1
    <3>1. k - 1 \in DOMAIN c /\ 1 + (k - 1) = k /\ k - 1 \in 1 .. Len(c)
      BY <1>10, <2>2
    <3>2. (h \o c)[1 + (k - 1)] = c[k - 1]
      BY <1>10, <3>1
    <3> QED
      BY <3>1, <3>2 DEF Range
  <2> QED
    BY <2>1, <2>2
<1>12. ASSUME e.ev = "result", e.r.st = "CANCELLED" PROVE RoundEvent(e.r) \in Range(c)
  <2>1. 1 \in DOMAIN (h \o c)
    BY <1>10
  <2>2. PICK m \in DOMAIN (h \o c) : 1 < m /\ (h \o c)[m] = RoundEvent(e.r)
    BY <1>8, <1>10, <1>12, <2>1 DEF Followed
  <2>3. m - 1 \in DOMAIN c /\ 1 + (m - 1) = m /\ m - 1 \in 1 .. Len(c)
    BY <1>10, <2>2
  <2>4. (h \o c)[1 + (m - 1)] = c[m - 1]
    BY <1>10, <2>3
  <2> QED
    BY <2>2, <2>3, <2>4 DEF Range
<1>13. \A j \in Instances : Followed(Coming(j)')
  BY <1>5, <1>9 DEF ResultIInv, Followed
<1> QED
  BY <1>1, <1>5, <1>7, <1>11, <1>12, <1>13 DEF e

\* A step of the tab that keeps the socket, where what is on its way stays followed.
LEMMA TabKeepsResult ==
    ASSUME ResultIInv, UNCHANGED <<srv, conn, left, scenario>>, conn.up, CancelledShowsNoResult',
           \A i \in Instances : Followed(Coming(i)')
    PROVE  ResultIInv'
<1>1. Instances' = Instances /\ Budget' = Budget /\ Reaches
  BY ScenarioStays DEF ResultIInv
<1>2. \A i \in Instances : Followed(Coming(i))'
  BY DEF Followed, RoundEvent
<1>3. srv.at # "none"
  BY <1>1 DEF Reaches
<1> QED
  BY <1>1, <1>2, <1>3 DEF ResultIInv, Reaches

LEMMA AckLeavesRound ==
    ASSUME TabIInv, NEW e, OnAck(e)
    PROVE  page'.round = page.round /\ page'.last = page.last
<1>1. page \in Page
  BY Types
<1> QED
  BY <1>1 DEF OnAck, Page

LEMMA ReceiveShows ==
    ASSUME TabIInv, ResultIInv, UNCHANGED scenario, NEW i \in Instances, Receive(i)
    PROVE  ResultIInv'
<1> DEFINE e == Head(lane[i])
<1>1. /\ conn.up /\ lane[i] # <<>> /\ lane' = [lane EXCEPT ![i] = Tail(lane[i])]
      /\ UNCHANGED <<db, bus, srv, ask, conn, left>>
      /\ IF e.ev = "ack" THEN OnAck(e) ELSE OnEvent(e)
  BY DEF Receive
<1>2. /\ e \in Message
      /\ \A j \in Instances : Followed(Coming(j)')
      /\ \A j \in Instances : j # i => Coming(j)' = Coming(j)
      /\ \A x \in Range(Coming(i)) : x = e \/ x \in Range(Coming(i)')
      /\ e.ev = "result" /\ e.r.st = "CANCELLED" => RoundEvent(e.r) \in Range(Coming(i)')
  BY <1>1, TakenOff
<1>3. Instances' = Instances /\ Lost' = Lost
  BY <1>1, ScenarioStays DEF Lost
<1> HIDE DEF e
\* The update that is on its way stays so, unless it is the one that arrives.
<1>4. ASSUME page'.round = page.round, page'.last = page.last, e.ev # "round" PROVE CancelledShowsNoResult'
  <2> SUFFICES ASSUME page'.round.st = "CANCELLED", page'.last # 0, ~ Lost
               PROVE  page'.last = page'.round.id /\ \E j \in Instances : RoundEvent(page'.round) \in Range(Coming(j)')
    <3>1. page'.round.st = "CANCELLED" /\ page'.last # 0 => page'.last = page'.round.id
      BY <1>4 DEF ResultIInv, CancelledShowsNoResult
    <3> QED
      BY <1>3, <3>1 DEF CancelledShowsNoResult, RoundEvent
  <2>1. page.last = page.round.id
    BY <1>4 DEF ResultIInv, CancelledShowsNoResult
  <2>2. PICK j \in Instances : RoundEvent(page.round) \in Range(Coming(j))
    BY <1>4 DEF ResultIInv, CancelledShowsNoResult
  <2>3. RoundEvent(page'.round) = RoundEvent(page.round) /\ RoundEvent(page.round) # e
    BY <1>4 DEF RoundEvent
  <2>4. RoundEvent(page.round) \in Range(Coming(j)')
    BY <1>2, <2>2, <2>3
  <2> QED
    BY <1>4, <2>1, <2>3, <2>4
<1>5. CancelledShowsNoResult'
  <2>1. CASE e.ev = "ack"
    <3>1. page'.round = page.round /\ page'.last = page.last
      BY <1>1, <2>1, AckLeavesRound
    <3> QED
      BY <1>4, <2>1, <3>1
  <2>2. CASE e.ev # "ack"
    <3> DEFINE p == IF e.ev = "settled" THEN MarkShown(e) ELSE page
    <3>1. page' = ApplyRealtimeEvent(p, e)
      BY <1>1, <2>2 DEF OnEvent
    <3>2. p \in Page /\ p.round = page.round /\ p.last = page.last
      <4>1. page \in Page /\ page.ids \subseteq Bets /\ (e.ev = "settled" => e.b \in Bets)
        BY <1>2, Types, EventFields DEF Page
      <4> DEFINE s == IF e.b \in stored THEN page.ids \cup {e.b} ELSE page.ids
      <4>2. e.ev = "settled" => p = [page EXCEPT !.ids = s] /\ s \subseteq Bets
        BY <4>1 DEF MarkShown
      <4>3. e.ev # "settled" => p = page
        OBVIOUS
      <4> HIDE DEF s, p
      <4>4. CASE e.ev = "settled"
        BY <4>1, <4>2, <4>4 DEF Page
      <4> QED
        BY <4>1, <4>3, <4>4
    <3> HIDE DEF p
    <3>3. /\ e.ev = "sync" => page'.last = p.last /\ (page'.round = p.round \/ page'.round.st # "CANCELLED")
          /\ e.ev \in {"control", "placed", "settled", "wallet"} => page'.last = p.last /\ page'.round = p.round
          /\ e.ev \in {"round", "cancelled"} => page'.round = e.r /\ (e.r.st = "CANCELLED" => page'.last = 0)
          /\ e.ev = "result" => page'.round = e.r /\ page'.last = e.r.id
      BY <1>2, <2>2, <3>1, <3>2, RoundAndResult
    <3>4. CASE e.ev \in {"control", "placed", "settled", "wallet"}
      BY <1>4, <3>2, <3>3, <3>4
    <3>5. CASE e.ev = "sync"
      <4>1. CASE page'.round = page.round
        BY <1>4, <3>2, <3>3, <3>5, <4>1
      <4>2. CASE page'.round.st # "CANCELLED"
        BY <4>2 DEF CancelledShowsNoResult
      <4> QED
        BY <3>2, <3>3, <3>5, <4>1, <4>2
    <3>6. CASE e.ev \in {"round", "cancelled"}
      BY <3>3, <3>6 DEF CancelledShowsNoResult
    <3>7. CASE e.ev = "result"
      <4>1. page'.round = e.r /\ page'.last = e.r.id
        BY <3>3, <3>7
      <4>2. e.r.st = "CANCELLED" => RoundEvent(page'.round) \in Range(Coming(i)')
        BY <1>2, <3>7, <4>1
      <4> QED
        BY <1>3, <4>1, <4>2 DEF CancelledShowsNoResult, RoundEvent
    <3>8. e.ev \in {"sync", "round", "cancelled", "result", "placed", "settled", "wallet", "control", "ack"}
      BY <1>2, EventFields
    <3> QED
      BY <2>2, <3>4, <3>5, <3>6, <3>7, <3>8
  <2> QED
    BY <2>1, <2>2
<1> QED
  BY <1>1, <1>2, <1>5, TabKeepsResult

LEMMA ConnectShows ==
    ASSUME TabIInv, ResultIInv, UNCHANGED scenario, Connect
    PROVE  ResultIInv'
<1>1. Instances' = Instances /\ Budget' = Budget /\ Lost' = Lost
  BY ScenarioStays DEF Lost, Connect
<1>2. UNCHANGED <<lane, bus, left>> /\ conn'.up /\ srv'.at = "joined"
  BY Types DEF Connect
<1>3. page'.round = page.round /\ page'.last = page.last
  BY Types DEF Connect, Page
<1>4. \A i \in Instances : Coming(i)' = Coming(i)
  BY <1>2 DEF Coming
<1>5. \A i \in Instances : Followed(Coming(i))'
  BY <1>4 DEF ResultIInv, Followed, RoundEvent
<1>6. CancelledShowsNoResult'
  BY <1>1, <1>3, <1>4 DEF ResultIInv, CancelledShowsNoResult, RoundEvent
<1> QED
  BY <1>1, <1>2, <1>5, <1>6 DEF ResultIInv, Reaches

\* When the socket is gone, only what the other instances sent is still coming.
LEMMA GoneComing ==
    ASSUME TabIInv, ResultIInv, Gone
    PROVE  /\ \A i \in Instances : Followed(Coming(i)') /\ lane'[i] = <<>>
           /\ srv'.at = "none" /\ srv'.snap = NoSnapshot
<1>1. ASSUME NEW i \in Instances PROVE Followed(Coming(i)') /\ lane'[i] = <<>>
  <2>1. lane'[i] = <<>> /\ bus'[i] = bus[i]
    BY DEF Gone
  <2>2. lane[i] \in Seq(Message) /\ bus[i] \in Seq(Message) /\ Followed(lane[i] \o bus[i])
    BY WireTypes DEF ResultIInv, Coming
  <2>3. Coming(i)' = bus[i]
    BY <2>1, <2>2, ConcatEmptySeq DEF Coming
  <2> QED
    BY <2>1, <2>2, <2>3, FollowedRest
<1> QED
  BY <1>1 DEF Gone

LEMMA DropShows ==
    ASSUME TabIInv, ResultIInv, UNCHANGED scenario, Drop
    PROVE  ResultIInv'
<1>1. Instances' = Instances /\ Budget' = Budget
  BY ScenarioStays
<1>2. left'["drop"] < Budget["drop"]
  <2>1. left \in [Kinds -> Nat] /\ "drop" \in Kinds /\ left["drop"] <= Budget["drop"]
    BY Types DEF Kinds, ResultIInv
  <2>2. left'["drop"] = left["drop"] - 1 /\ left["drop"] > 0
    BY <2>1, DropCount DEF Drop, Spend
  <2> QED
    BY <2>1, <2>2, DropCount
<1>3. left'["drop"] <= Budget'["drop"]
  <2>1. left'["drop"] \in Nat
    BY SpendType DEF Drop, Kinds
  <2> QED
    BY <1>1, <1>2, <2>1, DropCount
<1>4. Lost'
  BY <1>1, <1>2 DEF Lost
<1>5. /\ \A i \in Instances : Followed(Coming(i)') /\ lane'[i] = <<>>
      /\ srv'.at = "none" /\ srv'.snap = NoSnapshot /\ conn'.up = FALSE
  BY GoneComing DEF Drop
<1>6. \A i \in Instances : Followed(Coming(i))'
  BY <1>5 DEF Followed, RoundEvent
<1>7. OlderResultGone'
  BY DropKeeps DEF TabIInv
<1>8. CancelledShowsNoResult'
  <2>1. page'.round.st = "CANCELLED" /\ page'.last # 0 => page'.last = page'.round.id
    BY <1>7 DEF OlderResultGone
  <2> QED
    BY <1>4, <2>1 DEF CancelledShowsNoResult
<1> QED
  BY <1>1, <1>3, <1>4, <1>5, <1>6, <1>8 DEF ResultIInv, Reaches

LEMMA ReloadShows ==
    ASSUME TabIInv, ResultIInv, UNCHANGED scenario, Reload
    PROVE  ResultIInv'
<1>1. Instances' = Instances /\ Budget' = Budget
  BY ScenarioStays
<1>2. left'["drop"] = left["drop"]
  BY OtherBudget DEF Reload, Kinds
<1>3. page'.last = 0
  BY DEF Reload, EmptyPage
<1>4. /\ \A i \in Instances : Followed(Coming(i)') /\ lane'[i] = <<>>
      /\ srv'.at = "none" /\ srv'.snap = NoSnapshot /\ conn'.up = FALSE
  BY GoneComing DEF Reload
<1>5. \A i \in Instances : Followed(Coming(i))'
  BY <1>4 DEF Followed, RoundEvent
<1>6. CancelledShowsNoResult'
  BY <1>3 DEF CancelledShowsNoResult
<1> QED
  BY <1>1, <1>2, <1>3, <1>4, <1>5, <1>6 DEF ResultIInv, Reaches

\* A step that neither sends nor receives and leaves the round and the result.
LEMMA QuietTab ==
    ASSUME TabIInv, ResultIInv, UNCHANGED <<lane, bus, srv, conn, scenario>>, left'["drop"] = left["drop"],
           page'.round = page.round, page'.last = page.last
    PROVE  ResultIInv'
<1>1. srv.at = "none" => srv'.snap = NoSnapshot
  BY DEF ResultIInv
<1> QED
  BY <1>1, SendsNothing

LEMMA FormShows ==
    ASSUME TabIInv, ResultIInv, UNCHANGED scenario, Resync \/ DismissSettlementNotice \/ Press \/ Timeout
    PROVE  ResultIInv'
<1>1. page \in Page
  BY Types
<1>2. page'.round = page.round /\ page'.last = page.last
  BY <1>1 DEF Resync, DismissSettlementNotice, Press, Timeout, Page
<1>3. left'["drop"] = left["drop"]
  BY OtherBudget DEF Resync, DismissSettlementNotice, Press, Timeout, Kinds
<1>4. UNCHANGED <<lane, bus, srv, conn>>
  BY DEF Resync, DismissSettlementNotice, Press, Timeout, net
<1> QED
  BY <1>2, <1>3, <1>4, QuietTab

LEMMA FetchShows ==
    ASSUME TabIInv, ResultIInv, UNCHANGED scenario, NEW n \in Queries, Fetch(n)
    PROVE  ResultIInv'
  BY QuietTab DEF Fetch, net

LEMMA HistoryLeavesRound ==
    ASSUME TabIInv, NEW a \in AnswerTo("bets"), HistoryEffect(a),
           \A b \in Bets : a.st[b] \in Settled => a.st[b] = bet[b].st
    PROVE  page'.round = page.round /\ page'.last = page.last
<1>1. a.st \in [Bets -> {"free"} \cup BetStatus] /\ page \in Page
  BY Types DEF AnswerTo
<1>2. CASE Unshown(a) # {}
  <2> DEFINE b == CHOOSE x \in Unshown(a) : \A y \in Unshown(a) : y <= x
             e == [ev |-> "settled", b |-> b, st |-> a.st[b]]
  <2>1. b \in Unshown(a)
    <3>1. Unshown(a) \subseteq Bets /\ scenario.bets \in Nat /\ Bets = 1 .. scenario.bets
      BY Types, ScenarioFacts DEF Unshown
    <3>2. \E x \in Unshown(a) : \A y \in Unshown(a) : y <= x
      BY <1>2, <3>1, LargestOf
    <3> QED
      BY <3>2
  <2>2. page' = ApplyRealtimeEvent(page, e)
    BY <1>2 DEF HistoryEffect
  <2> HIDE DEF b
  <2>3. e \in Message /\ e.ev = "settled"
    <3>1. b \in Bets /\ a.st[b] \in BetStatus
      BY <2>1 DEF Unshown, BetStatus
    <3>2. e \in [ev : {"placed", "settled"}, b : Bets, st : BetStatus]
      BY <3>1
    <3> QED
      BY <3>2 DEF Message
  <2> HIDE DEF e
  <2> QED
    BY <1>1, <2>2, <2>3, RoundAndResult
<1> QED
  BY <1>2 DEF HistoryEffect

LEMMA ArriveShows ==
    ASSUME TabIInv, ResultIInv, UNCHANGED scenario, NEW n \in Queries, Arrive(n)
    PROVE  ResultIInv'
<1> DEFINE a == query[n].fly.answer
<1>1. UNCHANGED <<lane, bus, srv, conn, left>> /\ query[n].fly.at = "read"
  BY DEF Arrive, net
<1>2. n \in {"round", "wallet", "bets"} /\ page \in Page
  BY QueryNames, Types
<1>3. a \in AnswerTo(n)
  <2>1. query[n] \in Cached(n)
    BY Types
  <2>2. query[n].fly \in {NotAsked, Asked} \cup [at : {"read"}, answer : AnswerTo(n)]
    BY <2>1 DEF Cached
  <2> QED
    BY <1>1, <2>2 DEF NotAsked, Asked
<1>4. \/ UNCHANGED page
      \/ (n = "round" /\ page' = [page EXCEPT !.round = a.r])
      \/ (n = "wallet" /\ page' = [page EXCEPT !.wallet = a.v])
      \/ (n = "bets" /\ HistoryEffect(a))
  BY <1>2 DEF Arrive
<1>5. page'.last = page.last /\ (page'.round = page.round \/ page'.round.st # "CANCELLED")
  <2>1. CASE n = "round" /\ page' = [page EXCEPT !.round = a.r]
    <3>1. a.r.st # "CANCELLED"
      BY <1>3, <2>1 DEF AnswerTo, Running, Ongoing
    <3> HIDE DEF a
    <3> QED
      BY <1>2, <2>1, <3>1 DEF Page
  <2>2. CASE n = "wallet" /\ page' = [page EXCEPT !.wallet = a.v]
    <3> HIDE DEF a
    <3> QED
      BY <1>2, <2>2 DEF Page
  <2>3. CASE n = "bets" /\ HistoryEffect(a)
    <3>1. a \in AnswerTo("bets")
      BY <1>3, <2>3
    <3>2. \A b \in Bets : a.st[b] \in Settled => a.st[b] = bet[b].st
      BY <1>1, <2>3 DEF TabIInv, HistoryHolds
    <3>3. HistoryEffect(a)
      BY <2>3
    <3> HIDE DEF a
    <3> QED
      BY <3>1, <3>2, <3>3, HistoryLeavesRound
  <2> QED
    BY <1>4, <2>1, <2>2, <2>3
<1>6. CASE page'.round = page.round
  BY <1>1, <1>5, <1>6, QuietTab
<1>7. CASE page'.round.st # "CANCELLED"
  <2>1. Instances' = Instances /\ Budget' = Budget /\ Lost' = Lost
    BY <1>1, ScenarioStays DEF Lost
  <2>2. CancelledShowsNoResult'
    BY <1>7 DEF CancelledShowsNoResult
  <2>3. \A i \in Instances : Followed(Coming(i))'
    BY <1>1 DEF ResultIInv, Followed, RoundEvent, Coming
  <2> QED
    BY <1>1, <1>5, <2>1, <2>2, <2>3 DEF ResultIInv, Reaches
<1> QED
  BY <1>5, <1>6, <1>7

-----------------------------------------------------------------------------
(* The invariant of the results *)

LEMMA ResultInitHolds == ASSUME TabInit PROVE ResultIInv
<1>1. TabIInv
  BY TabInitHolds
<1>2. \A i \in Instances : lane[i] = <<>> /\ Coming(i) = <<>>
  <2>1. \A i \in Instances : lane[i] = <<>> /\ bus[i] = <<>>
    BY DEF TabInit
  <2>2. <<>> \in Seq({}) /\ <<>> \o <<>> = <<>>
    BY EmptySeq, ConcatEmptySeq
  <2> QED
    BY <2>1, <2>2 DEF Coming
<1>3. left = Budget /\ conn.up = FALSE /\ srv.at = "none" /\ srv.snap = NoSnapshot /\ page.last = 0
  BY DEF TabInit, EmptyPage
<1>4. left["drop"] <= Budget["drop"]
  BY <1>1, <1>3, DropCount
<1> QED
  BY <1>2, <1>3, <1>4, NothingFollows DEF ResultIInv, CancelledShowsNoResult, Reaches

LEMMA ResultStutters == ASSUME TabIInv, ResultIInv, UNCHANGED tabVars PROVE ResultIInv'
<1>1. UNCHANGED <<lane, bus, srv, conn, page, left, scenario>>
  BY DEF tabVars, state, net, tab
<1> QED
  BY <1>1, QuietTab

LEMMA ResultStepKeeps == ASSUME TabIInv, ResultIInv, [TabNext]_tabVars PROVE ResultIInv'
<1>1. CASE UNCHANGED tabVars
  BY <1>1, ResultStutters
<1>2. CASE TabNext
  <2> USE <1>2 DEF TabNext
  <2>1. UNCHANGED scenario
    OBVIOUS
  <2>2. CASE Game
    <3>1. CASE CreateNextRound \/ LockRound
      BY <2>1, <3>1, CreateSends
    <3>2. CASE ResolveRound \/ CompleteRound \/ AbandonRound
      BY <2>1, <3>2, QuietGame
    <3>3. CASE AnnounceRound
      BY <2>1, <3>3, AnnounceSends
    <3>4. CASE ForceStop
      BY <2>1, <3>4, StopSends
    <3>5. CASE SetPaused
      BY <2>1, <3>5, PauseSends
    <3>6. CASE \E b \in Bets, st \in {"WON", "LOST"} : SettleBet(b, st)
      BY <2>1, <3>6, SettleSends
    <3> QED
      BY <2>2, <3>1, <3>2, <3>3, <3>4, <3>5, <3>6 DEF Game
  <2>3. CASE Server
    <3>1. CASE SyncLatestState \/ StateSync
      BY <2>1, <3>1, SyncSends
    <3>2. CASE EmitSnapshot
      BY <2>1, <3>2, EmitSends
    <3>3. CASE HandlePlaceBet
      BY <2>1, <3>3, BetSends
    <3>4. CASE \E i \in AnyInstance : RouteAt(i)
      BY <2>1, <3>4, RouteSends DEF RouteAt
    <3> QED
      BY <2>3, <3>1, <3>2, <3>3, <3>4 DEF Server
  <2>4. CASE Browser
    <3>1. CASE Connect
      BY <2>1, <3>1, ConnectShows
    <3>2. CASE Drop
      BY <2>1, <3>2, DropShows
    <3>3. CASE Reload
      BY <2>1, <3>3, ReloadShows
    <3>4. CASE Resync \/ DismissSettlementNotice \/ Press \/ Timeout
      BY <2>1, <3>4, FormShows
    <3>5. CASE \E i \in AnyInstance : ReceiveFrom(i)
      BY <2>1, <3>5, ReceiveShows DEF ReceiveFrom
    <3>6. CASE \E n \in AnyQuery : Ask(n) \/ Get(n)
      BY <2>1, <3>6, FetchShows, ArriveShows DEF Ask, Get
    <3> QED
      BY <2>4, <3>1, <3>2, <3>3, <3>4, <3>5, <3>6 DEF Browser
  <2> QED
    BY <2>2, <2>3, <2>4
<1> QED
  BY <1>1, <1>2

\* "Round cancelled" never stands beside the result of an earlier round.  Beside its
\* own, which the engine announces for a round that was stopped while it resolved
\* it, only while the round's update is still on its way or after the connection
\* was lost.
THEOREM CancelledStandsAlone == TabSpec => []CancelledShowsNoResult
<1>1. TabInit => TabIInv /\ ResultIInv
  BY TabInitHolds, ResultInitHolds
<1>2. TabIInv /\ ResultIInv /\ [TabNext]_tabVars => (TabIInv /\ ResultIInv)'
  BY TabStepKeeps, ResultStepKeeps
<1>3. ResultIInv => CancelledShowsNoResult
  BY DEF ResultIInv
<1> QED
  BY <1>1, <1>2, <1>3, PTL DEF TabSpec

-----------------------------------------------------------------------------
(* PaymentPipeline *)

USE PaymentAssumption

\* What a step that only changes the status of outbox events keeps.
PayloadsKept ==
    \A t \in Txns : /\ outbox'[t].intent = outbox[t].intent
                    /\ outbox'[t].late = outbox[t].late
                    /\ outbox'[t].status # "NONE" <=> outbox[t].status # "NONE"

-----------------------------------------------------------------------------
(* Each conjunct is kept by a step that leaves alone what it is about *)

LEMMA ChargesKept ==
    ASSUME ChargesAreSane, UNCHANGED <<charges, request>>, expired \subseteq expired'
    PROVE  ChargesAreSane'
  BY DEF ChargesAreSane

\* A request that ends is about no charge.
LEMMA RequestEnds ==
    ASSUME TypeOK, ChargesAreSane, UNCHANGED <<charges, expired>>, NEW q \in Requests,
           request' = [request EXCEPT ![q] = Idle]
    PROVE  ChargesAreSane'
  BY DEF ChargesAreSane, TypeOK, Idle

LEMMA OutboxSame == ASSUME UNCHANGED outbox PROVE PayloadsKept
  BY DEF PayloadsKept

LEMMA RecordedKept ==
    ASSUME TypeOK, OneEventPerOrder, UNCHANGED <<recorded, charges>>, PayloadsKept
    PROVE  OneEventPerOrder'
<1>1. \A t \in Txns : EventRow(t)' = EventRow(t)
  BY DEF PayloadsKept, EventRow
<1>2. \A a \in recorded : a.txn \in Txns
  BY DEF TypeOK, Row
<1> QED
  BY <1>1, <1>2 DEF OneEventPerOrder, PayloadsKept

LEMMA LedgerKept ==
    ASSUME TypeOK, LedgerIsOfEvents, UNCHANGED ledger, PayloadsKept
    PROVE  LedgerIsOfEvents'
<1>1. \A t \in Txns : EventRow(t)' = EventRow(t)
  BY DEF PayloadsKept, EventRow
<1>2. \A a \in ledger : a.txn \in Txns
  BY DEF TypeOK, Row
<1> QED
  BY <1>1, <1>2 DEF LedgerIsOfEvents, PayloadsKept

LEMMA EventsKept ==
    ASSUME TypeOK, EventsAreCredited, UNCHANGED <<ledger, processed>>, PayloadsKept,
           \A i \in Intents : intent'[i].txn = intent[i].txn,
           \A w \in Workers :
              \/ worker'[w].at = "idle"
              \/ worker'[w] = worker[w]
              \/ /\ worker'[w].event \in Txns /\ outbox[worker'[w].event].status # "NONE"
                 /\ worker'[w].at # "ok",
           \A t \in orphans' : t \in Txns /\ outbox[t].status # "NONE"
    PROVE  EventsAreCredited'
<1>1. \A t \in Txns : EventRow(t)' = EventRow(t)
  BY DEF PayloadsKept, EventRow
<1>2. processed \subseteq Txns
  BY DEF TypeOK
<1>3. ASSUME NEW w \in Workers, worker'[w].at # "idle"
      PROVE  /\ worker'[w].event \in Txns /\ outbox'[worker'[w].event].status # "NONE"
             /\ worker'[w].at = "ok" => EventRow(worker[w].event)' \in ledger'
  <2>1. CASE worker'[w] = worker[w]
    <3>1. worker[w].event \in Txns /\ outbox[worker[w].event].status # "NONE"
      BY <1>3, <2>1 DEF EventsAreCredited
    <3>2. PICK t \in Txns : t = worker[w].event /\ outbox[t].status # "NONE"
      BY <3>1
    <3>3. worker[w].at = "ok" => EventRow(t) \in ledger
      BY <3>2 DEF EventsAreCredited
    <3>4. EventRow(t)' \in ledger' <=> EventRow(t) \in ledger
      BY <1>1
    <3>5. EventRow(worker[w].event)' = EventRow(t)'
      BY <2>1, <3>2 DEF EventRow
    <3> QED
      BY <2>1, <3>2, <3>3, <3>4, <3>5 DEF PayloadsKept
  <2>2. CASE worker'[w] # worker[w]
    BY <1>3, <2>2 DEF PayloadsKept
  <2> QED
    BY <2>1, <2>2
<1>4. /\ \A w \in Workers : worker'[w].at # "idle" =>
           worker'[w].event \in Txns /\ outbox'[worker'[w].event].status # "NONE"
      /\ \A w \in Workers : worker'[w].at = "ok" => EventRow(worker[w].event)' \in ledger'
  BY <1>3
<1>5. \A t \in orphans' : outbox'[t].status # "NONE"
  BY DEF PayloadsKept
<1>6. \A t \in processed' : EventRow(t)' \in ledger'
  BY <1>1, <1>2 DEF EventsAreCredited
<1>7. \A i \in Intents : intent'[i].txn # NoTxn => [txn |-> intent'[i].txn, intent |-> i] \in ledger'
  BY DEF EventsAreCredited
<1> QED
  BY <1>4, <1>5, <1>6, <1>7 DEF EventsAreCredited

LEMMA DepositKept ==
    ASSUME DepositFollowsCredit, UNCHANGED ledger,
           \A i \in Intents : deposit'[i] = "CREDITED" <=> deposit[i] = "CREDITED"
    PROVE  DepositFollowsCredit'
  BY DEF DepositFollowsCredit

LEMMA DeliveredKept ==
    ASSUME DeliveredIsCredited, UNCHANGED ledger, PayloadsKept,
           \A t \in Txns : outbox'[t].status = "DELIVERED" => outbox[t].status = "DELIVERED"
    PROVE  DeliveredIsCredited'
  BY DEF DeliveredIsCredited, PayloadsKept

\* A step of the main API's other requests, of checkout or of the environment that
\* changes neither events, deliveries nor credits.
LEMMA QuietStep ==
    ASSUME IInv, TypeOK', ChargesAreSane',
           UNCHANGED <<recorded, charges, ledger, processed, outbox, worker, orphans>>,
           \A i \in Intents : intent'[i].txn = intent[i].txn,
           \A i \in Intents : deposit'[i] = "CREDITED" <=> deposit[i] = "CREDITED"
    PROVE  IInv'
<1>1. /\ TypeOK /\ OneEventPerOrder /\ EventsAreCredited /\ LedgerIsOfEvents
      /\ DepositFollowsCredit /\ DeliveredIsCredited
  BY DEF IInv
<1>2. PayloadsKept
  BY OutboxSame
<1>3. EventsAreCredited'
  <2>1. \A t \in orphans' : t \in Txns /\ outbox[t].status # "NONE"
    BY <1>1 DEF EventsAreCredited, TypeOK
  <2> QED
    BY <1>1, <1>2, <2>1, EventsKept
<1> QED
  BY <1>1, <1>2, <1>3, RecordedKept, LedgerKept, DepositKept, DeliveredKept DEF IInv

-----------------------------------------------------------------------------
(* Types *)

LEMMA TypesKept == ASSUME IInv, Next PROVE TypeOK'
<1>1. TypeOK /\ ChargesAreSane /\ EventsAreCredited /\ OneEventPerOrder
  BY DEF IInv
<1> USE DEF mainVars, queueVars, orderVars
<1>2. ASSUME NEW i \in Intents, MainApi(i) \/ ExchangeSignedIntent(i) \/ Expire(i) PROVE TypeOK'
  <2>1. CASE CreateIntent(i)
    BY <1>1, <2>1 DEF CreateIntent, TypeOK, IntentStatus
  <2>2. CASE SaveDeposit(i)
    BY <1>1, <2>2 DEF SaveDeposit, TypeOK
  <2>3. CASE GetIntent(i)
    BY <1>1, <2>3 DEF GetIntent, TypeOK
  <2>4. CASE ExpireIntent(i)
    BY <1>1, <2>4 DEF ExpireIntent, TypeOK, IntentStatus
  <2>5. CASE \E s \in statements : s.intent = i /\ StatementLost(s)
    BY <1>1, <2>5 DEF StatementLost, TypeOK
  <2>6. CASE ExchangeSignedIntent(i)
    BY <1>1, <2>6 DEF ExchangeSignedIntent, TypeOK
  <2>7. CASE Expire(i)
    BY <1>1, <2>7 DEF Expire, TypeOK
  <2> QED
    BY <1>2, <2>1, <2>2, <2>3, <2>4, <2>5, <2>6, <2>7 DEF MainApi
<1>3. ASSUME NEW q \in Requests, Checkout(q) PROVE TypeOK'
  <2>1. ASSUME NEW i \in Intents, CreateProviderOrder(q, i) PROVE TypeOK'
    <3>1. order' \in [Intents -> Order]
      BY <1>1, <2>1 DEF CreateProviderOrder, TypeOK, Order
    <3>2. request' \in [Requests -> Request]
      BY <1>1, <2>1 DEF CreateProviderOrder, TypeOK, Idle, Request
    <3> QED
      BY <1>1, <2>1, <3>1, <3>2 DEF CreateProviderOrder, TypeOK
  <2>2. ASSUME NEW c \in charges, ReconcileOrder(q, c) PROVE TypeOK'
    <3>1. c.txn \in Txns /\ c.intent \in Intents /\ c.late \in BOOLEAN
      BY <1>1 DEF TypeOK, Charge
    <3>2. PICK late \in {c.late, c.intent \in expired} :
            request' = [request EXCEPT ![q] = [at |-> "record", intent |-> c.intent,
                                               txn |-> c.txn, late |-> late]]
      BY <2>2 DEF ReconcileOrder
    <3>3. late \in BOOLEAN
      <4>1. (c.intent \in expired) \in BOOLEAN
        OBVIOUS
      <4> QED
        BY <3>1, <3>2, <4>1, Zenon
    <3>4. request' \in [Requests -> Request]
      BY <1>1, <3>1, <3>2, <3>3 DEF TypeOK, Request
    <3> QED
      BY <1>1, <2>2, <3>4 DEF ReconcileOrder, TypeOK
  <2>3. CASE ProviderOrderCreated(q)
    <3>1. order' \in [Intents -> Order]
      BY <1>1, <2>3 DEF ProviderOrderCreated, TypeOK, Order
    <3>2. request' \in [Requests -> Request]
      BY <1>1, <2>3 DEF ProviderOrderCreated, TypeOK, Idle, Request
    <3> QED
      BY <1>1, <2>3, <3>1, <3>2 DEF ProviderOrderCreated, TypeOK
  <2>4. CASE RecordTransaction(q)
    <3>1. /\ request[q].txn \in Txns /\ request[q].intent \in Intents
          /\ request[q].late \in BOOLEAN
      BY <1>1, <2>4 DEF RecordTransaction, ChargesAreSane, TypeOK, Charge, Request
    <3>2. recorded' \subseteq Row
      BY <1>1, <2>4, <3>1 DEF RecordTransaction, TypeOK, Row
    <3>3. outbox' \in [Txns -> Event]
      BY <1>1, <2>4, <3>1 DEF RecordTransaction, TypeOK, OutboxStatus, Event
    <3>4. request' \in [Requests -> Request] /\ order' \in [Intents -> Order]
      BY <1>1, <2>4, <3>1 DEF RecordTransaction, TypeOK, Idle, Request, Order
    <3> QED
      BY <1>1, <2>4, <3>2, <3>3, <3>4 DEF RecordTransaction, TypeOK
  <2>5. CASE RequestFails(q)
    BY <1>1, <2>5 DEF RequestFails, TypeOK, Idle, Request
  <2> QED
    BY <1>3, <2>1, <2>2, <2>3, <2>4, <2>5 DEF Checkout
<1>4. ASSUME NEW t \in Txns, outbox[t].status # "NONE", ProcessVerifiedEvent(t)
      PROVE  /\ intent' \in [Intents -> [status : IntentStatus, txn : Txns \cup {NoTxn}]]
             /\ deposit' \in [Intents -> {"NONE", "INTENT_CREATED", "CREDITED"}]
             /\ processed' \subseteq Txns
             /\ ledger' \subseteq Row
  <2>1. outbox[t].intent \in Intents
    BY <1>1, <1>4 DEF OneEventPerOrder, TypeOK, EventRow, Row
  <2> QED
    BY <1>1, <1>4, <2>1 DEF ProcessVerifiedEvent, TypeOK, IntentStatus, Row
<1>5. ASSUME NEW w \in Workers, worker[w].at # "idle"
      PROVE  worker[w].event \in Txns /\ outbox[worker[w].event].status # "NONE"
  BY <1>1, <1>5 DEF EventsAreCredited
<1>6. ASSUME NEW w \in Workers, Delivery(w) PROVE TypeOK'
  <2>1. ASSUME NEW t \in Txns, Claim(w, t) PROVE TypeOK'
    <3>1. outbox' \in [Txns -> Event]
      BY <1>1, <2>1 DEF Claim, TypeOK, OutboxStatus, Event
    <3>2. worker' \in [Workers -> Worker]
      BY <1>1, <2>1 DEF Claim, TypeOK, Worker, Resting
    <3> QED
      BY <1>1, <2>1, <3>1, <3>2 DEF Claim, TypeOK
  <2>2. CASE Handle(w)
    <3>1. PICK t \in Txns : t = worker[w].event /\ outbox[t].status # "NONE"
      BY <1>5, <2>2 DEF Handle
    <3>2. ProcessVerifiedEvent(t)
      BY <2>2, <3>1 DEF Handle
    <3>3. worker' \in [Workers -> Worker]
      BY <1>1, <2>2 DEF Handle, TypeOK, Worker
    <3> QED
      BY <1>1, <1>4, <2>2, <3>1, <3>2, <3>3 DEF Handle, TypeOK
  <2>3. CASE DeliveryFails(w)
    <3>1. orphans' \subseteq Txns
      BY <1>1, <1>5, <2>3 DEF DeliveryFails, AnswerLost, TypeOK
    <3>2. faults' \in 0 .. MaxFaults
      BY <1>1, <2>3 DEF DeliveryFails, TypeOK
    <3>3. worker' \in [Workers -> Worker]
      BY <1>1, <2>3 DEF DeliveryFails, TypeOK, Worker
    <3> QED
      BY <1>1, <2>3, <3>1, <3>2, <3>3 DEF DeliveryFails, TypeOK
  <2>4. CASE MarkDelivered(w)
    <3>1. outbox' \in [Txns -> Event]
      <4>1. PICK t \in Txns : t = worker[w].event
        BY <1>5, <2>4 DEF MarkDelivered
      <4>2. outbox' = [outbox EXCEPT ![t].status = "DELIVERED", ![t].leased = FALSE]
        BY <2>4, <4>1 DEF MarkDelivered
      <4>3. outbox \in [Txns -> Event]
        BY <1>1 DEF TypeOK
      <4>4. \A s \in Txns : outbox'[s] \in Event
        BY <4>2, <4>3 DEF OutboxStatus, Event
      <4>5. outbox' = [s \in Txns |-> outbox'[s]]
        BY <4>2, <4>3
      <4> QED
        BY <4>4, <4>5
    <3>2. worker' \in [Workers -> Worker]
      BY <1>1, <2>4 DEF MarkDelivered, TypeOK, Worker, Resting
    <3> QED
      BY <1>1, <2>4, <3>1, <3>2 DEF MarkDelivered, TypeOK
  <2>5. CASE MarkFailed(w)
    <3>1. outbox' \in [Txns -> Event]
      <4>1. PICK t \in Txns : t = worker[w].event
        BY <1>5, <2>5 DEF MarkFailed
      <4>2. outbox' = [outbox EXCEPT ![t].status = "PENDING", ![t].leased = FALSE]
        BY <2>5, <4>1 DEF MarkFailed
      <4>3. outbox \in [Txns -> Event]
        BY <1>1 DEF TypeOK
      <4>4. \A s \in Txns : outbox'[s] \in Event
        BY <4>2, <4>3 DEF OutboxStatus, Event
      <4>5. outbox' = [s \in Txns |-> outbox'[s]]
        BY <4>2, <4>3
      <4> QED
        BY <4>4, <4>5
    <3>2. worker' \in [Workers -> Worker]
      BY <1>1, <2>5 DEF MarkFailed, TypeOK, Worker, Resting
    <3> QED
      BY <1>1, <2>5, <3>1, <3>2 DEF MarkFailed, TypeOK
  <2>6. CASE DeliveryCrashes(w)
    <3>1. orphans' \subseteq Txns
      BY <1>1, <1>5, <2>6 DEF DeliveryCrashes, AnswerLost, TypeOK
    <3>2. faults' \in 0 .. MaxFaults
      BY <1>1, <2>6 DEF DeliveryCrashes, TypeOK
    <3>3. worker' \in [Workers -> Worker]
      BY <1>1, <2>6 DEF DeliveryCrashes, TypeOK, Worker, Resting
    <3> QED
      BY <1>1, <2>6, <3>1, <3>2, <3>3 DEF DeliveryCrashes, TypeOK
  <2> QED
    BY <1>6, <2>1, <2>2, <2>3, <2>4, <2>5, <2>6 DEF Delivery
<1>7. ASSUME NEW t \in Txns, HandleOrphan(t) \/ LeaseExpires(t) PROVE TypeOK'
  <2>1. CASE HandleOrphan(t)
    <3>1. outbox[t].status # "NONE" /\ ProcessVerifiedEvent(t)
      BY <1>1, <2>1 DEF HandleOrphan, EventsAreCredited
    <3> QED
      BY <1>1, <1>4, <2>1, <3>1 DEF HandleOrphan, TypeOK
  <2>2. CASE LeaseExpires(t)
    <3>1. outbox' \in [Txns -> Event]
      BY <1>1, <2>2 DEF LeaseExpires, TypeOK, Event
    <3> QED
      BY <1>1, <2>2, <3>1 DEF LeaseExpires, TypeOK
  <2> QED
    BY <1>7, <2>1, <2>2
<1>8. ASSUME NEW i \in Intents, NEW t \in Txns, Pay(i, t) PROVE TypeOK'
  <2>1. (i \in expired) \in BOOLEAN
    OBVIOUS
  <2>2. [txn |-> t, intent |-> i, late |-> i \in expired] \in Charge
    BY <2>1 DEF Charge
  <2> QED
    BY <1>1, <1>8, <2>2 DEF Pay, TypeOK
<1> QED
  BY <1>2, <1>3, <1>6, <1>7, <1>8 DEF Next

-----------------------------------------------------------------------------
(* The steps that matter *)

\* processVerifiedEvent: whatever it answers, the ledger grows by at most the
\* event's own row, and an accepted event is in it.
LEMMA Processing ==
    ASSUME IInv, NEW t \in Txns, outbox[t].status # "NONE", ProcessVerifiedEvent(t), UNCHANGED outbox
    PROVE  /\ ledger \subseteq ledger'
           /\ Accepted(t) => EventRow(t) \in ledger'
           /\ \A s \in processed' : EventRow(s)' \in ledger'
           /\ \A i \in Intents : intent'[i].txn # NoTxn => [txn |-> intent'[i].txn, intent |-> i] \in ledger'
           /\ LedgerIsOfEvents'
           /\ DepositFollowsCredit'
<1>1. /\ TypeOK /\ OneEventPerOrder /\ EventsAreCredited /\ LedgerIsOfEvents /\ DepositFollowsCredit
  BY DEF IInv
<1>2. PICK i \in Intents : i = outbox[t].intent
  BY <1>1 DEF OneEventPerOrder, EventRow, TypeOK, Row
<1>3. EventRow(t) = [txn |-> t, intent |-> i] /\ \A s \in Txns : EventRow(s)' = EventRow(s)
  BY <1>2 DEF EventRow
<1>4. CASE ~Seen(t) /\ Creditable(t)
  <2>1. /\ ledger' = ledger \cup {[txn |-> t, intent |-> i]}
        /\ intent' = [intent EXCEPT ![i] = [status |-> "CREDITED", txn |-> t]]
        /\ processed' = processed \cup {t}
        /\ deposit' = IF i \in RealMoney THEN [deposit EXCEPT ![i] = "CREDITED"] ELSE deposit
    BY <1>2, <1>4 DEF ProcessVerifiedEvent, Accepted
  <2>2. \A s \in processed' : EventRow(s)' \in ledger'
    BY <1>1, <1>3, <2>1 DEF EventsAreCredited, TypeOK
  <2>3. \A j \in Intents : intent'[j].txn # NoTxn => [txn |-> intent'[j].txn, intent |-> j] \in ledger'
    BY <1>1, <2>1 DEF EventsAreCredited, TypeOK
  <2>4. LedgerIsOfEvents'
    <3>1. ~outbox[t].late
      BY <1>4 DEF Creditable
    <3>2. ASSUME NEW a \in ledger'
          PROVE  outbox'[a.txn].status # "NONE" /\ EventRow(a.txn)' = a /\ ~outbox'[a.txn].late
      <4>1. CASE a \in ledger
        BY <1>1, <1>3, <4>1 DEF LedgerIsOfEvents, TypeOK, Row
      <4>2. CASE a = [txn |-> t, intent |-> i]
        BY <1>3, <3>1, <4>2
      <4> QED
        BY <2>1, <4>1, <4>2
    <3> QED
      BY <3>2 DEF LedgerIsOfEvents
  <2>5. DepositFollowsCredit'
    <3>1. ASSUME NEW j \in RealMoney
          PROVE  deposit'[j] = "CREDITED" <=> \E a \in ledger' : a.intent = j
      <4>1. CASE j = i
        <5>1. deposit'[j] = "CREDITED"
          BY <1>1, <2>1, <4>1 DEF TypeOK
        <5>2. [txn |-> t, intent |-> i] \in ledger' /\ [txn |-> t, intent |-> i].intent = j
          BY <2>1, <4>1
        <5> QED
          BY <5>1, <5>2
      <4>2. CASE j # i
        <5>1. deposit'[j] = deposit[j]
          BY <1>1, <2>1, <4>2 DEF TypeOK
        <5>2. (\E a \in ledger' : a.intent = j) <=> (\E a \in ledger : a.intent = j)
          BY <2>1, <4>2
        <5> QED
          BY <1>1, <5>1, <5>2 DEF DepositFollowsCredit
      <4> QED
        BY <4>1, <4>2
    <3> QED
      BY <3>1 DEF DepositFollowsCredit
  <2> QED
    BY <1>3, <2>1, <2>2, <2>3, <2>4, <2>5
<1>5. CASE ~(~Seen(t) /\ Creditable(t))
  <2>1. /\ UNCHANGED <<ledger, intent, deposit>>
        /\ processed' = IF Accepted(t) THEN processed \cup {t} ELSE processed
    BY <1>5 DEF ProcessVerifiedEvent
  <2>2. Accepted(t) => EventRow(t) \in ledger
    <3>1. CASE Seen(t)
      BY <1>1, <3>1 DEF Seen, EventsAreCredited
    <3>2. CASE SameTxn(t)
      BY <1>1, <1>2, <1>3, <3>2 DEF SameTxn, EventsAreCredited
    <3> QED
      BY <1>5, <3>1, <3>2 DEF Accepted
  <2>3. \A s \in processed' : EventRow(s)' \in ledger'
    BY <1>1, <1>3, <2>1, <2>2 DEF EventsAreCredited, TypeOK
  <2>4. LedgerIsOfEvents'
    BY <1>1, <2>1, OutboxSame, LedgerKept
  <2>5. DepositFollowsCredit'
    BY <1>1, <2>1 DEF DepositFollowsCredit
  <2> QED
    BY <1>1, <2>1, <2>2, <2>3, <2>4, <2>5 DEF EventsAreCredited
<1> QED
  BY <1>4, <1>5

\* A delivery that is neither idle nor changed keeps its event; the others rest.
LEMMA HandleKeeps == ASSUME IInv, TypeOK', NEW w \in Workers, Handle(w) PROVE IInv'
<1>1. /\ TypeOK /\ ChargesAreSane /\ OneEventPerOrder /\ EventsAreCredited
      /\ DeliveredIsCredited
  BY DEF IInv
<1>2. /\ UNCHANGED <<outbox, orphans, charges, expired, request, recorded>> /\ worker[w].at = "posted"
  BY DEF Handle, orderVars
<1>3. PICK t \in Txns : t = worker[w].event /\ outbox[t].status # "NONE"
  BY <1>1, <1>2 DEF EventsAreCredited
<1>4. /\ ProcessVerifiedEvent(t)
      /\ worker' = [worker EXCEPT ![w].at = IF Accepted(t) THEN "ok" ELSE "failed"]
  BY <1>3 DEF Handle
<1>5. /\ ledger \subseteq ledger'
      /\ Accepted(t) => EventRow(t) \in ledger'
      /\ \A s \in processed' : EventRow(s)' \in ledger'
      /\ \A i \in Intents : intent'[i].txn # NoTxn => [txn |-> intent'[i].txn, intent |-> i] \in ledger'
      /\ LedgerIsOfEvents' /\ DepositFollowsCredit'
  BY <1>2, <1>3, <1>4, Processing
<1>6. ASSUME NEW v \in Workers
      PROVE  /\ worker'[v].at # "idle" =>
                  worker'[v].event \in Txns /\ outbox'[worker'[v].event].status # "NONE"
             /\ worker'[v].at = "ok" => EventRow(worker[v].event)' \in ledger'
  <2>1. CASE v = w
    <3>1. worker'[v].event = t /\ (worker'[v].at = "ok" => Accepted(t))
      BY <1>1, <1>3, <1>4, <2>1 DEF TypeOK, Worker
    <3> QED
      BY <1>2, <1>3, <1>5, <3>1 DEF EventRow
  <2>2. CASE v # w
    <3>1. worker'[v] = worker[v]
      BY <1>1, <1>4, <2>2 DEF TypeOK
    <3> QED
      BY <1>1, <1>2, <1>5, <3>1 DEF EventsAreCredited, EventRow
  <2> QED
    BY <2>1, <2>2
<1>7. EventsAreCredited'
  <2>1. \A s \in orphans' : outbox'[s].status # "NONE"
    BY <1>1, <1>2 DEF EventsAreCredited
  <2> QED
    BY <1>5, <1>6, <2>1 DEF EventsAreCredited
<1>8. DeliveredIsCredited'
  BY <1>1, <1>2, <1>5 DEF DeliveredIsCredited
<1> QED
  BY <1>1, <1>2, <1>5, <1>7, <1>8, ChargesKept, RecordedKept, OutboxSame DEF IInv

LEMMA HandleOrphanKeeps == ASSUME IInv, TypeOK', NEW t \in Txns, HandleOrphan(t) PROVE IInv'
<1>1. /\ TypeOK /\ ChargesAreSane /\ OneEventPerOrder /\ EventsAreCredited
      /\ DeliveredIsCredited
  BY DEF IInv
<1>2. /\ UNCHANGED <<outbox, worker, charges, expired, request, recorded>>
      /\ orphans' \subseteq orphans /\ ProcessVerifiedEvent(t)
  BY DEF HandleOrphan, orderVars
<1>3. outbox[t].status # "NONE"
  BY <1>1 DEF EventsAreCredited, HandleOrphan
<1>5. /\ ledger \subseteq ledger'
      /\ \A s \in processed' : EventRow(s)' \in ledger'
      /\ \A i \in Intents : intent'[i].txn # NoTxn => [txn |-> intent'[i].txn, intent |-> i] \in ledger'
      /\ LedgerIsOfEvents' /\ DepositFollowsCredit'
  BY <1>2, <1>3, Processing
<1>6. /\ \A v \in Workers : worker'[v].at # "idle" =>
           worker'[v].event \in Txns /\ outbox'[worker'[v].event].status # "NONE"
      /\ \A v \in Workers : worker'[v].at = "ok" => EventRow(worker[v].event)' \in ledger'
      /\ \A s \in orphans' : outbox'[s].status # "NONE"
  BY <1>1, <1>2, <1>5 DEF EventsAreCredited, EventRow
<1>7. EventsAreCredited'
  BY <1>5, <1>6 DEF EventsAreCredited
<1>8. DeliveredIsCredited'
  BY <1>1, <1>2, <1>5 DEF DeliveredIsCredited
<1> QED
  BY <1>1, <1>2, <1>5, <1>7, <1>8, ChargesKept, RecordedKept, OutboxSame DEF IInv

\* The deliveries' other steps: events, payloads and credits stay; the status of
\* one event changes, to DELIVERED only after the answer 200.
LEMMA DeliveryStep ==
    ASSUME IInv, TypeOK', PayloadsKept, NEW w \in Workers,
           UNCHANGED <<charges, expired, request, recorded, ledger, processed, intent, deposit>>,
           \/ UNCHANGED worker
           \/ worker' = [worker EXCEPT ![w] = Resting]
           \/ worker[w].at # "idle" /\ worker' = [worker EXCEPT ![w].at = "failed"]
           \/ \E t \in Txns : /\ outbox[t].status # "NONE"
                              /\ worker' = [worker EXCEPT ![w] = [at |-> "posted", event |-> t]],
           \A t \in orphans' : \/ t \in orphans
                               \/ worker[w].at # "idle" /\ t = worker[w].event,
           \A t \in Txns : outbox'[t].status = "DELIVERED" =>
               \/ outbox[t].status = "DELIVERED"
               \/ worker[w].at = "ok" /\ worker[w].event = t
    PROVE  IInv'
<1>1. /\ TypeOK /\ ChargesAreSane /\ OneEventPerOrder /\ EventsAreCredited /\ LedgerIsOfEvents
      /\ DepositFollowsCredit /\ DeliveredIsCredited
  BY DEF IInv
<1>2. worker[w].at # "idle" => worker[w].event \in Txns /\ outbox[worker[w].event].status # "NONE"
  BY <1>1 DEF EventsAreCredited
<1>3. ASSUME NEW v \in Workers
      PROVE  \/ worker'[v].at = "idle"
             \/ worker'[v] = worker[v]
             \/ /\ worker'[v].event \in Txns /\ outbox[worker'[v].event].status # "NONE"
                /\ worker'[v].at # "ok"
  <2>1. worker \in [Workers -> Worker]
    BY <1>1 DEF TypeOK
  <2>2. v # w => worker'[v] = worker[v]
    BY <2>1
  <2>3. CASE worker' = [worker EXCEPT ![w] = Resting]
    BY <2>1, <2>2, <2>3 DEF Resting
  <2>4. CASE worker[w].at # "idle" /\ worker' = [worker EXCEPT ![w].at = "failed"]
    <3>1. worker'[w].event = worker[w].event /\ worker'[w].at = "failed"
      BY <2>1, <2>4 DEF Worker
    <3> QED
      BY <1>2, <2>2, <2>4, <3>1
  <2>5. CASE \E t \in Txns : /\ outbox[t].status # "NONE"
                             /\ worker' = [worker EXCEPT ![w] = [at |-> "posted", event |-> t]]
    BY <2>1, <2>2, <2>5
  <2> QED
    BY <2>3, <2>4, <2>5
<1>4. \A t \in orphans' : t \in Txns /\ outbox[t].status # "NONE"
  BY <1>1, <1>2 DEF EventsAreCredited, TypeOK
<1>5. EventsAreCredited'
  BY <1>1, <1>3, <1>4, EventsKept
<1>6. DeliveredIsCredited'
  <2>1. ASSUME NEW t \in Txns, outbox'[t].status = "DELIVERED"
        PROVE  [txn |-> t, intent |-> outbox[t].intent] \in ledger
    <3>1. CASE outbox[t].status = "DELIVERED"
      BY <1>1, <3>1 DEF DeliveredIsCredited
    <3>2. CASE worker[w].at = "ok" /\ worker[w].event = t
      BY <1>1, <3>2 DEF EventsAreCredited, EventRow
    <3> QED
      BY <2>1, <3>1, <3>2
  <2> QED
    BY <2>1 DEF DeliveredIsCredited, PayloadsKept
<1>7. ChargesAreSane' /\ OneEventPerOrder' /\ LedgerIsOfEvents' /\ DepositFollowsCredit'
  BY <1>1, ChargesKept, RecordedKept, LedgerKept, DepositKept
<1> QED
  BY <1>5, <1>6, <1>7 DEF IInv

LEMMA DeliveryKeeps == ASSUME IInv, TypeOK', NEW w \in Workers, Delivery(w) PROVE IInv'
<1>1. TypeOK /\ EventsAreCredited
  BY DEF IInv
<1>2. outbox \in [Txns -> Event] /\ worker \in [Workers -> Worker]
  BY <1>1 DEF TypeOK
<1>3. worker[w].at # "idle" => worker[w].event \in Txns /\ outbox[worker[w].event].status # "NONE"
  BY <1>1 DEF EventsAreCredited
<1> USE DEF mainVars, orderVars
<1>4. ASSUME NEW t \in Txns, Claim(w, t) PROVE IInv'
  <2>1. PayloadsKept /\ \A s \in Txns : outbox'[s].status = "DELIVERED" => outbox[s].status = "DELIVERED"
    BY <1>2, <1>4 DEF Claim, PayloadsKept, Event
  <2>2. outbox[t].status # "NONE" /\ worker' = [worker EXCEPT ![w] = [at |-> "posted", event |-> t]]
    BY <1>4 DEF Claim
  <2> QED
    BY <1>4, <2>1, <2>2, DeliveryStep DEF Claim
<1>5. CASE Handle(w)
  BY <1>5, HandleKeeps
<1>6. CASE DeliveryFails(w)
  <2>1. PayloadsKept /\ \A s \in Txns : outbox'[s].status = "DELIVERED" => outbox[s].status = "DELIVERED"
    BY <1>6, OutboxSame DEF DeliveryFails
  <2>2. \A t \in orphans' : t \in orphans \/ (worker[w].at # "idle" /\ t = worker[w].event)
    BY <1>6 DEF DeliveryFails, AnswerLost
  <2> QED
    BY <1>6, <2>1, <2>2, DeliveryStep DEF DeliveryFails
<1>7. ASSUME MarkDelivered(w) \/ MarkFailed(w) PROVE IInv'
  <2>1. PICK t \in Txns, st \in {"DELIVERED", "PENDING"} :
          /\ t = worker[w].event /\ outbox[t].status # "NONE"
          /\ outbox' = [outbox EXCEPT ![t].status = st, ![t].leased = FALSE]
          /\ st = "DELIVERED" => worker[w].at = "ok"
    BY <1>3, <1>7 DEF MarkDelivered, MarkFailed
  <2>2. PayloadsKept
    BY <1>2, <2>1 DEF PayloadsKept, Event
  <2>3. \A s \in Txns : outbox'[s].status = "DELIVERED" =>
           outbox[s].status = "DELIVERED" \/ (worker[w].at = "ok" /\ worker[w].event = s)
    BY <1>2, <2>1 DEF Event
  <2> QED
    BY <1>7, <2>2, <2>3, DeliveryStep DEF MarkDelivered, MarkFailed
<1>8. CASE DeliveryCrashes(w)
  <2>1. PayloadsKept /\ \A s \in Txns : outbox'[s].status = "DELIVERED" => outbox[s].status = "DELIVERED"
    BY <1>8, OutboxSame DEF DeliveryCrashes
  <2>2. \A t \in orphans' : t \in orphans \/ (worker[w].at # "idle" /\ t = worker[w].event)
    BY <1>8 DEF DeliveryCrashes, AnswerLost
  <2> QED
    BY <1>8, <2>1, <2>2, DeliveryStep DEF DeliveryCrashes
<1> QED
  BY <1>4, <1>5, <1>6, <1>7, <1>8 DEF Delivery

\* Requests that touch intents, deposits and sessions only.
LEMMA MainApiKeeps ==
    ASSUME IInv, TypeOK', NEW i \in Intents, MainApi(i) \/ ExchangeSignedIntent(i) \/ Expire(i)
    PROVE  IInv'
<1>1. TypeOK /\ ChargesAreSane
  BY DEF IInv
<1> USE DEF mainVars, orderVars, queueVars
<1>2. UNCHANGED <<recorded, charges, ledger, processed, outbox, worker, orphans, request>>
  BY DEF MainApi, CreateIntent, SaveDeposit, GetIntent, ExpireIntent, StatementLost,
         ExchangeSignedIntent, Expire
<1>0. expired \subseteq expired'
  BY DEF MainApi, CreateIntent, SaveDeposit, GetIntent, ExpireIntent, StatementLost,
         ExchangeSignedIntent, Expire
<1>3. /\ \A j \in Intents : intent'[j].txn = intent[j].txn
      /\ \A j \in Intents : deposit'[j] = "CREDITED" <=> deposit[j] = "CREDITED"
  <2>0. /\ intent \in [Intents -> [status : IntentStatus, txn : Txns \cup {NoTxn}]]
        /\ deposit \in [Intents -> {"NONE", "INTENT_CREATED", "CREDITED"}]
    BY <1>1 DEF TypeOK
  <2>1. CASE CreateIntent(i)
    BY <2>0, <2>1 DEF CreateIntent
  <2>2. CASE SaveDeposit(i)
    BY <2>0, <2>2 DEF SaveDeposit
  <2>3. CASE ExpireIntent(i)
    BY <2>0, <2>3 DEF ExpireIntent
  <2>4. CASE UNCHANGED <<intent, deposit>>
    BY <2>4
  <2> QED
    BY <2>1, <2>2, <2>3, <2>4 DEF MainApi, GetIntent, StatementLost, ExchangeSignedIntent, Expire
<1> QED
  BY <1>0, <1>1, <1>2, <1>3, ChargesKept, QuietStep

\* The payment is recorded: either nothing but the order's status changes, or the
\* order and the transaction are both new and no delivery, credit or remembered
\* event can be about them.
LEMMA RecordTransactionKeeps ==
    ASSUME IInv, TypeOK', NEW q \in Requests, RecordTransaction(q)
    PROVE  IInv'
<1>1. /\ TypeOK /\ ChargesAreSane /\ OneEventPerOrder /\ EventsAreCredited /\ LedgerIsOfEvents
      /\ DepositFollowsCredit /\ DeliveredIsCredited
  BY DEF IInv
<1>2. /\ request' = [request EXCEPT ![q] = Idle] /\ request[q].at = "record"
      /\ UNCHANGED <<charges, expired, worker, orphans, intent, deposit, processed, ledger>>
  BY DEF RecordTransaction, mainVars
<1>0. PICK c \in charges : /\ c.txn = request[q].txn /\ c.intent = request[q].intent
                           /\ c.late => request[q].late
  BY <1>1, <1>2 DEF ChargesAreSane
<1>10. c.txn \in Txns /\ c.intent \in Intents
  BY <1>1 DEF TypeOK, Charge
<1>11. PICK t \in Txns, i \in Intents : t = request[q].txn /\ i = request[q].intent
  BY <1>0, <1>10
<1> DEFINE known == \E r \in recorded : r.txn = t
           conflict == ~known /\ OtherTxnRecorded(i, t)
           new == [txn |-> t, intent |-> i]
<1>3. ChargesAreSane'
  BY <1>1, <1>2, RequestEnds
<1>4. CASE known \/ conflict
  <2>1. UNCHANGED <<recorded, outbox>>
    BY <1>11, <1>4 DEF RecordTransaction
  <2> QED
    BY <1>2, <1>3, <2>1, QuietStep
<1>5. CASE ~(known \/ conflict)
  <2>3. /\ recorded' = recorded \cup {new}
        /\ outbox' = [outbox EXCEPT ![t] = [status |-> "PENDING", leased |-> FALSE,
                                            intent |-> i, late |-> request[q].late]]
    BY <1>11, <1>5 DEF RecordTransaction
  <2>4. \A r \in recorded : r.txn # t /\ r.intent # i
    BY <1>5 DEF OtherTxnRecorded
  <2>5. outbox[t].status = "NONE"
    BY <1>1, <2>4 DEF OneEventPerOrder, EventRow
  <2>6. /\ outbox'[t].status = "PENDING" /\ outbox'[t].intent = i
        /\ outbox'[t].late = request[q].late /\ EventRow(t)' = new
    BY <1>1, <2>3 DEF TypeOK, EventRow
  <2>7. \A s \in Txns : s # t => outbox'[s] = outbox[s] /\ EventRow(s)' = EventRow(s)
    BY <1>1, <2>3 DEF TypeOK, EventRow
  <2>8. OneEventPerOrder'
    <3>1. \A a, b \in recorded' : a.intent = b.intent => a = b
      BY <1>1, <2>3, <2>4 DEF OneEventPerOrder
    <3>2. ASSUME NEW s \in Txns, outbox'[s].status # "NONE"
          PROVE  /\ EventRow(s)' \in recorded'
                 /\ \E d \in charges' : /\ d.txn = s /\ d.intent = outbox'[s].intent
                                        /\ d.late => outbox'[s].late
      <4>1. CASE s = t
        <5>1. EventRow(s)' \in recorded' /\ c \in charges'
          BY <1>2, <2>3, <2>6, <4>1
        <5>2. c.txn = s /\ c.intent = outbox'[s].intent /\ (c.late => outbox'[s].late)
          BY <1>0, <1>11, <2>6, <4>1
        <5> QED
          BY <5>1, <5>2, Zenon
      <4>2. CASE s # t
        <5>1. EventRow(s)' = EventRow(s) /\ outbox'[s] = outbox[s] /\ recorded \subseteq recorded'
          BY <2>3, <2>7, <4>2
        <5>2. /\ EventRow(s) \in recorded
              /\ \E d \in charges : /\ d.txn = s /\ d.intent = outbox[s].intent
                                    /\ d.late => outbox[s].late
          BY <1>1, <3>2, <5>1, Zenon DEF OneEventPerOrder
        <5> QED
          BY <1>2, <5>1, <5>2, Zenon
      <4> QED
        BY <4>1, <4>2
    <3>3. ASSUME NEW a \in recorded' PROVE outbox'[a.txn].status # "NONE" /\ EventRow(a.txn)' = a
      <4>1. CASE a = new
        BY <2>6, <4>1
      <4>2. CASE a \in recorded
        <5>1. a.txn \in Txns /\ a.txn # t
          BY <1>1, <2>4, <4>2 DEF TypeOK, Row
        <5> QED
          BY <1>1, <2>7, <4>2, <5>1 DEF OneEventPerOrder
      <4> QED
        BY <2>3, <4>1, <4>2
    <3> QED
      BY <3>1, <3>2, <3>3 DEF OneEventPerOrder
  <2>9. ASSUME NEW a \in ledger PROVE a.txn \in Txns /\ a.txn # t
    BY <1>1, <2>5 DEF LedgerIsOfEvents, TypeOK, Row
  <2>10. LedgerIsOfEvents'
    BY <1>1, <1>2, <2>7, <2>9 DEF LedgerIsOfEvents
  <2>11. EventsAreCredited'
    <3>1. ASSUME NEW w \in Workers, worker'[w].at # "idle"
          PROVE  /\ worker'[w].event \in Txns /\ outbox'[worker'[w].event].status # "NONE"
                 /\ worker'[w].at = "ok" => EventRow(worker[w].event)' \in ledger'
      <4>1. PICK s \in Txns : s = worker[w].event /\ outbox[s].status # "NONE"
        BY <1>1, <1>2, <3>1 DEF EventsAreCredited
      <4>2. outbox'[s] = outbox[s] /\ EventRow(s)' = EventRow(s)
        BY <2>5, <2>7, <4>1
      <4>3. EventRow(worker[w].event)' = EventRow(s)' /\ EventRow(worker[w].event) = EventRow(s)
        BY <1>2, <4>1 DEF EventRow
      <4> QED
        BY <1>1, <1>2, <4>1, <4>2, <4>3 DEF EventsAreCredited
    <3>2. \A s \in orphans' : outbox'[s].status # "NONE"
      BY <1>1, <1>2, <2>5, <2>7 DEF EventsAreCredited, TypeOK
    <3>3. ASSUME NEW s \in processed' PROVE EventRow(s)' \in ledger'
      <4>1. s \in Txns /\ EventRow(s) \in ledger
        BY <1>1, <1>2, <3>3 DEF EventsAreCredited, TypeOK
      <4>2. s # t
        BY <2>9, <4>1 DEF EventRow
      <4> QED
        BY <1>2, <2>7, <4>1, <4>2
    <3>4. \A j \in Intents : intent'[j].txn # NoTxn => [txn |-> intent'[j].txn, intent |-> j] \in ledger'
      BY <1>1, <1>2 DEF EventsAreCredited
    <3>5. /\ \A w \in Workers : worker'[w].at # "idle" =>
               worker'[w].event \in Txns /\ outbox'[worker'[w].event].status # "NONE"
          /\ \A w \in Workers : worker'[w].at = "ok" => EventRow(worker[w].event)' \in ledger'
      BY <3>1
    <3> QED
      BY <3>2, <3>3, <3>4, <3>5 DEF EventsAreCredited
  <2>12. DeliveredIsCredited'
    BY <1>1, <1>2, <2>6, <2>7 DEF DeliveredIsCredited
  <2>13. DepositFollowsCredit'
    BY <1>1, <1>2, DepositKept
  <2> QED
    BY <1>3, <2>8, <2>10, <2>11, <2>12, <2>13 DEF IInv
<1> QED
  BY <1>4, <1>5

LEMMA CheckoutKeeps == ASSUME IInv, TypeOK', NEW q \in Requests, Checkout(q) PROVE IInv'
<1>1. TypeOK /\ ChargesAreSane
  BY DEF IInv
<1> USE DEF mainVars, queueVars
<1>2. ASSUME NEW i \in Intents, CreateProviderOrder(q, i) PROVE IInv'
  <2>1. ChargesAreSane'
    BY <1>1, <1>2 DEF CreateProviderOrder, ChargesAreSane, TypeOK, Idle
  <2> QED
    BY <1>2, <2>1, QuietStep DEF CreateProviderOrder
<1>3. ASSUME NEW c \in charges, ReconcileOrder(q, c) PROVE IInv'
  <2>1. c.late \in BOOLEAN
    BY <1>1 DEF TypeOK, Charge
  <2>2. PICK late \in {c.late, c.intent \in expired} :
          request' = [request EXCEPT ![q] = [at |-> "record", intent |-> c.intent,
                                             txn |-> c.txn, late |-> late]]
    BY <1>3 DEF ReconcileOrder
  <2>3. c.late => late
    BY <1>1, <2>1 DEF ChargesAreSane
  <2>4. ChargesAreSane'
    <3>1. UNCHANGED <<charges, expired>>
      BY <1>3 DEF ReconcileOrder
    <3>2. request \in [Requests -> Request]
      BY <1>1 DEF TypeOK
    <3> QED
      BY <1>1, <2>2, <2>3, <3>1, <3>2 DEF ChargesAreSane
  <2> QED
    BY <1>3, <2>4, QuietStep DEF ReconcileOrder
<1>4. CASE ProviderOrderCreated(q) \/ RequestFails(q)
  <2>1. request' = [request EXCEPT ![q] = Idle] /\ UNCHANGED <<charges, expired>>
    BY <1>4 DEF ProviderOrderCreated, RequestFails
  <2>2. ChargesAreSane'
    BY <1>1, <2>1, RequestEnds
  <2> QED
    BY <1>4, <2>2, QuietStep DEF ProviderOrderCreated, RequestFails
<1>5. CASE RecordTransaction(q)
  BY <1>5, RecordTransactionKeeps
<1> QED
  BY <1>2, <1>3, <1>4, <1>5 DEF Checkout

LEMMA LeaseExpiresKeeps == ASSUME IInv, TypeOK', NEW t \in Txns, LeaseExpires(t) PROVE IInv'
<1>1. /\ TypeOK /\ ChargesAreSane /\ OneEventPerOrder /\ EventsAreCredited /\ LedgerIsOfEvents
      /\ DepositFollowsCredit /\ DeliveredIsCredited
  BY DEF IInv
<1>2. /\ outbox' = [outbox EXCEPT ![t].leased = FALSE] /\ outbox \in [Txns -> Event]
      /\ UNCHANGED <<intent, deposit, processed, ledger, recorded, request, worker, orphans,
                     charges, expired>>
  BY <1>1 DEF LeaseExpires, mainVars, orderVars, TypeOK
<1>3. PayloadsKept /\ \A s \in Txns : outbox'[s].status = "DELIVERED" => outbox[s].status = "DELIVERED"
  BY <1>2 DEF PayloadsKept, Event
<1>4. \A s \in orphans' : s \in Txns /\ outbox[s].status # "NONE"
  BY <1>1, <1>2 DEF EventsAreCredited, TypeOK
<1>5. EventsAreCredited'
  BY <1>1, <1>2, <1>3, <1>4, EventsKept
<1>6. ChargesAreSane' /\ OneEventPerOrder' /\ LedgerIsOfEvents' /\ DepositFollowsCredit'
  BY <1>1, <1>2, <1>3, ChargesKept, RecordedKept, LedgerKept, DepositKept
<1>7. DeliveredIsCredited'
  BY <1>1, <1>2, <1>3, DeliveredKept
<1> QED
  BY <1>5, <1>6, <1>7 DEF IInv

LEMMA PayKeeps ==
    ASSUME IInv, TypeOK', NEW i \in Intents, NEW t \in Txns, Pay(i, t) PROVE IInv'
<1>1. /\ TypeOK /\ ChargesAreSane /\ OneEventPerOrder /\ EventsAreCredited /\ LedgerIsOfEvents
      /\ DepositFollowsCredit /\ DeliveredIsCredited
  BY DEF IInv
<1> DEFINE paid == [txn |-> t, intent |-> i, late |-> i \in expired]
<1>2. /\ charges' = charges \cup {paid} /\ \A c \in charges : c.txn # t
      /\ UNCHANGED <<intent, deposit, processed, ledger, recorded, request, outbox, worker, orphans,
                     expired>>
  BY DEF Pay, mainVars, orderVars, queueVars
<1>3. ChargesAreSane'
  <2>1. paid.txn = t /\ paid.intent = i /\ (paid.late => i \in expired)
    OBVIOUS
  <2>2. \A c, d \in charges' : c.txn = d.txn => c = d
    BY <1>1, <1>2, <2>1, Zenon DEF ChargesAreSane
  <2>3. \A c \in charges' : c.late => c.intent \in expired'
    BY <1>1, <1>2, <2>1, Zenon DEF ChargesAreSane
  <2>4. charges \subseteq charges'
    BY <1>2
  <2> QED
    BY <1>1, <1>2, <2>2, <2>3, <2>4, Zenon DEF ChargesAreSane
<1>4. OneEventPerOrder'
  <2>1. charges \subseteq charges' /\ \A s \in Txns : EventRow(s)' = EventRow(s)
    BY <1>2 DEF EventRow
  <2>2. \A s \in Txns : outbox'[s].status # "NONE" =>
         /\ EventRow(s)' \in recorded'
         /\ \E c \in charges' : /\ c.txn = s /\ c.intent = outbox'[s].intent
                                /\ c.late => outbox'[s].late
    <3>1. ASSUME NEW s \in Txns, outbox'[s].status # "NONE"
          PROVE  /\ EventRow(s)' \in recorded'
                 /\ \E c \in charges' : /\ c.txn = s /\ c.intent = outbox'[s].intent
                                        /\ c.late => outbox'[s].late
      <4>1. outbox' = outbox /\ recorded' = recorded /\ EventRow(s)' = EventRow(s)
        BY <1>2, <2>1
      <4>2. /\ EventRow(s) \in recorded
            /\ \E c \in charges : /\ c.txn = s /\ c.intent = outbox[s].intent
                                  /\ c.late => outbox[s].late
        BY <1>1, <3>1, <4>1, Zenon DEF OneEventPerOrder
      <4> QED
        BY <2>1, <4>1, <4>2, Zenon
    <3> QED
      BY <3>1, Zenon
  <2>3. \A a \in recorded' : outbox'[a.txn].status # "NONE" /\ EventRow(a.txn)' = a
    BY <1>1, <1>2, <2>1 DEF OneEventPerOrder, TypeOK, Row
  <2>4. \A a, b \in recorded' : a.intent = b.intent => a = b
    BY <1>1, <1>2 DEF OneEventPerOrder
  <2> QED
    BY <2>2, <2>3, <2>4 DEF OneEventPerOrder
<1>5. EventsAreCredited'
  <2>1. \A s \in orphans' : s \in Txns /\ outbox[s].status # "NONE"
    BY <1>1, <1>2 DEF EventsAreCredited, TypeOK
  <2> QED
    BY <1>1, <1>2, <2>1, OutboxSame, EventsKept
<1>6. LedgerIsOfEvents' /\ DepositFollowsCredit' /\ DeliveredIsCredited'
  BY <1>1, <1>2, OutboxSame, LedgerKept, DepositKept, DeliveredKept
<1> QED
  BY <1>3, <1>4, <1>5, <1>6 DEF IInv

-----------------------------------------------------------------------------

LEMMA InitHolds == Init => IInv
<1> SUFFICES ASSUME Init PROVE IInv
  OBVIOUS
<1>1. TypeOK
  BY DEF Init, TypeOK, IntentStatus, OutboxStatus, Order, Event, Worker, Request, Idle, Resting
<1>2. ChargesAreSane
  BY DEF Init, ChargesAreSane, Idle
<1>3. OneEventPerOrder
  BY DEF Init, OneEventPerOrder
<1>4. EventsAreCredited
  BY DEF Init, EventsAreCredited, Resting
<1>5. LedgerIsOfEvents /\ DepositFollowsCredit /\ DeliveredIsCredited
  BY DEF Init, LedgerIsOfEvents, DepositFollowsCredit, DeliveredIsCredited
<1> QED
  BY <1>1, <1>2, <1>3, <1>4, <1>5 DEF IInv

LEMMA StepKeeps == IInv /\ [Next]_vars => IInv'
<1> SUFFICES ASSUME IInv, [Next]_vars PROVE IInv'
  OBVIOUS
<1>1. CASE UNCHANGED vars
  BY <1>1 DEF vars, IInv, TypeOK, ChargesAreSane, OneEventPerOrder, EventsAreCredited,
       LedgerIsOfEvents, DepositFollowsCredit, DeliveredIsCredited, EventRow
<1>2. CASE Next
  <2>1. TypeOK'
    BY <1>2, TypesKept
  <2> QED
    BY <1>2, <2>1, MainApiKeeps, CheckoutKeeps, DeliveryKeeps, HandleOrphanKeeps,
       LeaseExpiresKeeps, PayKeeps DEF Next
<1> QED
  BY <1>1, <1>2

\* The inductive invariant: recorded transactions, outbox events, what the
\* deliveries carry and what the main API remembers agree with the ledger, in every
\* state reachable through any interleaving, crash, lost answer or lease expiry.
THEOREM PaymentInvariant == Spec => []IInv
  BY InitHolds, StepKeeps, PTL DEF Spec

\* processVerifiedEvent credits an intent at most once, however often and for
\* however many captured payments events are delivered: one recorded transaction
\* per order, one event per transaction, one ledger row per event.
THEOREM CreditsAreUnique == Spec => []CreditedOnce
<1>1. ASSUME IInv PROVE CreditedOnce
  <2>1. TypeOK /\ OneEventPerOrder /\ LedgerIsOfEvents
    BY <1>1 DEF IInv
  <2>2. ledger \subseteq recorded
    BY <2>1 DEF OneEventPerOrder, LedgerIsOfEvents, TypeOK, Row
  <2> QED
    BY <2>1, <2>2 DEF CreditedOnce, OneEventPerOrder
<1> QED
  BY <1>1, PaymentInvariant, PTL

\* Every ledger row of processVerifiedEvent stands for a payment that the provider
\* captured for an order of that intent before the intent expired.
THEOREM CreditsArePaidInTime == Spec => []CreditIsPaidInTime
<1>1. ASSUME IInv PROVE CreditIsPaidInTime
  <2>1. TypeOK /\ OneEventPerOrder /\ LedgerIsOfEvents
    BY <1>1 DEF IInv
  <2>2. ASSUME NEW a \in ledger
        PROVE  \E c \in charges : c.txn = a.txn /\ c.intent = a.intent /\ ~c.late
    <3>1. PICK t \in Txns : t = a.txn
      BY <2>1 DEF TypeOK, Row
    <3>2. outbox[t].status # "NONE" /\ ~outbox[t].late /\ outbox[t].intent = a.intent
      BY <2>1, <3>1 DEF LedgerIsOfEvents, EventRow
    <3>3. PICK c \in charges : /\ c.txn = t /\ c.intent = outbox[t].intent
                               /\ c.late => outbox[t].late
      BY <2>1, <3>2, Zenon DEF OneEventPerOrder
    <3> QED
      BY <3>1, <3>2, <3>3, Zenon
  <2> QED
    BY <2>2 DEF CreditIsPaidInTime
<1> QED
  BY <1>1, PaymentInvariant, PTL

\* deliverNextEvent marks an event DELIVERED, and so stops retrying it, only when
\* the main API's ledger has its credit.
THEOREM DeliveryMeansCredit == Spec => []DeliveredIsCredited
<1>1. IInv => DeliveredIsCredited
  BY DEF IInv
<1> QED
  BY <1>1, PaymentInvariant, PTL

\* A real_money_deposits row is CREDITED exactly when its credit is in the ledger,
\* whether createDepositIntent's upsert comes before or after the event.
THEOREM DepositsAgree == Spec => []DepositFollowsCredit
<1>1. IInv => DepositFollowsCredit
  BY DEF IInv
<1> QED
  BY <1>1, PaymentInvariant, PTL

=============================================================================
