--------------------------- MODULE RoundGameProofs ---------------------------
(***************************************************************************)
(* Safety of RoundGame for every number of players, server instances,      *)
(* administrators, bets and rounds, and every bound on faults.             *)
(*                                                                         *)
(* First the types, then the invariant IInv.  It is split into what        *)
(* concerns the tables (DbInv) and what a process at step "at" with local  *)
(* copy j may rely on (StageOK).  A step of p must establish StageOK for p *)
(* itself; for every other process it is enough that the step only         *)
(* advances the round that process is settling.                            *)
(*                                                                         *)
(* On IInv rest the books (BooksInv): the coins of a wallet are the sum    *)
(* over its user's bets and over its user's ledger rows, sets of any size, *)
(* so that the steps are followed through the lemmas of SumTheorems.       *)
(***************************************************************************)
EXTENDS RoundGame, SumTheorems

USE RoundGameAssumption, MaxCoinsAssumption

-----------------------------------------------------------------------------
(* Wallet arithmetic *)

\* A debit that is not refused for insufficient funds leaves a legal row.
LEMMA DebitIsWallet ==
    ASSUME NEW w \in Wallet, NEW s \in ValidAmounts, ~InsufficientFunds(w, s)
    PROVE  Debit(w, s) \in Wallet
<1>1. /\ w.deposit \in Coins /\ w.winning \in Coins
  BY DEF Wallet
<1>2. DepositDebit(w, s) \in Nat /\ DepositDebit(w, s) <= w.deposit /\ DepositDebit(w, s) <= s
  BY <1>1 DEF DepositDebit, Coins, ValidAmounts
<1>3. w.winning - (s - DepositDebit(w, s)) >= 0
  BY <1>1, <1>2 DEF InsufficientFunds, Debit, Coins, ValidAmounts
<1>4. /\ w.deposit - DepositDebit(w, s) \in Coins
      /\ w.winning - (s - DepositDebit(w, s)) \in Coins
  BY <1>1, <1>2, <1>3 DEF Coins, ValidAmounts
<1> QED
  BY <1>4 DEF Debit, Wallet

-----------------------------------------------------------------------------
(* Type correctness *)

\* Initially every variable has its type.
LEMMA InitType == Init => TypeOK
<1> SUFFICES ASSUME Init PROVE TypeOK
  OBVIOUS
<1> USE DEF Init
<1>1. round \in [Rounds -> RoundRow]
  BY DEF RoundRow, RoundStatus, Result
<1>2. seed \in [Rounds -> Result] /\ elapsed \in 0 .. 2
  BY DEF Result
<1>2a. paused \in BOOLEAN
  OBVIOUS
<1>3. bets \in [BetKeys -> Bet \cup {NoBet}]
  OBVIOUS
<1>4. wallet \in [Users -> Wallet]
  BY DEF Wallet, Coins
<1>5. ledger \in SUBSET LedgerEntry
  OBVIOUS
<1>6. settlement \in [Rounds -> [status : {"NONE", "PENDING", "SUCCESS"}, result : Result]]
  BY DEF Result
<1>7. announced \in SUBSET [round : Rounds, status : RoundStatus] /\ lock \in Engines \cup {NoOne}
  OBVIOUS
<1>8. pc \in [Procs -> PC]
  BY DEF PC
<1>9. job \in [Procs -> Job]
  BY DEF Job, NoJob, RoundStatus, Result
<1>10. faults \in 0 .. MaxFaults
  OBVIOUS
<1> QED
  BY <1>1, <1>2, <1>2a, <1>3, <1>4, <1>5, <1>6, <1>7, <1>8, <1>9, <1>10 DEF TypeOK


ProcType == pc \in [Procs -> PC] /\ job \in [Procs -> Job] /\ lock \in Engines \cup {NoOne}
BookType == bets \in [BetKeys -> Bet \cup {NoBet}] /\ wallet \in [Users -> Wallet]
            /\ ledger \in SUBSET LedgerEntry

\* The process bookkeeping keeps its types: the end of a tick or request ...
LEMMA DoneType == ASSUME TypeOK, NEW p \in Procs, Done(p) PROVE ProcType'
<1>1. "idle" \in PC /\ NoJob \in Job
  BY DEF PC, NoJob, Job, RoundStatus, Result
<1> QED
  BY <1>1 DEF Done, Goto, TypeOK, ProcType

\* ... going on to the next step ...
LEMMA ContinueType == ASSUME TypeOK, NEW p \in Procs, NEW to \in PC, Continue(p, to)
                      PROVE ProcType'
  BY DEF Continue, Goto, TypeOK, ProcType

\* ... and branching on a copy of a round.
LEMMA DispatchType ==
    ASSUME TypeOK, NEW e \in Engines, NEW r \in Rounds, NEW row \in RoundRow, NEW due \in 0 .. 2,
           Dispatch(e, r, row, due)
    PROVE  ProcType'
<1> DEFINE to == NextStep(row.status, due)
           j  == [round |-> r, status |-> row.status, result |-> row.result, due |-> due]
<1>1. to \in PC
  BY DEF NextStep, PC
<1>2. j \in Job
  BY DEF Job, RoundRow, Rounds
<1>3. e \in Procs
  BY DEF Procs
<1>4. CASE to = "idle"
  BY <1>3, <1>4, DoneType DEF Dispatch
<1>5. CASE to # "idle"
  <2>1. Goto(e, to) /\ job' = [job EXCEPT ![e] = j] /\ lock' = lock
    BY <1>5 DEF Dispatch
  <2> HIDE DEF j, to
  <2> QED
    BY <1>1, <1>2, <1>3, <2>1 DEF Goto, TypeOK, ProcType
<1> QED
  BY <1>4, <1>5

\* Writing a legal row keeps the table legal.
LEMMA SetRoundType ==
    ASSUME TypeOK, NEW r, NEW st \in RoundStatus, NEW res \in Result, SetRound(r, st, res)
    PROVE  round' \in [Rounds -> RoundRow]
  BY DEF SetRound, TypeOK, RoundRow

\* A placed bet is a row of bets.
LEMMA PlacedIsBet == ASSUME TypeOK, NEW k \in Placed PROVE k \in BetKeys /\ bets[k] \in Bet
  BY DEF TypeOK, Placed

\* A status change of a placed bet gives a bet.
LEMMA BetStatusType ==
    ASSUME TypeOK, NEW S \in SUBSET Placed, NEW st \in BetStatus,
           bets' = WithStatus(S, st)
    PROVE  bets' \in [BetKeys -> Bet \cup {NoBet}]
<1>1. ASSUME NEW k \in S PROVE [bets[k] EXCEPT !.status = st] \in Bet
  BY DEF TypeOK, Placed, Bet
<1> QED
  BY <1>1 DEF TypeOK, WithStatus

\* Stakes are amounts a movement accepts.
LEMMA StakeIsAmount == \A s \in Stakes : s \in ValidAmounts /\ s \in Coins
  BY DEF ValidAmounts, Coins

\* A refund transaction keeps bets, wallets and ledger legal.
LEMMA RefundType ==
    ASSUME TypeOK, NEW S \in SUBSET Placed, NEW kind \in {"cancel-refund", "recovery-refund"},
           RefundBets(S, kind)
    PROVE  BookType'
<1>1. bets' \in [BetKeys -> Bet \cup {NoBet}]
  BY BetStatusType DEF RefundBets, BetStatus
<1>2. ASSUME NEW k \in S
      PROVE  [kind |-> kind, ref |-> k, user |-> bets[k].user, amount |-> bets[k].stake] \in LedgerEntry
  <2>1. k \in BetKeys /\ bets[k].user \in Users /\ bets[k].stake \in Stakes
    BY PlacedIsBet DEF Bet
  <2>2. bets[k].stake \in Coins
    BY <2>1, StakeIsAmount
  <2> QED
    BY <2>1, <2>2 DEF LedgerEntry, EntryKind
<1>3. ledger' \in SUBSET LedgerEntry
  BY <1>2 DEF RefundBets, TypeOK
<1> QED
  BY <1>1, <1>3 DEF RefundBets, BookType

\* Pending bets are placed bets.
LEMMA PendingPlaced == \A r : Pending(r) \subseteq Placed
  BY DEF Pending, BetsOf

\* Every step keeps every variable in its type.
LEMMA StepType == ASSUME TypeOK, CopiesAreSane, [Next]_vars PROVE TypeOK'
<1> USE DEF procVars, dbVars
<1>p. /\ Engines \subseteq Procs /\ Admins \subseteq Procs
  BY DEF Procs
<1>s. /\ Active \subseteq RoundStatus /\ {"COMPLETED", "CANCELLED"} \subseteq RoundStatus
      /\ {"INIT", "OPEN", "LOCKED", "RESOLVING"} \subseteq RoundStatus
      /\ NoColor \in Result /\ Colors \subseteq Result
  BY DEF Active, Terminal, RoundStatus, Result
<1>q. SettlePC \subseteq PC /\ {"latest", "recover", "resolving", "create", "openNew", "read", "idle", "seed", "forced",
       "control", "back"} \subseteq PC
  BY DEF PC, SettlePC
<1>j. /\ \A p \in Procs : job[p] \in Job /\ job[p].round \in 0 .. MaxRound /\ job[p].result \in Result
                          /\ job[p].due \in 0 .. 2
      /\ \A r \in Rounds : round[r] \in RoundRow /\ round[r].status \in RoundStatus
                           /\ round[r].result \in Result /\ seed[r] \in Result
  BY DEF TypeOK, Job, RoundRow
<1>1. ASSUME NEW e \in Engines, Tick(e) PROVE TypeOK'
  BY <1>1, <1>p, <1>q DEF Tick, Goto, TypeOK
<1>2. ASSUME NEW e \in Engines, ReadCurrentRound(e) PROVE TypeOK'
  <2>1. PICK j \in Job : job' = [job EXCEPT ![e] = j]
    <3>1. NoJob \in Job
      BY DEF NoJob, Job, RoundStatus, Result
    <3>2. ASSUME NEW r \in ActiveRounds
          PROVE  [round |-> r, status |-> round[r].status, result |-> round[r].result, due |-> 0] \in Job
      BY <1>j DEF ActiveRounds, Job, Rounds
    <3> QED
      BY <1>2, <3>1, <3>2 DEF ReadCurrentRound
  <2> QED
    BY <1>2, <1>q, <2>1 DEF ReadCurrentRound, Goto, TypeOK
<1>3. ASSUME NEW e \in Engines, ReadGameControl(e) PROVE TypeOK'
  <2>1. CASE Done(e)
    BY <1>3, <1>p, <2>1, DoneType DEF ReadGameControl, TypeOK, ProcType
  <2>2. CASE Continue(e, "latest")
    BY <1>3, <1>p, <1>q, <2>2, ContinueType DEF ReadGameControl, TypeOK, ProcType
  <2>3. ASSUME job[e].round # 0, NEW due \in Now(job[e].round),
               Dispatch(e, job[e].round, [status |-> job[e].status, result |-> job[e].result], due)
        PROVE  TypeOK'
    <3>1. due \in 0 .. 2
      BY DEF Now, TypeOK
    <3>2. job[e].round \in Rounds /\ [status |-> job[e].status, result |-> job[e].result] \in RoundRow
      BY <1>j, <1>p, <2>3 DEF Rounds, RoundRow, Job
    <3>3. ProcType'
      BY <2>3, <3>1, <3>2, DispatchType
    <3> QED
      BY <1>3, <3>3 DEF ReadGameControl, TypeOK, ProcType
  <2> QED
    BY <1>3, <2>1, <2>2, <2>3 DEF ReadGameControl
<1>4. ASSUME NEW e \in Engines, OpenRound(e) \/ LockRound(e) PROVE TypeOK'
  <2>1. job[e].round \in Rounds
    BY <1>4, <1>p DEF OpenRound, LockRound, CopiesAreSane
  <2>2. ProcType'
    BY <1>4, <1>p, <1>q, DoneType, ContinueType DEF OpenRound, LockRound
  <2>3. round' \in [Rounds -> RoundRow]
    BY <1>4, <1>s, <1>j, <2>1, SetRoundType DEF OpenRound, LockRound, TypeOK
  <2> QED
    BY <1>4, <2>2, <2>3 DEF OpenRound, LockRound, TypeOK, ProcType
<1>4a. ASSUME NEW e \in Engines, ReadBack(e) PROVE TypeOK'
  <2>1. job[e].round \in Rounds
    BY <1>4a, <1>p DEF ReadBack, CopiesAreSane
  <2>2. ProcType'
    BY <1>4a, <1>p, <1>j, <2>1, DispatchType DEF ReadBack
  <2> QED
    BY <1>4a, <2>2 DEF ReadBack, TypeOK, ProcType
<1>5. ASSUME NEW e \in Engines, ReadSeed(e) PROVE TypeOK'
  <2>1. job[e].round \in Rounds
    BY <1>5, <1>p DEF ReadSeed, CopiesAreSane
  <2>2. pc' \in [Procs -> PC]
    BY <1>5, <1>q DEF ReadSeed, Goto, TypeOK, SettlePC
  <2>3. job' \in [Procs -> Job]
    <3>1. PICK res \in Result : job' = job \/ job' = [job EXCEPT ![e].result = res]
      BY <1>5, <1>j, <1>p, <2>1 DEF ReadSeed
    <3> QED
      BY <3>1, <1>p, <1>j DEF TypeOK, Job
  <2> QED
    BY <1>5, <2>2, <2>3 DEF ReadSeed, TypeOK
<1>6. ASSUME NEW e \in Engines, MarkResolving(e) PROVE TypeOK'
  <2>1. ProcType'
    BY <1>6, <1>p, <1>q, DoneType, ContinueType DEF MarkResolving, SettlePC
  <2>2. round' \in [Rounds -> RoundRow]
    BY <1>6, <1>p, <1>s, <1>j, SetRoundType DEF MarkResolving, TypeOK
  <2> QED
    BY <1>6, <2>1, <2>2 DEF MarkResolving, TypeOK, ProcType
<1>7. ASSUME NEW e \in Engines, CompleteRound(e) PROVE TypeOK'
  <2>1. ProcType'
    BY <1>7, <1>p, <1>q, ContinueType DEF CompleteRound, SettlePC
  <2>2. round' \in [Rounds -> RoundRow]
    BY <1>7, <1>p, <1>s, <1>j, SetRoundType DEF CompleteRound, TypeOK
  <2> QED
    BY <1>7, <2>1, <2>2 DEF CompleteRound, TypeOK, ProcType
<1>7a. ASSUME NEW e \in Engines, AnnounceRound(e) PROVE TypeOK'
  <2>1. job[e].round \in Rounds
    BY <1>7a, <1>p DEF AnnounceRound, CopiesAreSane, Decided, SettlePC
  <2>2. announced' \in SUBSET [round : Rounds, status : RoundStatus]
    BY <1>7a, <1>j, <2>1 DEF AnnounceRound, TypeOK
  <2>3. ProcType'
    BY <1>7a, <1>p, <1>q, ContinueType DEF AnnounceRound
  <2> QED
    BY <1>7a, <2>2, <2>3 DEF AnnounceRound, TypeOK, ProcType
<1>8. ASSUME NEW e \in Engines, RecoverRound(e) PROVE TypeOK'
  <2> DEFINE r == job[e].round
  <2>1. ProcType'
    BY <1>8, <1>p, <1>q, ContinueType DEF RecoverRound
  <2>2. CASE round[r].status \in Active
    <3>1. SetRound(r, "CANCELLED", NoColor) /\ RefundBets(Pending(r), "recovery-refund")
      BY <1>8, <2>2 DEF RecoverRound
    <3>2. round' \in [Rounds -> RoundRow]
      BY <3>1, <1>s, SetRoundType
    <3>3. BookType'
      BY <3>1, PendingPlaced, RefundType
    <3> QED
      BY <1>8, <2>1, <3>2, <3>3 DEF RecoverRound, TypeOK, ProcType, BookType
  <2>3. CASE round[r].status \notin Active
    BY <1>8, <2>1, <2>3 DEF RecoverRound, TypeOK, ProcType
  <2> QED
    BY <2>2, <2>3
<1>9. ASSUME NEW e \in Engines, FindLatestRound(e) PROVE TypeOK'
  <2>1. PICK n \in 0 .. MaxRound : job' = [job EXCEPT ![e] = [NoJob EXCEPT !.round = n]]
    BY <1>9 DEF FindLatestRound
  <2>2. [NoJob EXCEPT !.round = n] \in Job
    BY DEF NoJob, Job, RoundStatus, Result
  <2> QED
    BY <1>9, <1>p, <1>q, <2>1, <2>2 DEF FindLatestRound, Goto, TypeOK
<1>10. ASSUME NEW e \in Engines, CreateNothing(e) PROVE TypeOK'
  BY <1>10, <1>p, DoneType DEF CreateNothing, TypeOK, ProcType
<1>11. ASSUME NEW e \in Engines, OpenNewRound(e) PROVE TypeOK'
  <2>1. round' \in [Rounds -> RoundRow]
    <3>1. job[e].round \in Rounds
      BY <1>11, <1>p DEF OpenNewRound, CopiesAreSane
    <3> QED
      BY <1>11, <1>s, <1>j, <3>1, SetRoundType DEF OpenNewRound, TypeOK
  <2> QED
    BY <1>11, <1>p, <2>1, DoneType DEF OpenNewRound, TypeOK, ProcType
<1>12. ASSUME NEW p \in Procs, BeginSettlement(p) PROVE TypeOK'
  <2>1. ProcType'
    BY <1>12, <1>q, ContinueType DEF BeginSettlement, SettlePC
  <2>2. settlement' \in [Rounds -> [status : {"NONE", "PENDING", "SUCCESS"}, result : Result]]
    BY <1>12, <1>j DEF BeginSettlement, TypeOK
  <2> QED
    BY <1>12, <2>1, <2>2 DEF BeginSettlement, TypeOK, ProcType
<1>13. ASSUME NEW p \in Procs, MarkLosingBets(p) PROVE TypeOK'
  <2> DEFINE S == {k \in Pending(job[p].round) : bets[k].choice # job[p].result}
  <2>1. bets' = WithStatus(S, "LOST")
    BY <1>13 DEF MarkLosingBets
  <2>2. S \in SUBSET Placed /\ "LOST" \in BetStatus
    BY PendingPlaced DEF BetStatus
  <2> HIDE DEF S
  <2>3. bets' \in [BetKeys -> Bet \cup {NoBet}]
    BY <2>1, <2>2, BetStatusType
  <2>4. ProcType'
    BY <1>13, <1>q, ContinueType DEF MarkLosingBets, SettlePC
  <2> QED
    BY <1>13, <2>3, <2>4 DEF MarkLosingBets, TypeOK, ProcType
<1>14. ASSUME NEW p \in Procs, WinnersDone(p) PROVE TypeOK'
  BY <1>14, <1>q, ContinueType DEF WinnersDone, TypeOK, ProcType, SettlePC
<1>15. ASSUME NEW p \in Procs, CompleteSettlement(p) PROVE TypeOK'
  <2>1. ProcType'
    BY <1>15, <1>q, ContinueType DEF CompleteSettlement, SettlePC
  <2>2. settlement' \in [Rounds -> [status : {"NONE", "PENDING", "SUCCESS"}, result : Result]]
    BY <1>15, <1>j DEF CompleteSettlement, TypeOK
  <2> QED
    BY <1>15, <2>1, <2>2 DEF CompleteSettlement, TypeOK, ProcType
<1>16. ASSUME NEW p \in Procs, Fail(p) PROVE TypeOK'
  BY <1>16, DoneType DEF Fail, TypeOK, ProcType
<1>17. ASSUME NEW p \in Procs, Crash(p) PROVE TypeOK'
  <2>1. NoJob \in Job
    BY DEF NoJob, Job, RoundStatus, Result
  <2> QED
    BY <1>17, <1>q, <2>1 DEF Crash, Goto, TypeOK
<1>18. ASSUME NEW a \in Admins, ForceResultSeed(a) PROVE TypeOK'
  BY <1>18, <1>p, <1>q, DoneType, ContinueType DEF ForceResultSeed, TypeOK, ProcType, SettlePC
<1>19. ASSUME NEW a \in Admins, ForceResultComplete(a) PROVE TypeOK'
  <2>1. job[a].round \in Rounds
    BY <1>19, <1>p DEF ForceResultComplete, CopiesAreSane, Decided, SettlePC
  <2>2. ProcType'
    BY <1>19, <1>p, DoneType DEF ForceResultComplete
  <2>3. round' \in [Rounds -> RoundRow]
    BY <1>19, <1>p, <1>j, <1>s, SetRoundType DEF ForceResultComplete
  <2>4. announced' \in SUBSET [round : Rounds, status : RoundStatus]
    BY <1>19, <1>s, <2>1 DEF ForceResultComplete, TypeOK
  <2> QED
    BY <1>19, <2>2, <2>3, <2>4 DEF ForceResultComplete, TypeOK, ProcType
<1>20. ASSUME NEW e \in Engines, NEW c \in Colors, CreateRound(e, c) PROVE TypeOK'
  <2> DEFINE n == job[e].round + 1
  <2>1. n \in Rounds /\ SetRound(n, "INIT", NoColor) /\ seed' = [seed EXCEPT ![n] = c]
    BY <1>20 DEF CreateRound, CanCreate
  <2>2. job' \in [Procs -> Job]
    <3>1. [job[e] EXCEPT !.round = n] \in Job
      BY <1>j, <1>p, <2>1 DEF Job, Rounds
    <3> QED
      BY <1>20, <1>p, <3>1 DEF CreateRound, TypeOK
  <2>3. round' \in [Rounds -> RoundRow]
    BY <1>s, <2>1, SetRoundType
  <2>4. seed' \in [Rounds -> Result]
    BY <1>s, <2>1 DEF TypeOK
  <2>5. pc' \in [Procs -> PC] /\ elapsed' \in 0 .. 2
    <3>1. pc' = [pc EXCEPT ![e] = "openNew"] /\ elapsed' = 0
      BY <1>20 DEF CreateRound, Goto
    <3>2. pc \in [Procs -> PC] /\ "openNew" \in PC
      BY <1>q DEF TypeOK
    <3>3. pc' \in [Procs -> PC]
      BY <3>1, <3>2
    <3>4. elapsed' \in 0 .. 2
      BY <3>1
    <3> QED
      BY <3>3, <3>4
  <2> QED
    BY <1>20, <2>2, <2>3, <2>4, <2>5 DEF CreateRound, TypeOK
<1>21. ASSUME NEW p \in Procs, NEW u \in Users, SettleWinnerUser(p, u) PROVE TypeOK'
  <2> DEFINE r      == job[p].round
             W      == WinnerBets(r, job[p].result, u)
             payout == Multiplier * StakeSum(W)
             entry  == [kind |-> "settlement-credit", ref |-> r, user |-> u, amount |-> payout]
  <2>1. r \in Rounds /\ payout \in ValidAmounts
    BY <1>21 DEF SettleWinnerUser, CopiesAreSane, Decided, SettlePC
  <2>2. entry \in LedgerEntry
    BY <2>1 DEF LedgerEntry, EntryKind, ValidAmounts, Coins
  <2>3. ledger' \in SUBSET LedgerEntry /\ wallet' \in [Users -> Wallet]
    BY <1>21, <2>2 DEF SettleWinnerUser, TypeOK
  <2>4. W \in SUBSET Placed /\ "WON" \in BetStatus
    BY PendingPlaced DEF WinnerBets, BetStatus
  <2>5. bets' = WithStatus(W, "WON")
    BY <1>21 DEF SettleWinnerUser
  <2> HIDE DEF W
  <2>6. bets' \in [BetKeys -> Bet \cup {NoBet}]
    BY <2>4, <2>5, BetStatusType
  <2>7. ProcType'
    BY <1>21, <1>q, ContinueType DEF SettleWinnerUser, SettlePC
  <2> QED
    BY <1>21, <2>3, <2>6, <2>7 DEF SettleWinnerUser, TypeOK, ProcType
<1>22. ASSUME NEW a \in Admins, NEW c \in Colors, ForceResult(a, c) PROVE TypeOK'
  <2>1. PICK r \in ActiveRounds :
           /\ SetRound(r, "RESOLVING", c)
           /\ job' = [job EXCEPT ![a] = [round |-> r, status |-> "RESOLVING", result |-> c, due |-> 0]]
    BY <1>22 DEF ForceResult
  <2>2. [round |-> r, status |-> "RESOLVING", result |-> c, due |-> 0] \in Job
    BY <1>s DEF ActiveRounds, Job, Rounds
  <2>3. round' \in [Rounds -> RoundRow]
    BY <1>s, <2>1, SetRoundType
  <2> QED
    BY <1>22, <1>p, <1>q, <2>1, <2>2, <2>3 DEF ForceResult, Goto, TypeOK
<1>23. ASSUME NEW k \in BetKeys, NEW u \in Users, NEW r \in Rounds, NEW c \in Colors, NEW s \in Stakes,
             PlaceBet(k, u, r, c, s) PROVE TypeOK'
  <2>1. s \in ValidAmounts /\ s \in Coins
    BY StakeIsAmount
  <2>2. wallet' \in [Users -> Wallet]
    <3>1. Debit(wallet[u], s) \in Wallet
      BY <1>23, <2>1, DebitIsWallet DEF PlaceBet, TypeOK
    <3> QED
      BY <1>23, <3>1 DEF PlaceBet, TypeOK
  <2>3. bets' \in [BetKeys -> Bet \cup {NoBet}]
    <3>1. [status |-> "PENDING", user |-> u, round |-> r, choice |-> c, stake |-> s] \in Bet
      BY DEF Bet, BetStatus
    <3> QED
      BY <1>23, <3>1 DEF PlaceBet, TypeOK
  <2>4. ledger' \in SUBSET LedgerEntry
    BY <1>23, <2>1 DEF PlaceBet, TypeOK, LedgerEntry, EntryKind
  <2> QED
    BY <1>23, <2>2, <2>3, <2>4 DEF PlaceBet, TypeOK
<1>24. ASSUME ForceStopRound PROVE TypeOK'
  <2>1. PICK r \in ActiveRounds : /\ RefundBets(Pending(r), "cancel-refund")
                                  /\ SetRound(r, "CANCELLED", round[r].result)
    BY <1>24 DEF ForceStopRound
  <2>2. BookType'
    BY <2>1, PendingPlaced, RefundType
  <2>3. round' \in [Rounds -> RoundRow]
    BY <1>s, <1>j, <2>1, SetRoundType DEF ActiveRounds
  <2> QED
    BY <1>24, <2>2, <2>3 DEF ForceStopRound, TypeOK, BookType
<1>25. ASSUME NEW c \in Colors, NEW n \in Rounds, ForceStartRound(c, n) PROVE TypeOK'
  <2> DEFINE S == UNION {Pending(r) : r \in ActiveRounds}
  <2>1. S \in SUBSET Placed
    BY PendingPlaced
  <2>2. BookType'
    BY <1>25, <2>1, RefundType DEF ForceStartRound
  <2>3. round' \in [Rounds -> RoundRow]
    <3>1. ASSUME NEW r \in Rounds PROVE [round[r] EXCEPT !.status = "CANCELLED"] \in RoundRow
      BY <1>j, <1>s DEF RoundRow
    <3>2. [status |-> "OPEN", result |-> NoColor] \in RoundRow
      BY <1>s DEF RoundRow
    <3> QED
      BY <1>25, <1>j, <3>1, <3>2 DEF ForceStartRound
  <2>4. seed' \in [Rounds -> Result]
    BY <1>25, <1>s DEF ForceStartRound, TypeOK
  <2> QED
    BY <1>25, <2>2, <2>3, <2>4 DEF ForceStartRound, TypeOK, BookType
<1>26. ASSUME NEW b \in BOOLEAN, SetPaused(b) PROVE TypeOK'
  BY <1>26 DEF SetPaused, TypeOK
<1>27. ASSUME NEW r \in Rounds, LoseSeed(r) PROVE TypeOK'
  BY <1>27, <1>s DEF LoseSeed, TypeOK
<1>28. ASSUME Clock PROVE TypeOK'
  BY <1>28 DEF Clock, TypeOK
<1>29. ASSUME LockExpires PROVE TypeOK'
  BY <1>29 DEF LockExpires, TypeOK
<1>30. ASSUME UNCHANGED vars PROVE TypeOK'
  BY <1>30 DEF vars, TypeOK
<1>31. ASSUME NEW p \in Procs, Settle(p) PROVE TypeOK'
  BY <1>12, <1>13, <1>14, <1>15, <1>21, <1>31 DEF Settle
<1>32. ASSUME NEW e \in Engines, Engine(e) PROVE TypeOK'
  BY <1>1, <1>2, <1>3, <1>4, <1>4a, <1>5, <1>6, <1>7, <1>7a, <1>8, <1>9, <1>10, <1>11, <1>20, <1>31, <1>32, <1>p
     DEF Engine
<1>33. ASSUME NEW a \in Admins, Admin(a) PROVE TypeOK'
  BY <1>18, <1>19, <1>22, <1>31, <1>33, <1>p DEF Admin, ForceResultStep
<1> QED
  BY <1>16, <1>17, <1>23, <1>24, <1>25, <1>26, <1>27, <1>28, <1>29, <1>30, <1>32, <1>33 DEF Next

-----------------------------------------------------------------------------
(* The inductive invariant in parts *)

DecidedAt(at, j) ==
    \/ at \in SettlePC \cup {"forced"}
    \/ at \in {"control", "seed"} /\ j.status = "RESOLVING"

CopySteps == SettlePC \cup {"forced", "open", "lock", "back", "seed", "resolving", "recover", "openNew"}

StageOK(at, j) ==
    /\ at \in CopySteps \/ DecidedAt(at, j) => j.round \in Rounds
    /\ at = "seed" => j.status \in {"LOCKED", "RESOLVING"}
    /\ at = "resolving" => j.result \in Colors
    /\ DecidedAt(at, j) =>
         /\ j.result \in Colors
         /\ round[j.round].status \in {"RESOLVING"} \cup Terminal
         /\ round[j.round].status = "RESOLVING" => round[j.round].result = j.result
         /\ settlement[j.round].status # "NONE" => settlement[j.round].result = j.result
    /\ at \in {"losers", "winners", "success"} => settlement[j.round].status # "NONE"
    /\ at = "winners" => \A k \in Pending(j.round) : bets[k].choice = j.result
    /\ at = "success" => Pending(j.round) = {}
    /\ at \in {"finish", "announce"} => settlement[j.round].status = "SUCCESS"

\* A copy (at, j) about to be held by p agrees with the other processes.
AgreesBut(p, at, j) ==
    DecidedAt(at, j) =>
        \A q \in Procs \ {p} :
            DecidedAt(pc[q], job[q]) /\ job[q].round = j.round => job[q].result = j.result

SuccessIsClean == \A r \in Rounds : settlement[r].status = "SUCCESS" => Pending(r) = {}

DbInv == /\ OneActiveRound /\ UndecidedIsUnsettled /\ NoBetLeftBehind
         /\ OutcomeFollowsResult /\ CompletedIsSettled /\ SuccessIsClean

\* What a step may do to a round some process is settling with result res.
Advances(r, res) ==
    /\ round'[r] = round[r] \/ round'[r].status \in Terminal
    /\ \A k \in Pending(r)' : k \in Pending(r) /\ bets'[k].choice = bets[k].choice
    /\ settlement[r].status = "SUCCESS" => settlement'[r].status = "SUCCESS"
    /\ settlement[r].status # "NONE" => settlement'[r].status # "NONE"
    /\ settlement'[r] # settlement[r] => settlement'[r].result = res

-----------------------------------------------------------------------------
(* How IInv splits *)

\* IInv gives every process its StageOK, and all pairs of processes agree.
LEMMA IInvStages ==
    ASSUME IInv
    PROVE  /\ DbInv
           /\ \A p \in Procs : StageOK(pc[p], job[p])
           /\ \A p, q \in Procs :
                 DecidedAt(pc[p], job[p]) /\ DecidedAt(pc[q], job[q]) /\ job[p].round = job[q].round
                    => job[p].result = job[q].result
<1>1. DbInv
  BY DEF IInv, DbInv, SuccessIsClean, SettlementStages
<1>2. ASSUME NEW p \in Procs PROVE StageOK(pc[p], job[p])
  BY DEF IInv, CopiesAreSane, SettlersAgree, SettlementStages, StageOK, DecidedAt, Decided,
         CopySteps
<1>3. ASSUME NEW p \in Procs, NEW q \in Procs, DecidedAt(pc[p], job[p]), DecidedAt(pc[q], job[q]),
             job[p].round = job[q].round
      PROVE  job[p].result = job[q].result
  BY <1>3 DEF IInv, SettlersAgree, DecidedAt, Decided
<1> QED
  BY <1>1, <1>2, <1>3

\* Conversely, the parts in the next state give IInv in the next state.
LEMMA StagesIInv ==
    ASSUME TypeOK', DbInv', \A p \in Procs : StageOK(pc[p], job[p])',
           \A p, q \in Procs :
               (DecidedAt(pc[p], job[p]) /\ DecidedAt(pc[q], job[q]) /\ job[p].round = job[q].round
                    => job[p].result = job[q].result)'
    PROVE  IInv'
<1>1. CopiesAreSane'
  BY DEF CopiesAreSane, StageOK, DecidedAt, Decided, CopySteps
<1>2. SettlersAgree'
  BY DEF SettlersAgree, StageOK, DecidedAt, Decided
<1>3. SettlementStages'
  BY DEF SettlementStages, StageOK, DbInv, SuccessIsClean
<1> QED
  BY <1>1, <1>2, <1>3 DEF IInv, DbInv

\* A process keeps its StageOK when its decided round only advances.
LEMMA KeepStage ==
    ASSUME TypeOK, NEW at \in PC, NEW j \in Job, StageOK(at, j),
           DecidedAt(at, j) => Advances(j.round, j.result)
    PROVE  StageOK(at, j)'
<1>1. CASE DecidedAt(at, j)
  BY <1>1 DEF StageOK, Advances, DecidedAt, Terminal
<1>2. CASE ~DecidedAt(at, j)
  BY <1>2 DEF StageOK, DecidedAt, SettlePC
<1> QED
  BY <1>1, <1>2

\* A step of p only: IInv is kept when the tables are fine, the rounds others
\* are settling only advance, and p's own new step is justified.
LEMMA ProcStep ==
    ASSUME IInv, TypeOK', DbInv', NEW p \in Procs, NEW to \in PC, NEW j \in Job,
           pc' = [pc EXCEPT ![p] = to], job' = [job EXCEPT ![p] = j],
           \A q \in Procs \ {p} :
               DecidedAt(pc[q], job[q]) => Advances(job[q].round, job[q].result),
           StageOK(to, j)', AgreesBut(p, to, j)
    PROVE  IInv'
<1>t. TypeOK /\ pc \in [Procs -> PC] /\ job \in [Procs -> Job]
  BY DEF IInv, TypeOK
<1>1. ASSUME NEW q \in Procs PROVE StageOK(pc[q], job[q])'
  <2>1. CASE q = p
    <3>1. pc'[q] = to /\ job'[q] = j
      BY <1>t, <2>1
    <3> QED
      BY <3>1 DEF StageOK, DecidedAt
  <2>2. CASE q # p
    <3>1. pc'[q] = pc[q] /\ job'[q] = job[q] /\ pc[q] \in PC /\ job[q] \in Job
      BY <1>t, <2>2
    <3>2. StageOK(pc[q], job[q]) /\ (DecidedAt(pc[q], job[q]) => Advances(job[q].round, job[q].result))
      BY <2>2, IInvStages
    <3>3. ASSUME NEW at \in PC, NEW jj \in Job, at = pc[q], jj = job[q] PROVE StageOK(at, jj)'
      BY <1>t, <3>2, <3>3, KeepStage
    <3> QED
      BY <3>1, <3>3 DEF StageOK, DecidedAt
  <2> QED
    BY <2>1, <2>2
<1>2. ASSUME NEW q \in Procs, NEW s \in Procs, DecidedAt(pc'[q], job'[q]), DecidedAt(pc'[s], job'[s]),
             job'[q].round = job'[s].round
      PROVE  job'[q].result = job'[s].result
  BY <1>2, <1>t, IInvStages DEF AgreesBut
<1> QED
  BY <1>1, <1>2, StagesIInv DEF DecidedAt

\* A step of no process.
LEMMA StaticStep ==
    ASSUME IInv, TypeOK', DbInv', UNCHANGED <<pc, job>>,
           \A q \in Procs : DecidedAt(pc[q], job[q]) => Advances(job[q].round, job[q].result)
    PROVE  IInv'
<1>t. TypeOK /\ pc \in [Procs -> PC] /\ job \in [Procs -> Job]
  BY DEF IInv, TypeOK
<1>1. ASSUME NEW q \in Procs PROVE StageOK(pc[q], job[q])'
  <2>1. pc[q] \in PC /\ job[q] \in Job /\ StageOK(pc[q], job[q])
    BY <1>t, IInvStages
  <2>2. ASSUME NEW at \in PC, NEW jj \in Job, at = pc[q], jj = job[q] PROVE StageOK(at, jj)'
    BY <1>t, <2>1, <2>2, KeepStage
  <2> QED
    BY <2>1, <2>2 DEF StageOK, DecidedAt
<1>2. \A q, s \in Procs :
        (DecidedAt(pc[q], job[q]) /\ DecidedAt(pc[s], job[s]) /\ job[q].round = job[s].round
            => job[q].result = job[s].result)'
  BY IInvStages DEF DecidedAt
<1> QED
  BY <1>1, <1>2, StagesIInv

-----------------------------------------------------------------------------
(* Steps that leave the tables alone *)

Tables == <<round, bets, settlement>>

\* A step that changes no table advances every round and keeps the table facts.
LEMMA SameTables ==
    ASSUME IInv, UNCHANGED Tables, UNCHANGED announced
    PROVE  /\ DbInv'
           /\ \A r, res : Advances(r, res)
<1>1. DbInv
  BY IInvStages
<1>2. /\ \A r : Pending(r)' = Pending(r)
      /\ Placed' = Placed /\ ActiveRounds' = ActiveRounds
  BY DEF Tables, Pending, BetsOf, Placed, ActiveRounds
<1>3. DbInv'
  BY <1>1, <1>2 DEF DbInv, Tables, OneActiveRound, UndecidedIsUnsettled, NoBetLeftBehind,
                    OutcomeFollowsResult, CompletedIsSettled, SuccessIsClean
<1> QED
  BY <1>2, <1>3 DEF Advances, Tables

\* Going idle is always justified.
LEMMA IdleIsFine ==
    ASSUME NEW p, NEW j
    PROVE  StageOK("idle", j)' /\ AgreesBut(p, "idle", j)
  BY DEF StageOK, AgreesBut, DecidedAt, SettlePC, CopySteps

\* So is every step that holds no copy of a round.
LEMMA FreeStepIsFine ==
    ASSUME NEW p, NEW j, NEW at \in {"idle", "read", "latest", "create"}
    PROVE  StageOK(at, j)' /\ AgreesBut(p, at, j)
  BY DEF StageOK, AgreesBut, DecidedAt, SettlePC, CopySteps

\* The end of a tick or request that changes no table.
LEMMA DoneKeeps ==
    ASSUME IInv, TypeOK', NEW p \in Procs, Goto(p, "idle"), job' = [job EXCEPT ![p] = NoJob],
           UNCHANGED Tables, UNCHANGED announced
    PROVE  IInv'
<1>1. "idle" \in PC /\ NoJob \in Job
  BY DEF PC, NoJob, Job, RoundStatus, Result
<1>2. StageOK("idle", NoJob)' /\ AgreesBut(p, "idle", NoJob)
  BY IdleIsFine
<1>3. /\ DbInv'
      /\ \A q \in Procs \ {p} : DecidedAt(pc[q], job[q]) => Advances(job[q].round, job[q].result)
  BY SameTables
<1>4. pc' = [pc EXCEPT ![p] = "idle"]
  BY DEF Goto
<1> QED
  BY <1>1, <1>2, <1>3, <1>4, ProcStep

\* A RESOLVING row carries a result every process settling it agrees with.
LEMMA ResolvingAgrees ==
    ASSUME IInv, NEW p \in Procs, NEW at, NEW j, j.round \in Rounds,
           round[j.round].status = "RESOLVING" /\ round[j.round].result = j.result
    PROVE  AgreesBut(p, at, j)
<1>1. \A q \in Procs : StageOK(pc[q], job[q])
  BY IInvStages
<1> QED
  BY <1>1 DEF AgreesBut, StageOK

\* Nobody settles a round that is not RESOLVING or beyond.
LEMMA UndecidedHasNoSettler ==
    ASSUME IInv, NEW q \in Procs, DecidedAt(pc[q], job[q])
    PROVE  /\ job[q].round \in Rounds /\ job[q].result \in Colors
           /\ round[job[q].round].status \in {"RESOLVING", "COMPLETED", "CANCELLED"}
<1>1. StageOK(pc[q], job[q])
  BY IInvStages
<1> QED
  BY <1>1 DEF StageOK, DecidedAt, CopySteps, Terminal

-----------------------------------------------------------------------------
(* Bets that change status *)

\* The placed bets of S move from their status to st, which is not PENDING.
LEMMA BetsMove ==
    ASSUME TypeOK, NEW S \in SUBSET Placed, NEW st \in BetStatus \ {"PENDING"},
           bets' = WithStatus(S, st)
    PROVE  /\ Placed' = Placed
           /\ \A k \in Placed : /\ bets'[k].round = bets[k].round /\ bets'[k].choice = bets[k].choice
                                /\ bets'[k].status = IF k \in S THEN st ELSE bets[k].status
           /\ \A r : Pending(r)' = Pending(r) \ S
<1>1. ASSUME NEW k \in BetKeys
      PROVE  /\ k \in Placed' <=> k \in Placed
             /\ k \in Placed =>
                  /\ bets'[k].round = bets[k].round /\ bets'[k].choice = bets[k].choice
                  /\ bets'[k].status = IF k \in S THEN st ELSE bets[k].status
  <2>1. CASE k \in S
    <3>1. bets[k] \in Bet /\ bets'[k] = [bets[k] EXCEPT !.status = st]
      BY <2>1, PlacedIsBet DEF WithStatus
    <3>2. bets'[k] \in Bet
      BY <3>1 DEF Bet
    <3>3. k \in Placed'
      BY <3>2 DEF Placed
    <3>4. /\ bets'[k].round = bets[k].round /\ bets'[k].choice = bets[k].choice
          /\ bets'[k].status = st
      BY <3>1 DEF Bet
    <3> QED
      BY <2>1, <3>3, <3>4
  <2>2. CASE k \notin S
    BY <2>2 DEF Placed, WithStatus
  <2> QED
    BY <2>1, <2>2
<1>2. Placed' = Placed
  BY <1>1 DEF Placed
<1>3. \A k \in Placed : k \in BetKeys
  BY DEF Placed
<1>4. \A r : Pending(r)' = Pending(r) \ S
  BY <1>1, <1>2, <1>3 DEF Pending, BetsOf
<1> QED
  BY <1>1, <1>2, <1>3, <1>4

-----------------------------------------------------------------------------
(* Steps of one process *)

\* The facts every step of p starts from.
LEMMA StepFacts ==
    ASSUME IInv, NEW p \in Procs
    PROVE  /\ TypeOK /\ DbInv /\ StageOK(pc[p], job[p])
           /\ job[p] \in Job /\ job[p].round \in 0 .. MaxRound /\ job[p].result \in Result
           /\ pc[p] \in PC /\ job = [job EXCEPT ![p] = job[p]]
<1>1. TypeOK /\ DbInv /\ StageOK(pc[p], job[p])
  BY IInvStages DEF IInv
<1>2. pc \in [Procs -> PC] /\ job \in [Procs -> Job]
  BY <1>1 DEF TypeOK
<1> QED
  BY <1>1, <1>2 DEF Job

\* A step of p that changes no table and keeps p's copy or takes copy j.
LEMMA LocalStep ==
    ASSUME IInv, TypeOK', NEW p \in Procs, NEW to \in PC, NEW j \in Job,
           Goto(p, to), job' = [job EXCEPT ![p] = j],
           UNCHANGED Tables, UNCHANGED announced,
           StageOK(to, j), AgreesBut(p, to, j)
    PROVE  IInv'
<1>1. /\ DbInv'
      /\ \A q \in Procs \ {p} : DecidedAt(pc[q], job[q]) => Advances(job[q].round, job[q].result)
      /\ DecidedAt(to, j) => Advances(j.round, j.result)
  BY SameTables
<1>2. StageOK(to, j)'
  BY <1>1, KeepStage DEF IInv
<1>3. pc' = [pc EXCEPT ![p] = to]
  BY DEF Goto
<1> QED
  BY <1>1, <1>2, <1>3, ProcStep

\* Branching on a copy of a row changes no table.  A RESOLVING copy must be one
\* e may settle from: fresh from the row, or already held.
LEMMA DispatchKeeps ==
    ASSUME IInv, TypeOK', NEW e \in Engines, NEW r \in Rounds, NEW row \in RoundRow,
           NEW due \in 0 .. 2, Dispatch(e, r, row, due), UNCHANGED Tables, UNCHANGED announced,
           row.status = "RESOLVING" =>
               \/ round[r] = row
               \/ /\ DecidedAt(pc[e], job[e])
                  /\ job[e].round = r /\ job[e].result = row.result
    PROVE  IInv'
<1> DEFINE to == NextStep(row.status, due)
           j  == [round |-> r, status |-> row.status, result |-> row.result, due |-> due]
<1>1. to \in {"open", "lock", "seed", "idle"} /\ to \in PC /\ e \in Procs
  BY DEF NextStep, PC, Procs
<1>2. j \in Job
  BY DEF Job, RoundRow, Rounds
<1>3. CASE to = "idle"
  <2>1. Goto(e, "idle") /\ job' = [job EXCEPT ![e] = NoJob]
    BY <1>3 DEF Dispatch, Done
  <2> QED
    BY <1>1, <2>1, DoneKeeps
<1>4. CASE to # "idle"
  <2>1. Goto(e, to) /\ job' = [job EXCEPT ![e] = j]
    BY <1>4 DEF Dispatch
  <2>2. to = "seed" => row.status \in {"LOCKED", "RESOLVING"}
    BY DEF NextStep
  <2>3. DecidedAt(to, j) => row.status = "RESOLVING" /\ to = "seed"
    BY <1>1, <1>4 DEF DecidedAt, SettlePC
  <2>4. StageOK(to, j) /\ AgreesBut(e, to, j)
    <3>1. CASE row.status # "RESOLVING"
      BY <1>1, <1>4, <2>2, <2>3, <3>1 DEF StageOK, AgreesBut
    <3>2. CASE row.status = "RESOLVING" /\ round[r] = row
      <4>1. /\ row.result \in Colors
            /\ settlement[r].status # "NONE" => settlement[r].result = row.result
        BY <3>2, IInvStages DEF DbInv, UndecidedIsUnsettled
      <4>2. StageOK(to, j)
        BY <1>1, <1>4, <2>2, <2>3, <3>2, <4>1 DEF StageOK
      <4>3. j.round \in Rounds /\ round[j.round].status = "RESOLVING" /\ round[j.round].result = j.result
        BY <3>2
      <4> HIDE DEF j, to
      <4> QED
        BY <1>1, <4>2, <4>3, ResolvingAgrees
    <3>3. CASE /\ row.status = "RESOLVING" /\ DecidedAt(pc[e], job[e])
               /\ job[e].round = r /\ job[e].result = row.result
      <4>1. StageOK(pc[e], job[e])
        BY <1>1, IInvStages
      <4>2. StageOK(to, j)
        BY <1>1, <1>4, <2>2, <2>3, <3>3, <4>1 DEF StageOK
      <4>3. AgreesBut(e, to, j)
        BY <1>1, <3>3, IInvStages DEF AgreesBut
      <4> QED
        BY <4>2, <4>3
    <3> QED
      BY <3>1, <3>2, <3>3
  <2> HIDE DEF j, to
  <2> QED
    BY <1>1, <1>2, <2>1, <2>4, LocalStep
<1> QED
  BY <1>3, <1>4

\* SchedulerService.tick takes the lock.
LEMMA TickKeeps == ASSUME IInv, TypeOK', NEW e \in Engines, Tick(e) PROVE IInv'
<1>1. e \in Procs /\ "read" \in PC
  BY DEF Procs, PC
<1>2. job[e] \in Job /\ job' = [job EXCEPT ![e] = job[e]]
  BY <1>1, StepFacts DEF Tick
<1>3. StageOK("read", job[e])' /\ AgreesBut(e, "read", job[e]) /\ StageOK("read", job[e])
  BY DEF StageOK, AgreesBut, DecidedAt, SettlePC, CopySteps
<1> QED
  BY <1>1, <1>2, <1>3, LocalStep DEF Tick, Tables, dbVars

\* findCurrentRound: a copy of the active round, or of none.
LEMMA ReadCurrentRoundKeeps ==
    ASSUME IInv, TypeOK', NEW e \in Engines, ReadCurrentRound(e) PROVE IInv'
<1>1. /\ e \in Procs /\ "control" \in PC /\ Goto(e, "control") /\ TypeOK /\ DbInv
      /\ UNCHANGED Tables /\ UNCHANGED announced
  BY StepFacts DEF Procs, PC, ReadCurrentRound, Tables, dbVars
<1>2. CASE job' = [job EXCEPT ![e] = NoJob]
  <2>1. NoJob \in Job /\ StageOK("control", NoJob) /\ AgreesBut(e, "control", NoJob)
    BY DEF NoJob, Job, RoundStatus, Result, StageOK, AgreesBut, DecidedAt, SettlePC, CopySteps
  <2> QED
    BY <1>1, <1>2, <2>1, LocalStep
<1>3. ASSUME NEW r \in ActiveRounds,
             job' = [job EXCEPT ![e] = [round |-> r, status |-> round[r].status,
                                        result |-> round[r].result, due |-> 0]]
      PROVE  IInv'
  <2>1. PICK j \in Job :
          /\ job' = [job EXCEPT ![e] = j]
          /\ j.round = r /\ j.status = round[r].status /\ j.result = round[r].result
    <3>1. round[r] \in RoundRow /\ r \in 0 .. MaxRound
      BY <1>1 DEF ActiveRounds, TypeOK, Rounds
    <3>2. [round |-> r, status |-> round[r].status, result |-> round[r].result, due |-> 0] \in Job
      BY <3>1 DEF RoundRow, Job
    <3> QED
      BY <1>3, <3>2
  <2>2. r \in Rounds
    BY DEF ActiveRounds
  <2>3. StageOK("control", j)
    BY <1>1, <2>1, <2>2 DEF StageOK, DecidedAt, SettlePC, CopySteps, DbInv, UndecidedIsUnsettled
  <2>4. AgreesBut(e, "control", j)
    <3>1. CASE round[r].status = "RESOLVING"
      BY <1>1, <2>1, <2>2, <3>1, ResolvingAgrees
    <3>2. CASE round[r].status # "RESOLVING"
      BY <2>1, <3>2 DEF AgreesBut, DecidedAt, SettlePC
    <3> QED
      BY <3>1, <3>2
  <2> QED
    BY <1>1, <2>1, <2>3, <2>4, LocalStep
<1> QED
  BY <1>2, <1>3 DEF ReadCurrentRound

\* getGameControl and the if-chain on the copy.
LEMMA ReadGameControlKeeps ==
    ASSUME IInv, TypeOK', NEW e \in Engines, ReadGameControl(e) PROVE IInv'
<1>1. /\ e \in Procs /\ "latest" \in PC /\ TypeOK /\ job[e] \in Job /\ pc[e] = "control"
      /\ UNCHANGED Tables /\ UNCHANGED announced
  BY StepFacts DEF Procs, PC, ReadGameControl, Tables, dbVars
<1>2. CASE Done(e)
  BY <1>1, <1>2, DoneKeeps DEF Done
<1>3. CASE Continue(e, "latest")
  <2>1. job' = [job EXCEPT ![e] = job[e]]
    BY <1>1, <1>3, StepFacts DEF Continue
  <2>2. AgreesBut(e, "latest", job[e]) /\ StageOK("latest", job[e])
    BY DEF StageOK, AgreesBut, DecidedAt, SettlePC, CopySteps
  <2> QED
    BY <1>1, <1>3, <2>1, <2>2, LocalStep DEF Continue
<1>4. ASSUME job[e].round # 0, NEW due \in Now(job[e].round),
             Dispatch(e, job[e].round, [status |-> job[e].status, result |-> job[e].result], due)
      PROVE  IInv'
  <2>1. PICK r \in Rounds, row \in RoundRow :
          r = job[e].round /\ row = [status |-> job[e].status, result |-> job[e].result]
    BY <1>1, <1>4 DEF Job, Rounds, RoundRow
  <2>2. due \in 0 .. 2
    BY <1>1 DEF Now, TypeOK
  <2>3. row.status = "RESOLVING" =>
          DecidedAt(pc[e], job[e]) /\ job[e].round = r /\ job[e].result = row.result
    BY <1>1, <2>1 DEF DecidedAt
  <2> QED
    BY <1>1, <1>4, <2>1, <2>2, <2>3, DispatchKeeps
<1> QED
  BY <1>2, <1>3, <1>4 DEF ReadGameControl

\* findRoundById after openRound's or lockRound's update.
LEMMA ReadBackKeeps == ASSUME IInv, TypeOK', NEW e \in Engines, ReadBack(e) PROVE IInv'
<1>1. /\ e \in Procs /\ TypeOK /\ StageOK("back", job[e]) /\ job[e].due \in 0 .. 2
      /\ UNCHANGED Tables /\ UNCHANGED announced
  BY StepFacts DEF Procs, ReadBack, Job, Tables, dbVars
<1>2. PICK r \in Rounds, row \in RoundRow : r = job[e].round /\ row = round[r]
  BY <1>1 DEF StageOK, CopySteps, TypeOK
<1>3. Dispatch(e, r, row, job[e].due)
  BY <1>2 DEF ReadBack
<1> QED
  BY <1>1, <1>2, <1>3, DispatchKeeps

-----------------------------------------------------------------------------
(* Steps that move an undecided round forward *)

\* Bets depend on the bets table only.
LEMMA SameBets ==
    ASSUME UNCHANGED bets
    PROVE  Placed' = Placed /\ \A r : Pending(r)' = Pending(r)
  BY DEF Pending, BetsOf, Placed

\* An INIT, OPEN or LOCKED row moves to OPEN, LOCKED or RESOLVING with a result.
LEMMA RowMoves ==
    ASSUME IInv, TypeOK', NEW r \in Rounds, NEW row \in RoundRow,
           round' = [round EXCEPT ![r] = row], UNCHANGED <<bets, settlement, announced>>,
           round[r].status \in {"INIT", "OPEN", "LOCKED"},
           row.status \in {"OPEN", "LOCKED", "RESOLVING"},
           row.status = "RESOLVING" => row.result \in Colors
    PROVE  /\ DbInv'
           /\ \A q \in Procs : DecidedAt(pc[q], job[q]) => Advances(job[q].round, job[q].result)
           /\ \A q \in Procs : DecidedAt(pc[q], job[q]) => job[q].round # r
<1>1. TypeOK /\ DbInv
  BY IInvStages DEF IInv
<1>2. /\ \A s \in Rounds : s # r => round'[s] = round[s]
      /\ round'[r] = row
  BY <1>1 DEF TypeOK
<1>3. Placed' = Placed /\ \A s : Pending(s)' = Pending(s)
  BY SameBets
<1>4. ActiveRounds' = ActiveRounds
  BY <1>2 DEF ActiveRounds, Active
<1>5. DbInv'
  <2>1. OneActiveRound'
    BY <1>1, <1>4 DEF DbInv, OneActiveRound
  <2>2. UndecidedIsUnsettled'
    BY <1>1, <1>2 DEF DbInv, UndecidedIsUnsettled
  <2>3. NoBetLeftBehind'
    BY <1>1, <1>2, <1>3 DEF DbInv, NoBetLeftBehind, Terminal
  <2>4. OutcomeFollowsResult' /\ SuccessIsClean'
    BY <1>1, <1>3 DEF DbInv, OutcomeFollowsResult, SuccessIsClean
  <2>5. CompletedIsSettled'
    BY <1>1, <1>2 DEF DbInv, CompletedIsSettled
  <2> QED
    BY <2>1, <2>2, <2>3, <2>4, <2>5 DEF DbInv
<1>6. ASSUME NEW q \in Procs, DecidedAt(pc[q], job[q])
      PROVE  job[q].round # r /\ Advances(job[q].round, job[q].result)
  <2>1. job[q].round \in Rounds /\ job[q].round # r
    BY <1>6, UndecidedHasNoSettler
  <2>2. ASSUME NEW s \in Rounds \ {r}, NEW res PROVE Advances(s, res)
    <3>1. ASSUME NEW k \in Pending(s)' PROVE k \in Pending(s)
      BY <1>3
    <3> QED
      BY <1>2, <3>1 DEF Advances
  <2> QED
    BY <2>1, <2>2
<1> QED
  BY <1>5, <1>6

\* An undecided row moves on and e keeps its copy.
LEMMA RowStep ==
    ASSUME IInv, TypeOK', NEW e \in Procs, NEW r \in Rounds, NEW st \in {"OPEN", "LOCKED"},
           round[r].status \in {"INIT", "OPEN"}, SetRound(r, st, round[r].result),
           UNCHANGED <<bets, settlement, announced>>,
           Continue(e, "back"), job[e].round \in Rounds
    PROVE  IInv'
<1>1. TypeOK /\ job[e] \in Job /\ "back" \in PC
  BY StepFacts DEF PC
<1>2. PICK row \in RoundRow : row.status = st /\ round' = [round EXCEPT ![r] = row]
  BY <1>1 DEF SetRound, TypeOK, RoundRow, RoundStatus, Active
<1>3. /\ DbInv'
      /\ \A q \in Procs : DecidedAt(pc[q], job[q]) => Advances(job[q].round, job[q].result)
  BY <1>2, RowMoves
<1>4. pc' = [pc EXCEPT ![e] = "back"] /\ job' = [job EXCEPT ![e] = job[e]]
  BY StepFacts DEF Continue, Goto
<1>5. AgreesBut(e, "back", job[e])
  BY DEF AgreesBut, DecidedAt, SettlePC
<1>6. ASSUME NEW j \in Job, j.round \in Rounds PROVE StageOK("back", j)'
  BY <1>6 DEF StageOK, DecidedAt, SettlePC
<1> QED
  BY <1>1, <1>3, <1>4, <1>5, <1>6, ProcStep

\* openRound.
LEMMA OpenRoundKeeps == ASSUME IInv, TypeOK', NEW e \in Engines, OpenRound(e) PROVE IInv'
<1>1. e \in Procs /\ StageOK("open", job[e]) /\ "back" \in PC /\ job[e] \in Job
  BY StepFacts DEF Procs, OpenRound, PC
<1>2. job[e].round \in Rounds /\ Continue(e, "back") /\ UNCHANGED <<bets, settlement, announced>>
  BY <1>1 DEF StageOK, CopySteps, OpenRound
<1>3. CASE round[job[e].round].status = "INIT"
  <2>1. SetRound(job[e].round, "OPEN", round[job[e].round].result)
    BY <1>3 DEF OpenRound
  <2> QED
    BY <1>1, <1>2, <1>3, <2>1, RowStep
<1>4. CASE round[job[e].round].status # "INIT"
  <2>1. UNCHANGED Tables /\ UNCHANGED announced /\ Goto(e, "back") /\ job' = [job EXCEPT ![e] = job[e]]
    BY <1>1, <1>2, <1>4, StepFacts DEF OpenRound, Tables, Continue
  <2>2. AgreesBut(e, "back", job[e]) /\ StageOK("back", job[e])
    BY <1>2 DEF StageOK, AgreesBut, DecidedAt, SettlePC
  <2> QED
    BY <1>1, <2>1, <2>2, LocalStep
<1> QED
  BY <1>3, <1>4

\* lockRound.
LEMMA LockRoundKeeps == ASSUME IInv, TypeOK', NEW e \in Engines, LockRound(e) PROVE IInv'
<1>1. e \in Procs /\ StageOK("lock", job[e])
  BY StepFacts DEF Procs, LockRound
<1>2. job[e].round \in Rounds /\ UNCHANGED <<bets, settlement, announced>>
  BY <1>1 DEF StageOK, CopySteps, LockRound
<1>3. CASE round[job[e].round].status = "OPEN"
  <2>1. SetRound(job[e].round, "LOCKED", round[job[e].round].result) /\ Continue(e, "back")
    BY <1>3 DEF LockRound
  <2> QED
    BY <1>1, <1>2, <1>3, <2>1, RowStep
<1>4. CASE round[job[e].round].status # "OPEN"
  <2>1. Done(e) /\ UNCHANGED Tables /\ UNCHANGED announced
    BY <1>4 DEF LockRound, Tables
  <2> QED
    BY <1>1, <2>1, DoneKeeps DEF Done
<1> QED
  BY <1>3, <1>4

\* The end of createNextRound: the new round is opened.
LEMMA OpenNewRoundKeeps == ASSUME IInv, TypeOK', NEW e \in Engines, OpenNewRound(e) PROVE IInv'
<1> DEFINE r == job[e].round
<1>1. e \in Procs /\ TypeOK /\ StageOK(pc[e], job[e]) /\ NoJob \in Job /\ "idle" \in PC
  BY StepFacts DEF Procs, Job, NoJob, RoundStatus, Result, PC
<1>2. r \in Rounds /\ Done(e)
  BY <1>1 DEF OpenNewRound, StageOK, CopySteps
<1>3. CASE round[r].status = "INIT"
  <2> DEFINE row == [status |-> "OPEN", result |-> round[r].result]
  <2>1. row \in RoundRow /\ row.status = "OPEN"
    BY <1>1, <1>2 DEF TypeOK, RoundRow, RoundStatus, Active
  <2>2. round' = [round EXCEPT ![r] = row] /\ UNCHANGED <<bets, settlement, announced>>
    BY <1>3 DEF OpenNewRound, SetRound
  <2> HIDE DEF row
  <2>3. /\ DbInv'
        /\ \A q \in Procs : DecidedAt(pc[q], job[q]) => Advances(job[q].round, job[q].result)
    BY <1>2, <1>3, <2>1, <2>2, RowMoves
  <2>4. StageOK("idle", NoJob)' /\ AgreesBut(e, "idle", NoJob)
    BY IdleIsFine
  <2>5. pc' = [pc EXCEPT ![e] = "idle"] /\ job' = [job EXCEPT ![e] = NoJob]
    BY <1>2 DEF Done, Goto
  <2> QED
    BY <1>1, <2>3, <2>4, <2>5, ProcStep
<1>4. CASE round[r].status # "INIT"
  <2>1. UNCHANGED Tables /\ UNCHANGED announced
    BY <1>4 DEF OpenNewRound, Tables
  <2> QED
    BY <1>1, <1>2, <2>1, DoneKeeps DEF Done
<1> QED
  BY <1>3, <1>4

\* ReadSeed: a LOCKED copy takes the seed's result, a RESOLVING copy keeps its own.
LEMMA ReadSeedKeeps == ASSUME IInv, TypeOK', NEW e \in Engines, ReadSeed(e) PROVE IInv'
<1> DEFINE j0 == job[e]
<1>1. /\ e \in Procs /\ TypeOK /\ StageOK("seed", j0) /\ j0 \in Job
      /\ UNCHANGED Tables /\ UNCHANGED announced
  BY StepFacts DEF Procs, ReadSeed, Tables, dbVars
<1>2. j0.round \in Rounds /\ j0.status \in {"LOCKED", "RESOLVING"} /\ j0.result \in Result
  BY <1>1 DEF StageOK, CopySteps, Job
<1>3. CASE seed[j0.round] = NoColor
  <2>1. Goto(e, "recover") /\ job' = [job EXCEPT ![e] = j0] /\ "recover" \in PC
    BY <1>1, <1>3, StepFacts DEF ReadSeed, PC
  <2>2. StageOK("recover", j0) /\ AgreesBut(e, "recover", j0)
    BY <1>2 DEF StageOK, AgreesBut, DecidedAt, SettlePC
  <2> HIDE DEF j0
  <2> QED
    BY <1>1, <2>1, <2>2, LocalStep
<1>4. CASE seed[j0.round] # NoColor
  <2> DEFINE res == IF j0.result # NoColor THEN j0.result ELSE seed[j0.round]
             j   == [j0 EXCEPT !.result = res]
             to  == IF j0.status = "LOCKED" THEN "resolving" ELSE "begin"
  <2>1. Goto(e, to) /\ job' = [job EXCEPT ![e] = j]
    BY <1>4 DEF ReadSeed
  <2>2. res \in Colors
    BY <1>1, <1>2, <1>4 DEF TypeOK, Result
  <2>3. j \in Job /\ j.round = j0.round /\ j.result = res /\ j.status = j0.status
    BY <1>1, <2>2 DEF Job, Result
  <2>4. to \in PC /\ (j0.status = "RESOLVING" => to = "begin") /\ (j0.status = "LOCKED" => to = "resolving")
    BY <1>2 DEF PC, SettlePC
  <2>5. j0.status = "RESOLVING" => res = j0.result
    BY <1>1 DEF StageOK, DecidedAt
  <2> HIDE DEF res, j, to
  <2>6. StageOK(to, j) /\ AgreesBut(e, to, j)
    <3>1. CASE j0.status = "LOCKED"
      BY <1>2, <2>2, <2>3, <2>4, <3>1 DEF StageOK, AgreesBut, DecidedAt, SettlePC, CopySteps
    <3>2. CASE j0.status = "RESOLVING"
      <4>1. DecidedAt(pc[e], job[e])
        BY <3>2 DEF DecidedAt, ReadSeed
      <4>2. StageOK(to, j)
        BY <1>1, <1>2, <2>2, <2>3, <2>4, <2>5, <3>2 DEF StageOK, DecidedAt, SettlePC, CopySteps
      <4>3. AgreesBut(e, to, j)
        BY <1>1, <2>3, <2>5, <3>2, <4>1, IInvStages DEF AgreesBut
      <4> QED
        BY <4>2, <4>3
    <3> QED
      BY <1>2, <3>1, <3>2
  <2> QED
    BY <1>1, <2>1, <2>3, <2>4, <2>6, LocalStep
<1> QED
  BY <1>3, <1>4

\* MarkResolving: the LOCKED round, which nobody is settling, gets its result.
LEMMA MarkResolvingKeeps == ASSUME IInv, TypeOK', NEW e \in Engines, MarkResolving(e) PROVE IInv'
<1> DEFINE r == job[e].round
<1>1. /\ e \in Procs /\ TypeOK /\ StageOK("resolving", job[e]) /\ job[e] \in Job
      /\ "begin" \in PC
  BY StepFacts DEF Procs, MarkResolving, PC, SettlePC
<1>2. r \in Rounds /\ job[e].result \in Colors
  BY <1>1 DEF StageOK, CopySteps
<1>3. CASE round[r].status = "LOCKED"
  <2> DEFINE row == [status |-> "RESOLVING", result |-> job[e].result]
  <2>1. row \in RoundRow /\ row.status = "RESOLVING" /\ row.result = job[e].result
    BY <1>1, <1>2 DEF RoundRow, RoundStatus, Active, Result
  <2>2. /\ round' = [round EXCEPT ![r] = row] /\ UNCHANGED <<bets, settlement, announced>>
        /\ pc' = [pc EXCEPT ![e] = "begin"] /\ job' = [job EXCEPT ![e] = job[e]]
    BY <1>1, <1>3, StepFacts DEF MarkResolving, SetRound, Continue, Goto
  <2>3. round'[r] = row
    BY <1>1, <1>2, <2>2 DEF TypeOK
  <2> HIDE DEF row
  <2>4. /\ DbInv'
        /\ \A q \in Procs : DecidedAt(pc[q], job[q]) => Advances(job[q].round, job[q].result)
        /\ \A q \in Procs : DecidedAt(pc[q], job[q]) => job[q].round # r
    BY <1>2, <1>3, <2>1, <2>2, RowMoves
  <2>5. AgreesBut(e, "begin", job[e])
    BY <2>4 DEF AgreesBut
  <2>6. settlement'[r].status = "NONE"
    BY <1>1, <1>2, <1>3, <2>2, StepFacts DEF DbInv, UndecidedIsUnsettled
  <2>7. ASSUME NEW j \in Job, j = job[e] PROVE StageOK("begin", j)'
    BY <1>2, <2>1, <2>3, <2>6, <2>7 DEF StageOK, DecidedAt
  <2> QED
    BY <1>1, <2>2, <2>4, <2>5, <2>7, ProcStep
<1>4. CASE round[r].status # "LOCKED"
  <2>1. Done(e) /\ UNCHANGED Tables /\ UNCHANGED announced
    BY <1>4 DEF MarkResolving, Tables
  <2> QED
    BY <1>1, <2>1, DoneKeeps DEF Done
<1> QED
  BY <1>3, <1>4

\* forceResult's transaction: an undecided round gets the result, or a RESOLVING
\* round already has it.
LEMMA ForceResultKeeps ==
    ASSUME IInv, TypeOK', NEW a \in Admins, NEW c \in Colors, ForceResult(a, c) PROVE IInv'
<1> DEFINE row == [status |-> "RESOLVING", result |-> c]
<1>1. PICK r \in ActiveRounds :
         /\ round[r].result \in {NoColor, c}
         /\ round' = [round EXCEPT ![r] = row]
         /\ job' = [job EXCEPT ![a] = [round |-> r, status |-> "RESOLVING", result |-> c, due |-> 0]]
  BY DEF ForceResult, SetRound
<1> DEFINE j == [round |-> r, status |-> "RESOLVING", result |-> c, due |-> 0]
<1>2. /\ a \in Procs /\ TypeOK /\ DbInv /\ r \in Rounds /\ round[r].status \in Active
      /\ UNCHANGED <<bets, settlement, announced>> /\ pc' = [pc EXCEPT ![a] = "forced"] /\ "forced" \in PC
  BY StepFacts DEF Procs, ActiveRounds, ForceResult, Goto, PC
<1>3. /\ row \in RoundRow /\ j \in Job /\ round'[r] = row
  BY <1>1, <1>2 DEF RoundRow, RoundStatus, Active, Result, Job, Rounds, TypeOK
<1>4. CASE round[r].status = "RESOLVING"
  <2>1. round[r].result = c
    BY <1>1, <1>2, <1>4 DEF DbInv, UndecidedIsUnsettled
  <2>2. round[r] = row
    BY <1>2, <1>4, <2>1 DEF TypeOK, RoundRow
  <2>3. UNCHANGED Tables /\ UNCHANGED announced
    BY <1>1, <1>2, <2>2 DEF Tables, TypeOK
  <2>4. StageOK("forced", j)
    BY <1>2, <1>4, <2>1 DEF StageOK, DbInv, UndecidedIsUnsettled, SettlePC
  <2>5. AgreesBut(a, "forced", j)
    <3>1. j.round \in Rounds /\ round[j.round].status = "RESOLVING" /\ round[j.round].result = j.result
      BY <1>2, <1>4, <2>1
    <3> HIDE DEF j
    <3> QED
      BY <1>2, <3>1, ResolvingAgrees
  <2> HIDE DEF row
  <2>6. job' = [job EXCEPT ![a] = j] /\ Goto(a, "forced")
    BY <1>1, <1>2 DEF Goto
  <2> HIDE DEF j
  <2> QED
    BY <1>2, <1>3, <2>3, <2>4, <2>5, <2>6, LocalStep
<1>5. CASE round[r].status # "RESOLVING"
  <2>1. /\ round[r].status \in {"INIT", "OPEN", "LOCKED"}
        /\ row.status = "RESOLVING" /\ row.result \in Colors
    BY <1>2, <1>5 DEF Active
  <2>2. settlement'[r].status = "NONE"
    BY <1>2, <2>1 DEF DbInv, UndecidedIsUnsettled
  <2>3. round'[r].status = "RESOLVING" /\ round'[r].result = c
    BY <1>3
  <2>4. round' = [round EXCEPT ![r] = row] /\ job' = [job EXCEPT ![a] = j]
    BY <1>1
  <2> HIDE DEF row
  <2>5. /\ DbInv'
        /\ \A q \in Procs : DecidedAt(pc[q], job[q]) => Advances(job[q].round, job[q].result)
        /\ \A q \in Procs : DecidedAt(pc[q], job[q]) => job[q].round # r
    BY <1>2, <1>3, <2>1, <2>4, RowMoves
  <2>6. StageOK("forced", j)'
    BY <1>2, <2>2, <2>3 DEF StageOK, DecidedAt, SettlePC
  <2>7. AgreesBut(a, "forced", j)
    BY <2>5 DEF AgreesBut
  <2> HIDE DEF j
  <2> QED
    BY <1>2, <1>3, <2>4, <2>5, <2>6, <2>7, ProcStep
<1> QED
  BY <1>4, <1>5

-----------------------------------------------------------------------------
(* Cancelling and creating rounds *)

\* The rounds of R are cancelled with all their pending bets; rounds may be created.
LEMMA CancelTables ==
    ASSUME IInv, TypeOK', NEW R \in SUBSET ActiveRounds, NEW S \in SUBSET Placed,
           \A r \in R : Pending(r) \subseteq S,
           bets' = WithStatus(S, "CANCELLED"),
           \A r \in Rounds :
               \/ r \in R /\ round'[r].status = "CANCELLED"
               \/ r \notin R /\ round'[r] = round[r]
               \/ r \notin R /\ round[r].status = "ABSENT" /\ round'[r].status \in {"INIT", "OPEN"},
           UNCHANGED <<settlement, announced>>, OneActiveRound'
    PROVE  /\ DbInv'
           /\ \A q \in Procs : DecidedAt(pc[q], job[q]) => Advances(job[q].round, job[q].result)
<1>1. TypeOK /\ DbInv
  BY IInvStages DEF IInv
<1>2. "CANCELLED" \in BetStatus \ {"PENDING"}
  BY DEF BetStatus
<1>3. /\ Placed' = Placed
      /\ \A k \in Placed : /\ bets'[k].round = bets[k].round /\ bets'[k].choice = bets[k].choice
                           /\ bets'[k].status = IF k \in S THEN "CANCELLED" ELSE bets[k].status
      /\ \A r : Pending(r)' = Pending(r) \ S
  BY <1>1, <1>2, BetsMove
<1>4. \A r \in R : Pending(r)' = {}
  BY <1>3
<1>5. UndecidedIsUnsettled'
  BY <1>1 DEF DbInv, UndecidedIsUnsettled
<1>6. NoBetLeftBehind'
  <2>1. ASSUME NEW r \in Rounds, round'[r].status \in Terminal PROVE Pending(r)' = {}
    <3>1. CASE r \in R
      BY <1>4, <3>1
    <3>2. CASE r \notin R
      <4>1. round'[r] = round[r]
        BY <2>1, <3>2 DEF Terminal
      <4>2. Pending(r) = {}
        BY <1>1, <2>1, <4>1 DEF DbInv, NoBetLeftBehind
      <4> QED
        BY <1>3, <4>2
    <3> QED
      BY <3>1, <3>2
  <2> QED
    BY <2>1 DEF NoBetLeftBehind
<1>7. OutcomeFollowsResult'
  BY <1>1, <1>3 DEF DbInv, OutcomeFollowsResult
<1>8. CompletedIsSettled'
  BY <1>1 DEF DbInv, CompletedIsSettled
<1>9. SuccessIsClean'
  <2>1. ASSUME NEW r \in Rounds, settlement'[r].status = "SUCCESS" PROVE Pending(r)' = {}
    <3>1. Pending(r) = {}
      BY <1>1, <2>1 DEF DbInv, SuccessIsClean
    <3> QED
      BY <1>3, <3>1
  <2> QED
    BY <2>1 DEF SuccessIsClean
<1>10. ASSUME NEW q \in Procs, DecidedAt(pc[q], job[q]) PROVE Advances(job[q].round, job[q].result)
  <2>1. /\ job[q].round \in Rounds
        /\ round[job[q].round].status \in {"RESOLVING", "COMPLETED", "CANCELLED"}
    BY <1>10, UndecidedHasNoSettler
  <2>2. ASSUME NEW r \in Rounds, NEW res, round[r].status \in {"RESOLVING", "COMPLETED", "CANCELLED"}
        PROVE  Advances(r, res)
    <3>1. ASSUME NEW k \in Pending(r)' PROVE k \in Pending(r) /\ bets'[k].choice = bets[k].choice
      BY <1>3, PendingPlaced
    <3>2. round'[r] = round[r] \/ round'[r].status \in Terminal
      BY <2>2 DEF Terminal
    <3> QED
      BY <3>1, <3>2 DEF Advances
  <2> QED
    BY <2>1, <2>2
<1> QED
  BY <1>1, <1>5, <1>6, <1>7, <1>8, <1>9, <1>10 DEF DbInv

\* recoverUnresolvableRound.
LEMMA RecoverRoundKeeps == ASSUME IInv, TypeOK', NEW e \in Engines, RecoverRound(e) PROVE IInv'
<1> DEFINE r == job[e].round
<1>1. /\ e \in Procs /\ TypeOK /\ DbInv /\ StageOK("recover", job[e]) /\ job[e] \in Job
      /\ "latest" \in PC
  BY StepFacts DEF Procs, RecoverRound, PC
<1>2. r \in Rounds
  BY <1>1 DEF StageOK, CopySteps
<1>3. /\ pc' = [pc EXCEPT ![e] = "latest"] /\ job' = [job EXCEPT ![e] = job[e]]
      /\ UNCHANGED <<settlement, announced>>
  BY <1>1, StepFacts DEF RecoverRound, Continue, Goto
<1>4. AgreesBut(e, "latest", job[e]) /\ StageOK("latest", job[e])
  BY DEF StageOK, AgreesBut, DecidedAt, SettlePC, CopySteps
<1>5. ASSUME NEW j \in Job PROVE StageOK("latest", j)'
  BY DEF StageOK, DecidedAt, SettlePC, CopySteps
<1>6. CASE round[r].status \in Active
  <2>1. /\ round' = [round EXCEPT ![r] = [status |-> "CANCELLED", result |-> NoColor]]
        /\ bets' = WithStatus(Pending(r), "CANCELLED")
    BY <1>6 DEF RecoverRound, SetRound, RefundBets
  <2>2. /\ round'[r].status = "CANCELLED"
        /\ \A s \in Rounds : s # r => round'[s] = round[s]
    BY <1>1, <1>2, <2>1 DEF TypeOK
  <2>3. OneActiveRound'
    BY <1>1, <2>2 DEF DbInv, OneActiveRound, ActiveRounds, Active
  <2>4. {r} \in SUBSET ActiveRounds /\ Pending(r) \in SUBSET Placed
    BY <1>2, <1>6, PendingPlaced DEF ActiveRounds
  <2>5. /\ DbInv'
        /\ \A q \in Procs : DecidedAt(pc[q], job[q]) => Advances(job[q].round, job[q].result)
    <3> HIDE DEF r
    <3>1. \A s \in {r} : Pending(s) \subseteq Pending(r)
      OBVIOUS
    <3>2. \A s \in Rounds : \/ s \in {r} /\ round'[s].status = "CANCELLED"
                            \/ s \notin {r} /\ round'[s] = round[s]
      BY <2>2
    <3> QED
      BY <1>3, <2>1, <2>3, <2>4, <3>1, <3>2, CancelTables
  <2> QED
    BY <1>1, <1>3, <1>4, <1>5, <2>5, ProcStep
<1>7. CASE round[r].status \notin Active
  <2>1. UNCHANGED Tables /\ UNCHANGED announced
    BY <1>3, <1>7 DEF RecoverRound, Tables
  <2>2. Goto(e, "latest")
    BY <1>3 DEF Goto
  <2> QED
    BY <1>1, <1>3, <1>4, <2>1, <2>2, LocalStep
<1> QED
  BY <1>6, <1>7

\* forceStopRound.
LEMMA ForceStopRoundKeeps == ASSUME IInv, TypeOK', ForceStopRound PROVE IInv'
<1>1. PICK r \in ActiveRounds :
        /\ round' = [round EXCEPT ![r] = [status |-> "CANCELLED", result |-> round[r].result]]
        /\ bets' = WithStatus(Pending(r), "CANCELLED")
  BY DEF ForceStopRound, SetRound, RefundBets
<1>2. TypeOK /\ DbInv /\ r \in Rounds
  BY IInvStages DEF IInv, ActiveRounds
<1>3. /\ round'[r].status = "CANCELLED"
      /\ \A s \in Rounds : s # r => round'[s] = round[s]
  BY <1>1, <1>2 DEF TypeOK
<1>4. OneActiveRound'
  BY <1>2, <1>3 DEF DbInv, OneActiveRound, ActiveRounds, Active
<1>5. {r} \in SUBSET ActiveRounds /\ Pending(r) \in SUBSET Placed
  BY PendingPlaced
<1>6. UNCHANGED <<settlement, announced>> /\ UNCHANGED <<pc, job>>
  BY DEF ForceStopRound, procVars
<1>7. /\ DbInv'
      /\ \A q \in Procs : DecidedAt(pc[q], job[q]) => Advances(job[q].round, job[q].result)
  BY <1>1, <1>3, <1>4, <1>5, <1>6, CancelTables
<1> QED
  BY <1>6, <1>7, StaticStep

\* forceStartRound.
LEMMA ForceStartRoundKeeps ==
    ASSUME IInv, TypeOK', NEW c \in Colors, NEW n \in Rounds, ForceStartRound(c, n) PROVE IInv'
<1> DEFINE S == UNION {Pending(r) : r \in ActiveRounds}
<1>1. /\ bets' = WithStatus(S, "CANCELLED")
      /\ UNCHANGED <<settlement, announced>> /\ UNCHANGED <<pc, job>>
  BY DEF ForceStartRound, RefundBets, procVars
<1>2. TypeOK /\ DbInv /\ round[n].status = "ABSENT" /\ n \notin ActiveRounds
  BY IInvStages DEF IInv, ForceStartRound, ActiveRounds, Active
<1>3. /\ round'[n].status = "OPEN"
      /\ \A r \in ActiveRounds : round'[r].status = "CANCELLED"
      /\ \A r \in Rounds : r # n /\ r \notin ActiveRounds => round'[r] = round[r]
  <2>1. ASSUME NEW r \in Rounds PROVE [round[r] EXCEPT !.status = "CANCELLED"].status = "CANCELLED"
    BY <1>2 DEF TypeOK, RoundRow
  <2> QED
    BY <1>2, <2>1 DEF ForceStartRound, ActiveRounds
<1>4. OneActiveRound'
  BY <1>3 DEF OneActiveRound, ActiveRounds, Active
<1> HIDE DEF S
<1>5. S \in SUBSET Placed /\ \A r \in ActiveRounds : Pending(r) \subseteq S
  BY PendingPlaced DEF S
<1>6. \A r \in Rounds :
        \/ r \in ActiveRounds /\ round'[r].status = "CANCELLED"
        \/ r \notin ActiveRounds /\ round'[r] = round[r]
        \/ r \notin ActiveRounds /\ round[r].status = "ABSENT" /\ round'[r].status \in {"INIT", "OPEN"}
  BY <1>2, <1>3
<1>7. /\ DbInv'
      /\ \A q \in Procs : DecidedAt(pc[q], job[q]) => Advances(job[q].round, job[q].result)
  BY <1>1, <1>4, <1>5, <1>6, CancelTables
<1> QED
  BY <1>1, <1>7, StaticStep

\* createNextRound's transaction.
LEMMA CreateRoundKeeps ==
    ASSUME IInv, TypeOK', NEW e \in Engines, NEW c \in Colors, CreateRound(e, c) PROVE IInv'
<1>1. e \in Procs /\ TypeOK /\ DbInv /\ job[e] \in Job /\ "openNew" \in PC
  BY StepFacts DEF Procs, PC
<1>2. PICK n \in Rounds, j \in Job :
        /\ n = job[e].round + 1 /\ j = [job[e] EXCEPT !.round = n]
  <2>1. job[e].round + 1 \in Rounds
    BY DEF CreateRound, CanCreate
  <2>2. [job[e] EXCEPT !.round = job[e].round + 1] \in Job
    BY <1>1, <2>1 DEF Job, Rounds
  <2> QED
    BY <2>1, <2>2
<1>3. /\ round[n].status = "ABSENT" /\ ActiveRounds = {} /\ j.round = n
      /\ round' = [round EXCEPT ![n] = [status |-> "INIT", result |-> NoColor]]
      /\ UNCHANGED <<bets, settlement, announced>>
      /\ pc' = [pc EXCEPT ![e] = "openNew"] /\ job' = [job EXCEPT ![e] = j]
  BY <1>1, <1>2 DEF CreateRound, CanCreate, SetRound, Goto, Job
<1>4. /\ round'[n].status = "INIT"
      /\ \A r \in Rounds : r # n => round'[r] = round[r]
  BY <1>1, <1>3 DEF TypeOK
<1>5. OneActiveRound'
  BY <1>3, <1>4 DEF OneActiveRound, ActiveRounds
<1>6. bets' = WithStatus({}, "CANCELLED")
  BY <1>1, <1>3 DEF TypeOK, WithStatus
<1>7. \A r \in Rounds : \/ r \notin {} /\ round'[r] = round[r]
                        \/ r \notin {} /\ round[r].status = "ABSENT" /\ round'[r].status \in {"INIT", "OPEN"}
  BY <1>3, <1>4
<1>8. /\ DbInv'
      /\ \A q \in Procs : DecidedAt(pc[q], job[q]) => Advances(job[q].round, job[q].result)
  <2>1. {} \in SUBSET ActiveRounds /\ {} \in SUBSET Placed /\ \A r \in {} : Pending(r) \subseteq {}
    OBVIOUS
  <2> QED
    BY <1>3, <1>5, <1>6, <1>7, <2>1, CancelTables
<1>9. StageOK("openNew", j)' /\ AgreesBut(e, "openNew", j)
  BY <1>3 DEF StageOK, AgreesBut, DecidedAt, SettlePC
<1> QED
  BY <1>1, <1>3, <1>8, <1>9, ProcStep

-----------------------------------------------------------------------------
(* Settling *)

\* A settler p has a round, a result, and the agreement of the other settlers.
LEMMA SettlerFacts ==
    ASSUME IInv, NEW p \in Procs, pc[p] \in SettlePC
    PROVE  /\ job[p].round \in Rounds /\ job[p].result \in Colors
           /\ round[job[p].round].status \in {"RESOLVING", "COMPLETED", "CANCELLED"}
           /\ round[job[p].round].status = "RESOLVING" => round[job[p].round].result = job[p].result
           /\ settlement[job[p].round].status # "NONE" => settlement[job[p].round].result = job[p].result
           /\ \A at \in SettlePC : AgreesBut(p, at, job[p])
           /\ \A q \in Procs : DecidedAt(pc[q], job[q]) /\ job[q].round = job[p].round
                                => job[q].result = job[p].result
<1>1. StageOK(pc[p], job[p]) /\ DecidedAt(pc[p], job[p])
  BY IInvStages DEF DecidedAt
<1>2. \A q \in Procs : DecidedAt(pc[q], job[q]) /\ job[q].round = job[p].round
                                => job[q].result = job[p].result
  BY <1>1, IInvStages
<1> QED
  BY <1>1, <1>2 DEF StageOK, CopySteps, Terminal, AgreesBut

\* beginRoundSettlementInTx.
LEMMA BeginSettlementKeeps == ASSUME IInv, TypeOK', NEW p \in Procs, BeginSettlement(p) PROVE IInv'
<1>1. PICK r \in Rounds, res \in Colors, j \in Job :
        r = job[p].round /\ res = job[p].result /\ j = job[p] /\ j.round = r /\ j.result = res
  BY StepFacts, SettlerFacts DEF BeginSettlement, SettlePC
<1> DEFINE to == IF settlement[r].status = "SUCCESS" THEN "finish" ELSE "losers"
<1>2. /\ TypeOK /\ DbInv /\ pc[p] \in SettlePC
      /\ pc' = [pc EXCEPT ![p] = to] /\ job' = [job EXCEPT ![p] = j]
      /\ UNCHANGED <<round, bets, announced>>
  BY <1>1, StepFacts DEF BeginSettlement, Continue, Goto, SettlePC
<1>3. Placed' = Placed /\ \A s : Pending(s)' = Pending(s)
  BY <1>2, SameBets
<1>4. CASE settlement[r].status = "NONE"
  <2>1. /\ \A s \in Rounds : s # r => settlement'[s] = settlement[s]
        /\ settlement'[r].status = "PENDING" /\ settlement'[r].result = res
    BY <1>1, <1>2, <1>4 DEF BeginSettlement, TypeOK
  <2>2. DbInv'
    <3>1. OneActiveRound' /\ NoBetLeftBehind'
      BY <1>2, <1>3 DEF DbInv, OneActiveRound, NoBetLeftBehind, ActiveRounds
    <3>2. UndecidedIsUnsettled'
      BY <1>1, <1>2, <2>1, SettlerFacts DEF DbInv, UndecidedIsUnsettled
    <3>3. OutcomeFollowsResult'
      <4>1. ASSUME NEW k \in Placed, bets[k].status \in {"WON", "LOST"} PROVE bets[k].round # r
        BY <1>2, <1>4, <4>1 DEF DbInv, OutcomeFollowsResult
      <4>2. \A k \in Placed : bets[k].round \in Rounds
        BY <1>2, PlacedIsBet DEF Bet
      <4>3. ASSUME NEW k \in Placed, bets[k].status \in {"WON", "LOST"}
            PROVE  /\ settlement'[bets[k].round].status # "NONE"
                   /\ bets[k].status = "WON" <=> bets[k].choice = settlement'[bets[k].round].result
        <5>1. settlement'[bets[k].round] = settlement[bets[k].round]
          BY <2>1, <4>1, <4>2, <4>3
        <5> QED
          BY <1>2, <4>3, <5>1 DEF DbInv, OutcomeFollowsResult
      <4> QED
        BY <1>2, <1>3, <4>3 DEF OutcomeFollowsResult
    <3>4. CompletedIsSettled'
      <4>1. \A a \in announced : a.round \in Rounds /\ a.round # r
        BY <1>2, <1>4 DEF DbInv, CompletedIsSettled, TypeOK
      <4>2. round[r].status # "COMPLETED"
        BY <1>2, <1>4 DEF DbInv, CompletedIsSettled
      <4> QED
        BY <1>2, <2>1, <4>1, <4>2 DEF DbInv, CompletedIsSettled
    <3>5. SuccessIsClean'
      BY <1>2, <1>3, <2>1 DEF DbInv, SuccessIsClean
    <3> QED
      BY <3>1, <3>2, <3>3, <3>4, <3>5 DEF DbInv
  <2>3. ASSUME NEW q \in Procs, DecidedAt(pc[q], job[q]) PROVE Advances(job[q].round, job[q].result)
    <3>1. job[q].round \in Rounds /\ (job[q].round = r => job[q].result = res)
      BY <1>1, <1>2, <2>3, SettlerFacts, UndecidedHasNoSettler
    <3>2. ASSUME NEW s \in Rounds, NEW v, s = r => v = res PROVE Advances(s, v)
      BY <1>2, <1>3, <1>4, <2>1, <3>2 DEF Advances
    <3> QED
      BY <3>1, <3>2
  <2>4. to = "losers" /\ "losers" \in PC /\ "losers" \in SettlePC
    BY <1>4 DEF PC, SettlePC
  <2>5. StageOK("losers", j)' /\ AgreesBut(p, "losers", j)
    BY <1>1, <1>2, <2>1, <2>4, SettlerFacts DEF StageOK, CopySteps, Terminal
  <2> QED
    BY <1>2, <2>2, <2>3, <2>4, <2>5, ProcStep
<1>5. CASE settlement[r].status # "NONE"
  <2>1. UNCHANGED Tables /\ UNCHANGED announced /\ Goto(p, to)
    BY <1>1, <1>2, <1>5 DEF BeginSettlement, Tables, Goto
  <2>2. to \in {"losers", "finish"} /\ to \in PC /\ to \in SettlePC
    BY DEF PC, SettlePC
  <2>3. StageOK(to, j) /\ AgreesBut(p, to, j)
    BY <1>1, <1>2, <1>5, <2>2, SettlerFacts DEF StageOK, CopySteps, Terminal
  <2> HIDE DEF to
  <2> QED
    BY <1>2, <2>1, <2>2, <2>3, LocalStep
<1> QED
  BY <1>4, <1>5

\* Pending bets of r are decided: LOST if they miss the settled result, WON if
\* they match it.
LEMMA DecideBets ==
    ASSUME IInv, TypeOK', NEW r \in Rounds, NEW S \in SUBSET Pending(r), NEW st \in {"WON", "LOST"},
           settlement[r].status # "NONE",
           \A k \in S : st = "WON" <=> bets[k].choice = settlement[r].result,
           bets' = WithStatus(S, st), UNCHANGED <<round, settlement, announced>>
    PROVE  /\ DbInv'
           /\ \A s, res : Advances(s, res)
           /\ \A s : Pending(s)' = Pending(s) \ S
           /\ \A k \in Placed : bets'[k].choice = bets[k].choice
<1>1. TypeOK /\ DbInv
  BY IInvStages DEF IInv
<1>2. S \in SUBSET Placed /\ st \in BetStatus \ {"PENDING"}
  BY PendingPlaced DEF BetStatus
<1>3. /\ Placed' = Placed
      /\ \A k \in Placed : /\ bets'[k].round = bets[k].round /\ bets'[k].choice = bets[k].choice
                           /\ bets'[k].status = IF k \in S THEN st ELSE bets[k].status
      /\ \A s : Pending(s)' = Pending(s) \ S
  BY <1>1, <1>2, BetsMove
<1>4. \A k \in S : bets[k].round = r
  BY DEF Pending, BetsOf
<1>5. OneActiveRound' /\ UndecidedIsUnsettled' /\ CompletedIsSettled'
  BY <1>1 DEF DbInv, OneActiveRound, UndecidedIsUnsettled, CompletedIsSettled, ActiveRounds
<1>6. NoBetLeftBehind' /\ SuccessIsClean'
  <2>1. ASSUME NEW s \in Rounds, Pending(s) = {} PROVE Pending(s)' = {}
    BY <1>3, <2>1
  <2> QED
    BY <1>1, <2>1 DEF DbInv, NoBetLeftBehind, SuccessIsClean
<1>7. OutcomeFollowsResult'
  <2>1. ASSUME NEW k \in Placed, bets'[k].status \in {"WON", "LOST"}
        PROVE  /\ settlement[bets[k].round].status # "NONE"
               /\ bets'[k].status = "WON" <=> bets[k].choice = settlement[bets[k].round].result
    <3>1. CASE k \in S
      BY <1>3, <1>4, <2>1, <3>1
    <3>2. CASE k \notin S
      BY <1>1, <1>3, <2>1, <3>2 DEF DbInv, OutcomeFollowsResult
    <3> QED
      BY <3>1, <3>2
  <2> QED
    BY <1>3, <2>1 DEF OutcomeFollowsResult
<1>8. ASSUME NEW s, NEW res PROVE Advances(s, res)
  <2>1. ASSUME NEW k \in Pending(s)' PROVE k \in Pending(s) /\ bets'[k].choice = bets[k].choice
    BY <1>3, PendingPlaced
  <2> QED
    BY <2>1 DEF Advances
<1> QED
  BY <1>3, <1>5, <1>6, <1>7, <1>8 DEF DbInv

\* markLosingBetsForRound.
LEMMA MarkLosingBetsKeeps == ASSUME IInv, TypeOK', NEW p \in Procs, MarkLosingBets(p) PROVE IInv'
<1>1. PICK r \in Rounds, res \in Colors, j \in Job :
        r = job[p].round /\ res = job[p].result /\ j = job[p] /\ j.round = r /\ j.result = res
  BY StepFacts, SettlerFacts DEF MarkLosingBets, SettlePC
<1> DEFINE S == {k \in Pending(r) : bets[k].choice # res}
<1>2. /\ pc' = [pc EXCEPT ![p] = "winners"] /\ job' = [job EXCEPT ![p] = j] /\ "winners" \in PC
      /\ UNCHANGED <<round, settlement, announced>> /\ bets' = WithStatus(S, "LOST")
      /\ pc[p] \in SettlePC /\ "winners" \in SettlePC
  BY <1>1, StepFacts DEF MarkLosingBets, Continue, Goto, PC, SettlePC
<1>3. settlement[r].status # "NONE" /\ settlement[r].result = res
  BY <1>1, <1>2, StepFacts, SettlerFacts DEF MarkLosingBets, StageOK
<1>4. S \in SUBSET Pending(r) /\ \A k \in S : "LOST" = "WON" <=> bets[k].choice = settlement[r].result
  BY <1>3
<1>5. \A k \in Pending(r) \ S : bets[k].choice = res
  OBVIOUS
<1> HIDE DEF S
<1>6. /\ DbInv' /\ \A s, v : Advances(s, v)
      /\ Pending(r)' = Pending(r) \ S /\ \A k \in Placed : bets'[k].choice = bets[k].choice
  BY <1>2, <1>3, <1>4, DecideBets
<1>7. \A k \in Pending(r)' : bets'[k].choice = res
  BY <1>5, <1>6, PendingPlaced
<1>8. StageOK("winners", j)' /\ AgreesBut(p, "winners", j)
  BY <1>1, <1>2, <1>3, <1>7, SettlerFacts DEF StageOK, CopySteps, Terminal
<1>9. \A q \in Procs \ {p} : DecidedAt(pc[q], job[q]) => Advances(job[q].round, job[q].result)
  BY <1>6
<1> QED
  BY <1>2, <1>6, <1>8, <1>9, ProcStep

\* settleWinnerUser.
LEMMA SettleWinnerUserKeeps ==
    ASSUME IInv, TypeOK', NEW p \in Procs, NEW u \in Users, SettleWinnerUser(p, u) PROVE IInv'
<1>1. PICK r \in Rounds, res \in Colors, j \in Job :
        r = job[p].round /\ res = job[p].result /\ j = job[p] /\ j.round = r /\ j.result = res
  BY StepFacts, SettlerFacts DEF SettleWinnerUser, SettlePC
<1> DEFINE S == WinnerBets(r, res, u)
<1>2. /\ pc' = [pc EXCEPT ![p] = "winners"] /\ job' = [job EXCEPT ![p] = j] /\ "winners" \in PC
      /\ UNCHANGED <<round, settlement, announced>> /\ bets' = WithStatus(S, "WON")
      /\ pc[p] \in SettlePC /\ "winners" \in SettlePC
  BY <1>1, StepFacts DEF SettleWinnerUser, Continue, Goto, PC, SettlePC
<1>3. settlement[r].status # "NONE" /\ settlement[r].result = res
  BY <1>1, <1>2, StepFacts, SettlerFacts DEF SettleWinnerUser, StageOK
<1>4. S \in SUBSET Pending(r) /\ \A k \in S : "WON" = "WON" <=> bets[k].choice = settlement[r].result
  BY <1>3 DEF WinnerBets
<1>5. \A k \in Pending(r) : bets[k].choice = res
  BY <1>1, StepFacts DEF SettleWinnerUser, StageOK
<1> HIDE DEF S
<1>6. /\ DbInv' /\ \A s, v : Advances(s, v)
      /\ Pending(r)' = Pending(r) \ S /\ \A k \in Placed : bets'[k].choice = bets[k].choice
  BY <1>2, <1>3, <1>4, DecideBets
<1>7. \A k \in Pending(r)' : bets'[k].choice = res
  BY <1>5, <1>6, PendingPlaced
<1>8. StageOK("winners", j)' /\ AgreesBut(p, "winners", j)
  BY <1>1, <1>2, <1>3, <1>7, SettlerFacts DEF StageOK, CopySteps, Terminal
<1>9. \A q \in Procs \ {p} : DecidedAt(pc[q], job[q]) => Advances(job[q].round, job[q].result)
  BY <1>6
<1> QED
  BY <1>2, <1>6, <1>8, <1>9, ProcStep

\* The winners loop ends.
LEMMA WinnersDoneKeeps == ASSUME IInv, TypeOK', NEW p \in Procs, WinnersDone(p) PROVE IInv'
<1>1. /\ Goto(p, "success") /\ job' = [job EXCEPT ![p] = job[p]] /\ job[p] \in Job
      /\ UNCHANGED Tables /\ UNCHANGED announced
      /\ pc[p] \in SettlePC /\ "success" \in SettlePC /\ "success" \in PC
  BY StepFacts DEF WinnersDone, Continue, Tables, dbVars, PC, SettlePC
<1>2. settlement[job[p].round].status # "NONE" /\ Pending(job[p].round) = {}
  BY StepFacts DEF WinnersDone, StageOK
<1>3. StageOK("success", job[p]) /\ AgreesBut(p, "success", job[p])
  BY <1>1, <1>2, SettlerFacts DEF StageOK, CopySteps, Terminal
<1> QED
  BY <1>1, <1>3, LocalStep

\* completeRoundSettlement.
LEMMA CompleteSettlementKeeps ==
    ASSUME IInv, TypeOK', NEW p \in Procs, CompleteSettlement(p) PROVE IInv'
<1>1. PICK r \in Rounds, res \in Colors, j \in Job :
        r = job[p].round /\ res = job[p].result /\ j = job[p] /\ j.round = r /\ j.result = res
  BY StepFacts, SettlerFacts DEF CompleteSettlement, SettlePC
<1>2. /\ pc' = [pc EXCEPT ![p] = "finish"] /\ job' = [job EXCEPT ![p] = j] /\ "finish" \in PC
      /\ UNCHANGED <<round, bets, announced>> /\ TypeOK /\ DbInv
      /\ pc[p] \in SettlePC /\ "finish" \in SettlePC
  BY <1>1, StepFacts DEF CompleteSettlement, Continue, Goto, PC, SettlePC
<1>3. settlement[r].status # "NONE" /\ settlement[r].result = res /\ Pending(r) = {}
  BY <1>1, <1>2, StepFacts, SettlerFacts DEF CompleteSettlement, StageOK
<1>4. /\ settlement'[r] = [status |-> "SUCCESS", result |-> res]
      /\ \A s \in Rounds : /\ s # r => settlement'[s] = settlement[s]
                           /\ settlement'[s].result = settlement[s].result
                           /\ settlement'[s].status = "NONE" <=> settlement[s].status = "NONE"
                           /\ settlement[s].status = "SUCCESS" => settlement'[s].status = "SUCCESS"
  BY <1>1, <1>2, <1>3 DEF CompleteSettlement, TypeOK
<1>5. Placed' = Placed /\ \A s : Pending(s)' = Pending(s)
  BY <1>2, SameBets
<1>6. DbInv'
  <2>1. OneActiveRound' /\ NoBetLeftBehind'
    BY <1>2, <1>5 DEF DbInv, OneActiveRound, NoBetLeftBehind, ActiveRounds
  <2>2. UndecidedIsUnsettled'
    BY <1>2, <1>4 DEF DbInv, UndecidedIsUnsettled
  <2>3. OutcomeFollowsResult'
    <3>1. \A k \in Placed : bets[k].round \in Rounds
      BY <1>2, PlacedIsBet DEF Bet
    <3> QED
      BY <1>2, <1>4, <1>5, <3>1 DEF DbInv, OutcomeFollowsResult
  <2>4. CompletedIsSettled'
    <3>1. \A a \in announced : a.round \in Rounds
      BY <1>2 DEF TypeOK
    <3>2. round[r].status = "COMPLETED" => round[r].result = res
      BY <1>2, <1>3 DEF DbInv, CompletedIsSettled
    <3> QED
      BY <1>2, <1>4, <3>1, <3>2 DEF DbInv, CompletedIsSettled
  <2>5. SuccessIsClean'
    BY <1>2, <1>3, <1>4, <1>5 DEF DbInv, SuccessIsClean
  <2> QED
    BY <2>1, <2>2, <2>3, <2>4, <2>5 DEF DbInv
<1>7. ASSUME NEW q \in Procs, DecidedAt(pc[q], job[q]) PROVE Advances(job[q].round, job[q].result)
  <2>1. job[q].round \in Rounds /\ (job[q].round = r => job[q].result = res)
    BY <1>1, <1>2, <1>7, SettlerFacts, UndecidedHasNoSettler
  <2>2. ASSUME NEW s \in Rounds, NEW v, s = r => v = res PROVE Advances(s, v)
    BY <1>2, <1>4, <1>5, <2>2 DEF Advances
  <2> QED
    BY <2>1, <2>2
<1>8. StageOK("finish", j)' /\ AgreesBut(p, "finish", j)
  BY <1>1, <1>2, <1>4, SettlerFacts DEF StageOK, CopySteps, Terminal
<1> QED
  BY <1>2, <1>6, <1>7, <1>8, ProcStep

\* The round row is completed with the settled result, or left as it is, and
\* the completion may be announced.
LEMMA FinishTables ==
    ASSUME IInv, TypeOK', NEW p \in Procs, pc[p] \in {"finish", "announce"}, NEW row \in RoundRow,
           round' = [round EXCEPT ![job[p].round] = row],
           row = round[job[p].round] \/ row = [status |-> "COMPLETED", result |-> job[p].result],
           \A a \in announced' : a \in announced \/ a.round = job[p].round,
           UNCHANGED <<bets, settlement>>
    PROVE  /\ DbInv'
           /\ \A q \in Procs : DecidedAt(pc[q], job[q]) => Advances(job[q].round, job[q].result)
<1>1. PICK r \in Rounds, res \in Colors : r = job[p].round /\ res = job[p].result
  BY SettlerFacts DEF SettlePC
<1>2. TypeOK /\ DbInv
  BY StepFacts
<1>3. settlement[r].status = "SUCCESS" /\ settlement[r].result = res
  BY <1>1, StepFacts, SettlerFacts DEF StageOK, SettlePC
<1>4. round'[r] = row /\ \A s \in Rounds : s # r => round'[s] = round[s]
  BY <1>1, <1>2 DEF TypeOK
<1>5. Placed' = Placed /\ \A s : Pending(s)' = Pending(s)
  BY SameBets
<1>6. Pending(r) = {}
  BY <1>2, <1>3 DEF DbInv, SuccessIsClean
<1>7. row = round[r] \/ (row.status = "COMPLETED" /\ row.result = res)
  BY <1>1
<1>8. DbInv'
  <2>1. OneActiveRound'
    BY <1>2, <1>4, <1>7 DEF DbInv, OneActiveRound, ActiveRounds, Active
  <2>2. UndecidedIsUnsettled'
    BY <1>2, <1>4, <1>7 DEF DbInv, UndecidedIsUnsettled
  <2>3. NoBetLeftBehind' /\ OutcomeFollowsResult' /\ SuccessIsClean'
    BY <1>2, <1>4, <1>5, <1>6 DEF DbInv, NoBetLeftBehind, OutcomeFollowsResult, SuccessIsClean
  <2>4. CompletedIsSettled'
    <3>1. ASSUME NEW s \in Rounds, round'[s].status = "COMPLETED"
          PROVE  settlement[s].status = "SUCCESS" /\ settlement[s].result = round'[s].result
      BY <1>2, <1>3, <1>4, <1>7, <3>1 DEF DbInv, CompletedIsSettled
    <3>2. ASSUME NEW a \in announced' PROVE settlement[a.round].status = "SUCCESS"
      BY <1>1, <1>2, <1>3 DEF DbInv, CompletedIsSettled
    <3> QED
      BY <3>1, <3>2 DEF CompletedIsSettled
  <2> QED
    BY <2>1, <2>2, <2>3, <2>4 DEF DbInv
<1>9. ASSUME NEW q \in Procs, DecidedAt(pc[q], job[q]) PROVE Advances(job[q].round, job[q].result)
  <2>1. job[q].round \in Rounds
    BY <1>9, UndecidedHasNoSettler
  <2>2. ASSUME NEW s \in Rounds, NEW v PROVE Advances(s, v)
    BY <1>4, <1>5, <1>7 DEF Advances, Terminal
  <2> QED
    BY <2>1, <2>2
<1> QED
  BY <1>8, <1>9

\* The end of resolveRound: the round row is completed ...
LEMMA CompleteRoundKeeps == ASSUME IInv, TypeOK', NEW e \in Engines, CompleteRound(e) PROVE IInv'
<1>1. /\ e \in Procs /\ TypeOK /\ job[e] \in Job /\ pc[e] = "finish"
      /\ "announce" \in PC /\ "announce" \in SettlePC /\ pc[e] \in SettlePC
  BY StepFacts DEF Procs, CompleteRound, PC, SettlePC
<1>2. job[e].round \in Rounds /\ job[e].result \in Colors
  BY <1>1, SettlerFacts
<1>3. PICK row \in RoundRow :
        /\ round' = [round EXCEPT ![job[e].round] = row]
        /\ row = round[job[e].round] \/ row = [status |-> "COMPLETED", result |-> job[e].result]
        /\ row.status \in Terminal
  <2>1. [status |-> "COMPLETED", result |-> job[e].result] \in RoundRow
    BY <1>2 DEF RoundRow, RoundStatus, Terminal, Result
  <2>2. round[job[e].round] \in RoundRow /\ round = [round EXCEPT ![job[e].round] = round[job[e].round]]
    BY <1>1, <1>2 DEF TypeOK
  <2>3. round[job[e].round].status # "RESOLVING" => round[job[e].round].status \in Terminal
    BY <1>1, SettlerFacts DEF Terminal
  <2> QED
    BY <2>1, <2>2, <2>3 DEF CompleteRound, SetRound, Terminal
<1>4. /\ pc' = [pc EXCEPT ![e] = "announce"] /\ job' = [job EXCEPT ![e] = job[e]]
      /\ UNCHANGED <<bets, settlement, announced>>
  BY <1>1, StepFacts DEF CompleteRound, Continue, Goto
<1>5. /\ DbInv'
      /\ \A q \in Procs : DecidedAt(pc[q], job[q]) => Advances(job[q].round, job[q].result)
  BY <1>1, <1>3, <1>4, FinishTables
<1>6. AgreesBut(e, "announce", job[e])
  BY <1>1, SettlerFacts
<1>7. ASSUME NEW j \in Job, j = job[e] PROVE StageOK("announce", j)'
  <2>1. StageOK("finish", j)
    BY <1>1, <1>7, StepFacts
  <2>2. round'[j.round] = row
    BY <1>1, <1>2, <1>3, <1>7 DEF TypeOK
  <2> QED
    BY <1>2, <1>3, <1>4, <1>7, <2>1, <2>2 DEF StageOK, DecidedAt, SettlePC, Terminal
<1> QED
  BY <1>1, <1>4, <1>5, <1>6, <1>7, ProcStep

\* ... and the completion announced.
LEMMA AnnounceRoundKeeps == ASSUME IInv, TypeOK', NEW e \in Engines, AnnounceRound(e) PROVE IInv'
<1>1. /\ e \in Procs /\ TypeOK /\ job[e] \in Job /\ pc[e] = "announce" /\ "latest" \in PC
  BY StepFacts DEF Procs, AnnounceRound, PC
<1>2. job[e].round \in Rounds
  BY <1>1, SettlerFacts DEF SettlePC
<1>3. PICK row \in RoundRow :
        row = round[job[e].round] /\ round' = [round EXCEPT ![job[e].round] = row]
  BY <1>1, <1>2 DEF TypeOK, AnnounceRound, dbVars
<1>4. /\ \A a \in announced' : a \in announced \/ a.round = job[e].round
      /\ UNCHANGED <<bets, settlement>>
      /\ pc' = [pc EXCEPT ![e] = "latest"] /\ job' = [job EXCEPT ![e] = job[e]]
  BY <1>1, StepFacts DEF AnnounceRound, dbVars, Continue, Goto
<1>5. /\ DbInv'
      /\ \A q \in Procs : DecidedAt(pc[q], job[q]) => Advances(job[q].round, job[q].result)
  BY <1>1, <1>3, <1>4, FinishTables
<1>6. AgreesBut(e, "latest", job[e])
  BY DEF AgreesBut, DecidedAt, SettlePC
<1>7. ASSUME NEW j \in Job PROVE StageOK("latest", j)'
  BY DEF StageOK, DecidedAt, SettlePC, CopySteps
<1> QED
  BY <1>1, <1>4, <1>5, <1>6, <1>7, ProcStep

\* The end of forceResult.
LEMMA ForceResultCompleteKeeps ==
    ASSUME IInv, TypeOK', NEW a \in Admins, ForceResultComplete(a) PROVE IInv'
<1>1. a \in Procs /\ TypeOK /\ pc[a] = "finish" /\ "idle" \in PC /\ NoJob \in Job
  BY StepFacts DEF Procs, ForceResultComplete, PC, NoJob, Job, RoundStatus, Result
<1>2. job[a].round \in Rounds /\ job[a].result \in Colors
  BY <1>1, SettlerFacts DEF SettlePC
<1>3. PICK row \in RoundRow : row = [status |-> "COMPLETED", result |-> job[a].result]
  BY <1>2 DEF RoundRow, RoundStatus, Terminal, Result
<1>4. /\ round' = [round EXCEPT ![job[a].round] = row]
      /\ announced' = announced \cup {[round |-> job[a].round, status |-> row.status]}
      /\ UNCHANGED <<bets, settlement>>
      /\ pc' = [pc EXCEPT ![a] = "idle"] /\ job' = [job EXCEPT ![a] = NoJob]
  BY <1>3 DEF ForceResultComplete, SetRound, Done, Goto
<1>5. /\ DbInv'
      /\ \A q \in Procs : DecidedAt(pc[q], job[q]) => Advances(job[q].round, job[q].result)
  <2>1. \A b \in announced' : b \in announced \/ b.round = job[a].round
    BY <1>4
  <2>2. pc[a] \in {"finish", "announce"}
    BY <1>1
  <2> QED
    BY <1>1, <1>3, <1>4, <2>1, <2>2, FinishTables
<1>6. StageOK("idle", NoJob)' /\ AgreesBut(a, "idle", NoJob)
  BY IdleIsFine
<1> QED
  BY <1>1, <1>4, <1>5, <1>6, ProcStep

\* The seed check of forceResult.
LEMMA ForceResultSeedKeeps == ASSUME IInv, TypeOK', NEW a \in Admins, ForceResultSeed(a) PROVE IInv'
<1>1. /\ a \in Procs /\ job[a] \in Job /\ "begin" \in PC /\ UNCHANGED Tables /\ UNCHANGED announced
  BY StepFacts DEF Procs, ForceResultSeed, Tables, dbVars, PC, SettlePC
<1>2. CASE Done(a)
  BY <1>1, <1>2, DoneKeeps DEF Done
<1>3. CASE Continue(a, "begin")
  <2>1. Goto(a, "begin") /\ job' = [job EXCEPT ![a] = job[a]]
    BY <1>1, <1>3, StepFacts DEF Continue
  <2>2. DecidedAt(pc[a], job[a])
    BY DEF ForceResultSeed, DecidedAt
  <2>3. StageOK("begin", job[a])
    BY <1>1, <2>2, StepFacts DEF StageOK, DecidedAt, CopySteps, SettlePC
  <2>4. AgreesBut(a, "begin", job[a])
    BY <1>1, <2>2, IInvStages DEF AgreesBut
  <2> QED
    BY <1>1, <2>1, <2>3, <2>4, LocalStep
<1> QED
  BY <1>2, <1>3 DEF ForceResultSeed

-----------------------------------------------------------------------------
(* The remaining steps *)

\* findLatestRound.
LEMMA FindLatestRoundKeeps == ASSUME IInv, TypeOK', NEW e \in Engines, FindLatestRound(e) PROVE IInv'
<1>1. PICK n \in 0 .. MaxRound : job' = [job EXCEPT ![e] = [NoJob EXCEPT !.round = n]]
  BY DEF FindLatestRound
<1>2. PICK j \in Job : job' = [job EXCEPT ![e] = j]
  <2>1. [NoJob EXCEPT !.round = n] \in Job
    BY DEF NoJob, Job, RoundStatus, Result
  <2> QED
    BY <1>1, <2>1
<1>3. e \in Procs /\ "create" \in PC /\ Goto(e, "create") /\ UNCHANGED Tables /\ UNCHANGED announced
  BY DEF Procs, PC, FindLatestRound, Tables, dbVars
<1>4. StageOK("create", j) /\ AgreesBut(e, "create", j)
  BY DEF StageOK, AgreesBut, DecidedAt, SettlePC, CopySteps
<1> QED
  BY <1>2, <1>3, <1>4, LocalStep

\* A tick, a request or a process that ends without touching a table.
LEMMA EndKeeps ==
    ASSUME IInv, TypeOK', NEW p \in Procs, CreateNothing(p) \/ Fail(p) \/ Crash(p) PROVE IInv'
  BY DoneKeeps DEF CreateNothing, Fail, Crash, Done, Tables, dbVars

\* placeBet: the round is OPEN, so that nobody has begun to settle it.
LEMMA PlaceBetKeeps ==
    ASSUME IInv, TypeOK', NEW k \in BetKeys, NEW u \in Users, NEW r \in Rounds, NEW c \in Colors,
           NEW s \in Stakes, PlaceBet(k, u, r, c, s)
    PROVE  IInv'
<1> DEFINE b == [status |-> "PENDING", user |-> u, round |-> r, choice |-> c, stake |-> s]
<1>1. /\ TypeOK /\ DbInv /\ bets[k] = NoBet /\ round[r].status = "OPEN"
      /\ bets' = [bets EXCEPT ![k] = b] /\ UNCHANGED <<round, settlement, announced>>
      /\ UNCHANGED <<pc, job>>
  BY IInvStages DEF IInv, PlaceBet, AcceptsBets, procVars
<1>2. b \in Bet /\ b # NoBet /\ b.status = "PENDING" /\ b.round = r
  <2>1. b \in Bet
    BY DEF Bet, BetStatus
  <2> QED
    BY <2>1
<1>3. k \notin Placed /\ bets'[k] = b /\ \A l \in BetKeys : l # k => bets'[l] = bets[l]
  BY <1>1 DEF TypeOK, Placed
<1> HIDE DEF b
<1>4. Placed' = Placed \cup {k} /\ \A l \in Placed : bets'[l] = bets[l]
  BY <1>2, <1>3 DEF Placed
<1>5. \A q : q # r => Pending(q)' = Pending(q)
  BY <1>2, <1>3, <1>4 DEF Pending, BetsOf
<1>6. settlement[r].status = "NONE"
  BY <1>1 DEF DbInv, UndecidedIsUnsettled
<1>7. DbInv'
  <2>1. OneActiveRound' /\ UndecidedIsUnsettled' /\ CompletedIsSettled'
    BY <1>1 DEF DbInv, OneActiveRound, UndecidedIsUnsettled, CompletedIsSettled, ActiveRounds
  <2>2. NoBetLeftBehind' /\ SuccessIsClean'
    BY <1>1, <1>5, <1>6 DEF DbInv, NoBetLeftBehind, SuccessIsClean, Terminal
  <2>3. OutcomeFollowsResult'
    BY <1>1, <1>2, <1>3, <1>4 DEF DbInv, OutcomeFollowsResult
  <2> QED
    BY <2>1, <2>2, <2>3 DEF DbInv
<1>8. ASSUME NEW q \in Procs, DecidedAt(pc[q], job[q]) PROVE Advances(job[q].round, job[q].result)
  <2>1. job[q].round # r
    BY <1>1, <1>8, UndecidedHasNoSettler
  <2>2. ASSUME NEW t, NEW v, t # r PROVE Advances(t, v)
    <3>1. ASSUME NEW l \in Pending(t)' PROVE l \in Pending(t) /\ bets'[l].choice = bets[l].choice
      BY <1>4, <1>5, <2>2, PendingPlaced
    <3> QED
      BY <1>1, <3>1 DEF Advances
  <2> QED
    BY <2>1, <2>2
<1> QED
  BY <1>1, <1>7, <1>8, StaticStep

\* A step that changes neither tables nor processes.
LEMMA EnvironmentKeeps ==
    ASSUME IInv, TypeOK', UNCHANGED Tables, UNCHANGED announced, UNCHANGED <<pc, job>> PROVE IInv'
  BY SameTables, StaticStep

-----------------------------------------------------------------------------
(* IInv is inductive *)

\* Initially there is no round, no bet and no process at work.
LEMMA InitIInv == Init => IInv
<1> SUFFICES ASSUME Init PROVE IInv
  OBVIOUS
<1>1. TypeOK
  BY InitType
<1>2. /\ \A r \in Rounds : /\ round[r].status = "ABSENT" /\ settlement[r].status = "NONE"
      /\ Placed = {} /\ announced = {} /\ \A p \in Procs : pc[p] = "idle"
  BY DEF Init, Placed
<1>3. ActiveRounds = {} /\ \A r : Pending(r) = {}
  BY <1>2 DEF ActiveRounds, Active, Pending, BetsOf
<1>4. \A p \in Procs : ~Decided(p)
  BY <1>2 DEF Decided, SettlePC
<1>5. CopiesAreSane /\ SettlersAgree /\ SettlementStages
  BY <1>2, <1>3, <1>4 DEF CopiesAreSane, SettlersAgree, SettlementStages
<1>6. OneActiveRound /\ UndecidedIsUnsettled /\ NoBetLeftBehind /\ OutcomeFollowsResult /\ CompletedIsSettled
  BY <1>2, <1>3 DEF OneActiveRound, UndecidedIsUnsettled, NoBetLeftBehind, OutcomeFollowsResult,
                    CompletedIsSettled, Terminal
<1> QED
  BY <1>1, <1>5, <1>6 DEF IInv

\* Every step keeps IInv.
LEMMA StepIInv == ASSUME IInv, [Next]_vars PROVE IInv'
<1>t. TypeOK'
  BY StepType DEF IInv
<1>p. Engines \subseteq Procs /\ Admins \subseteq Procs
  BY DEF Procs
<1>1. ASSUME NEW p \in Procs, Settle(p) PROVE IInv'
  BY <1>t, <1>1, BeginSettlementKeeps, MarkLosingBetsKeeps, SettleWinnerUserKeeps, WinnersDoneKeeps,
     CompleteSettlementKeeps DEF Settle
<1>2. ASSUME NEW e \in Engines, Engine(e) PROVE IInv'
  <2>1. CASE \/ Tick(e) \/ ReadCurrentRound(e) \/ ReadGameControl(e) \/ OpenRound(e) \/ LockRound(e)
             \/ ReadBack(e) \/ ReadSeed(e) \/ MarkResolving(e) \/ AnnounceRound(e)
    BY <1>t, <2>1, TickKeeps, ReadCurrentRoundKeeps, ReadGameControlKeeps, OpenRoundKeeps, LockRoundKeeps,
       ReadBackKeeps, ReadSeedKeeps, MarkResolvingKeeps, AnnounceRoundKeeps
  <2>2. CASE CompleteRound(e) \/ RecoverRound(e) \/ FindLatestRound(e) \/ CreateNothing(e) \/ OpenNewRound(e)
    BY <1>t, <1>p, <2>2, CompleteRoundKeeps, RecoverRoundKeeps, FindLatestRoundKeeps, EndKeeps,
       OpenNewRoundKeeps
  <2>3. ASSUME NEW c \in Colors, CreateRound(e, c) PROVE IInv'
    BY <1>t, <2>3, CreateRoundKeeps
  <2> QED
    BY <1>1, <1>2, <1>p, <2>1, <2>2, <2>3 DEF Engine
<1>3. ASSUME NEW a \in Admins, Admin(a) PROVE IInv'
  BY <1>t, <1>p, <1>1, <1>3, ForceResultKeeps, ForceResultSeedKeeps, ForceResultCompleteKeeps
     DEF Admin, ForceResultStep
<1>4. CASE \E k \in BetKeys, u \in Users, r \in Rounds, c \in Colors, s \in Stakes : PlaceBet(k, u, r, c, s)
  BY <1>t, <1>4, PlaceBetKeeps
<1>5. CASE ForceStopRound \/ \E c \in Colors, n \in Rounds : ForceStartRound(c, n)
  BY <1>t, <1>5, ForceStopRoundKeeps, ForceStartRoundKeeps
<1>6. CASE \E p \in Procs : Fail(p) \/ Crash(p)
  BY <1>t, <1>6, EndKeeps
<1>7. CASE \/ \E b \in BOOLEAN : SetPaused(b)
           \/ \E r \in Rounds : LoseSeed(r)
           \/ Clock \/ LockExpires \/ UNCHANGED vars
  <2>1. UNCHANGED Tables /\ UNCHANGED announced /\ UNCHANGED <<pc, job>>
    BY <1>7 DEF SetPaused, LoseSeed, Clock, LockExpires, vars, dbVars, procVars, Tables
  <2> QED
    BY <1>t, <2>1, EnvironmentKeeps
<1> QED
  BY <1>2, <1>3, <1>4, <1>5, <1>6, <1>7 DEF Next

\* The inductive invariant of the game: what the tables, the processes' local
\* copies and the published events always satisfy.
THEOREM GameInvariant == Spec => []IInv
<1>1. Init => IInv
  BY InitIInv
<1>2. IInv /\ [Next]_vars => IInv'
  BY StepIInv
<1> QED
  BY <1>1, <1>2, PTL DEF Spec

\* Every variable keeps its type: in particular no wallet column ever leaves its
\* range, whatever is debited, credited and refunded.
THEOREM TypeCorrect == Spec => []TypeOK
<1>1. IInv => TypeOK
  BY DEF IInv
<1> QED
  BY <1>1, GameInvariant, PTL

\* At most one round is active, however many servers run the engine at once and
\* whatever the administrators start, stop and force.
THEOREM AtMostOneActiveRound == Spec => []OneActiveRound
<1>1. IInv => OneActiveRound
  BY DEF IInv
<1> QED
  BY <1>1, GameInvariant, PTL

\* A finished round has no pending bet: a stake is never stranded.
THEOREM NoStrandedBet == Spec => []NoBetLeftBehind
<1>1. IInv => NoBetLeftBehind
  BY DEF IInv
<1> QED
  BY <1>1, GameInvariant, PTL

\* Bets are decided by the one recorded result of their round.
THEOREM OutcomesAreConsistent == Spec => []OutcomeFollowsResult
<1>1. IInv => OutcomeFollowsResult
  BY DEF IInv
<1> QED
  BY <1>1, GameInvariant, PTL

\* A round is completed or announced only after its settlement succeeded.
THEOREM CompletionIsSettled == Spec => []CompletedIsSettled
<1>1. IInv => CompletedIsSettled
  BY DEF IInv
<1> QED
  BY <1>1, GameInvariant, PTL

\* All concurrent settlers of a round work with one result.
THEOREM ConcurrentSettlersAgree == Spec => []SettlersAgree
<1>1. IInv => SettlersAgree
  BY DEF IInv
<1> QED
  BY <1>1, GameInvariant, PTL

-----------------------------------------------------------------------------
(* What a step may never do *)

\* Deciding pending bets is a legal step of the bets table.
LEMMA PendingMoves ==
    ASSUME TypeOK, NEW S \in SUBSET Placed, NEW st \in BetStatus, bets' = WithStatus(S, st),
           \A k \in S : bets[k].status = "PENDING"
    PROVE  BetStep
<1> SUFFICES ASSUME NEW k \in BetKeys, bets[k] # NoBet
             PROVE  /\ bets'[k] # NoBet
                    /\ bets'[k] # bets[k] =>
                         /\ bets[k].status = "PENDING"
                         /\ bets'[k] = [bets[k] EXCEPT !.status = bets'[k].status]
  BY DEF BetStep
<1>1. CASE k \in S
  <2>1. bets[k] \in Bet /\ bets'[k] = [bets[k] EXCEPT !.status = st]
    BY <1>1, PlacedIsBet DEF WithStatus
  <2>2. bets'[k] \in Bet /\ bets'[k].status = st
    BY <2>1 DEF Bet
  <2>3. bets'[k] # NoBet
    BY <2>2
  <2> QED
    BY <1>1, <2>1, <2>2, <2>3
<1>2. CASE k \notin S
  BY <1>2 DEF WithStatus
<1> QED
  BY <1>1, <1>2

\* Pending bets are pending.
LEMMA PendingIsPending == \A r : \A k \in Pending(r) : bets[k].status = "PENDING"
  BY DEF Pending

\* No step of the game changes a decided bet, or the terms of any bet.
LEMMA BetsStep == ASSUME TypeOK, [Next]_vars PROVE BetStep \/ UNCHANGED bets
<1>b. {"WON", "LOST", "CANCELLED"} \subseteq BetStatus
  BY DEF BetStatus
<1>1. ASSUME NEW p \in Procs, MarkLosingBets(p) PROVE BetStep
  <2> DEFINE S == {k \in Pending(job[p].round) : bets[k].choice # job[p].result}
  <2>1. bets' = WithStatus(S, "LOST") /\ S \in SUBSET Placed
    BY <1>1, PendingPlaced DEF MarkLosingBets
  <2>2. \A k \in S : bets[k].status = "PENDING"
    BY PendingIsPending
  <2> HIDE DEF S
  <2> QED
    BY <1>b, <2>1, <2>2, PendingMoves
<1>2. ASSUME NEW p \in Procs, NEW u \in Users, SettleWinnerUser(p, u) PROVE BetStep
  <2> DEFINE S == WinnerBets(job[p].round, job[p].result, u)
  <2>1. bets' = WithStatus(S, "WON") /\ S \in SUBSET Placed
    BY <1>2, PendingPlaced DEF SettleWinnerUser, WinnerBets
  <2>2. \A k \in S : bets[k].status = "PENDING"
    BY PendingIsPending DEF WinnerBets
  <2> HIDE DEF S
  <2> QED
    BY <1>b, <2>1, <2>2, PendingMoves
<1>3. ASSUME NEW S, NEW kind, RefundBets(S, kind), S \in SUBSET Placed,
             \A k \in S : bets[k].status = "PENDING"
      PROVE  BetStep
  BY <1>b, <1>3, PendingMoves DEF RefundBets
<1>4. ASSUME NEW e \in Engines, RecoverRound(e) PROVE BetStep \/ UNCHANGED bets
  <2>1. CASE RefundBets(Pending(job[e].round), "recovery-refund")
    BY <1>3, <2>1, PendingPlaced, PendingIsPending
  <2> QED
    BY <1>4, <2>1 DEF RecoverRound
<1>5. CASE ForceStopRound
  BY <1>3, <1>5, PendingPlaced, PendingIsPending DEF ForceStopRound
<1>6. ASSUME NEW c \in Colors, NEW n \in Rounds, ForceStartRound(c, n) PROVE BetStep
  <2> DEFINE S == UNION {Pending(r) : r \in ActiveRounds}
  <2>1. S \in SUBSET Placed /\ \A k \in S : bets[k].status = "PENDING"
    BY PendingPlaced, PendingIsPending
  <2>2. RefundBets(S, "cancel-refund")
    BY <1>6 DEF ForceStartRound
  <2> HIDE DEF S
  <2> QED
    BY <1>3, <2>1, <2>2
<1>7. ASSUME NEW k \in BetKeys, NEW u \in Users, NEW r \in Rounds, NEW c \in Colors, NEW s \in Stakes,
             PlaceBet(k, u, r, c, s)
      PROVE  BetStep
  BY <1>7 DEF PlaceBet, BetStep, TypeOK
<1>8. ASSUME NEW p \in Procs, Settle(p) PROVE BetStep \/ UNCHANGED bets
  BY <1>1, <1>2, <1>8 DEF Settle, BeginSettlement, WinnersDone, CompleteSettlement, dbVars
<1>9. ASSUME NEW e \in Engines, Engine(e) PROVE BetStep \/ UNCHANGED bets
  BY <1>4, <1>8, <1>9 DEF Engine, Procs, Tick, ReadCurrentRound, ReadGameControl, OpenRound, LockRound, ReadBack, ReadSeed, AnnounceRound,
     MarkResolving, CompleteRound, FindLatestRound, CreateNothing, OpenNewRound, CreateRound, dbVars
<1>10. ASSUME NEW a \in Admins, Admin(a) PROVE BetStep \/ UNCHANGED bets
  BY <1>8, <1>10 DEF Admin, ForceResultStep, Procs, ForceResult, ForceResultSeed, ForceResultComplete, dbVars
<1>11. CASE \/ \E p \in Procs : Fail(p) \/ Crash(p)
            \/ \E b \in BOOLEAN : SetPaused(b)
            \/ \E r \in Rounds : LoseSeed(r)
            \/ Clock \/ LockExpires \/ UNCHANGED vars
  BY <1>11 DEF Fail, Crash, SetPaused, LoseSeed, Clock, LockExpires, vars, dbVars
<1> QED
  BY <1>5, <1>6, <1>7, <1>9, <1>10, <1>11 DEF Next

\* WON, LOST and CANCELLED are final, and the terms of a bet never change.
THEOREM BetsAreDecidedOnce == Spec => BetIsDecidedOnce
<1>1. IInv /\ [Next]_vars => [BetStep]_bets
  BY BetsStep DEF IInv
<1> QED
  BY <1>1, GameInvariant, PTL DEF Spec, BetIsDecidedOnce

\* No step of the game changes the result of a settlement or undoes its success.
LEMMA SettlementsStep == ASSUME IInv, [Next]_vars PROVE SettlementStep \/ UNCHANGED settlement
<1>1. ASSUME NEW p \in Procs, BeginSettlement(p) PROVE SettlementStep
  BY <1>1 DEF BeginSettlement, SettlementStep, IInv, TypeOK
<1>2. ASSUME NEW p \in Procs, CompleteSettlement(p) PROVE SettlementStep
  <2>1. /\ pc[p] \in SettlePC
        /\ settlement' = [settlement EXCEPT ![job[p].round] = [status |-> "SUCCESS", result |-> job[p].result]]
    BY <1>2 DEF CompleteSettlement, SettlePC
  <2>2. settlement[job[p].round].status # "NONE" => settlement[job[p].round].result = job[p].result
    BY <2>1, SettlerFacts
  <2> QED
    BY <2>1, <2>2 DEF SettlementStep, IInv, TypeOK
<1>3. ASSUME NEW p \in Procs, Settle(p) PROVE SettlementStep \/ UNCHANGED settlement
  BY <1>1, <1>2, <1>3 DEF Settle, MarkLosingBets, SettleWinnerUser, WinnersDone, dbVars
<1>4. ASSUME NEW e \in Engines, Engine(e) PROVE SettlementStep \/ UNCHANGED settlement
  BY <1>3, <1>4 DEF Engine, Procs, Tick, ReadCurrentRound, ReadGameControl, OpenRound, LockRound, ReadBack, ReadSeed, AnnounceRound, MarkResolving,
     CompleteRound, RecoverRound, FindLatestRound, CreateNothing, OpenNewRound, CreateRound, dbVars
<1>5. ASSUME NEW a \in Admins, Admin(a) PROVE SettlementStep \/ UNCHANGED settlement
  BY <1>3, <1>5 DEF Admin, ForceResultStep, Procs, ForceResult, ForceResultSeed, ForceResultComplete, dbVars
<1>6. CASE \/ \E k \in BetKeys, u \in Users, r \in Rounds, c \in Colors, s \in Stakes : PlaceBet(k, u, r, c, s)
           \/ ForceStopRound
           \/ \E c \in Colors, n \in Rounds : ForceStartRound(c, n)
           \/ \E p \in Procs : Fail(p) \/ Crash(p)
           \/ \E b \in BOOLEAN : SetPaused(b)
           \/ \E r \in Rounds : LoseSeed(r)
           \/ Clock \/ LockExpires \/ UNCHANGED vars
  BY <1>6 DEF PlaceBet, ForceStopRound, ForceStartRound, Fail, Crash, SetPaused, LoseSeed, Clock,
     LockExpires, vars, dbVars
<1> QED
  BY <1>4, <1>5, <1>6 DEF Next

\* The result of a settlement never changes, and a successful one stays so.
THEOREM SettlementsAreFinal == Spec => SettlementIsFinal
<1>1. IInv /\ [Next]_vars => [SettlementStep]_settlement
  BY SettlementsStep
<1> QED
  BY <1>1, GameInvariant, PTL DEF Spec, SettlementIsFinal

-----------------------------------------------------------------------------
(* The coins of a table of bets b, and of a ledger L, for one user *)

InBets(b) == {k \in BetKeys : b[k] # NoBet}

BetNet(b, u) == [k \in InBets(b) |-> IF b[k].user = u THEN NetOf(b[k]) ELSE 0]
NetSum(b, u) == SumFunctionOnSet(BetNet(b, u), InBets(b))

Signed(L, u) == [e \in L |-> IF e.user = u THEN SignedAmount(e) ELSE 0]
SignedSum(L, u) == SumFunctionOnSet(Signed(L, u), L)

Mine(b, S, u) == {k \in S : b[k].user = u}
StakeOf(b, S) == SumFunction([k \in S |-> b[k].stake])

\* What the bets of S bring their owners when they leave PENDING for status st.
Gain(st) == IF st = "WON" THEN Multiplier ELSE IF st = "CANCELLED" THEN 1 ELSE 0

Table(b) == b \in [BetKeys -> Bet \cup {NoBet}] /\ IsFiniteSet(InBets(b))

LEMMA StakeIsInt == \A s \in Stakes : s \in Nat /\ s \in Int
  BY DEF ValidAmounts

LEMMA RowIsBet == ASSUME NEW b, Table(b), NEW k \in InBets(b) PROVE b[k] \in Bet
  BY DEF Table, InBets

LEMMA NetIsInt == ASSUME NEW x \in Bet PROVE NetOf(x) \in Int
<1>1. x.stake \in Int
  BY StakeIsInt DEF Bet
<1> QED
  BY <1>1 DEF NetOf, Multiplier

LEMMA NetType ==
    ASSUME NEW b, Table(b), NEW u
    PROVE  /\ IntOn(BetNet(b, u), InBets(b))
           /\ \A k \in InBets(b) : BetNet(b, u)[k] \in Int
           /\ NetSum(b, u) \in Int
<1>1. \A k \in InBets(b) : BetNet(b, u)[k] \in Int
  BY RowIsBet, NetIsInt DEF BetNet
<1>2. IntOn(BetNet(b, u), InBets(b))
  BY <1>1 DEF IntOn
<1> QED
  BY <1>1, <1>2, SumType DEF NetSum, Table

LEMMA SignedIsInt == ASSUME NEW e \in LedgerEntry PROVE SignedAmount(e) \in Int
<1>1. e.amount \in Int
  BY DEF LedgerEntry, Coins
<1> QED
  BY <1>1 DEF SignedAmount

LEMMA SignedType ==
    ASSUME NEW L \in SUBSET LedgerEntry, IsFiniteSet(L), NEW u
    PROVE  /\ IntOn(Signed(L, u), L)
           /\ \A e \in L : Signed(L, u)[e] \in Int
           /\ SignedSum(L, u) \in Int
<1>1. \A e \in L : Signed(L, u)[e] \in Int
  BY SignedIsInt DEF Signed
<1>2. IntOn(Signed(L, u), L)
  BY <1>1 DEF IntOn
<1> QED
  BY <1>1, <1>2, SumType DEF SignedSum

LEMMA StakeOfType ==
    ASSUME NEW b, Table(b), NEW S \in SUBSET InBets(b)
    PROVE  /\ IsFiniteSet(S)
           /\ \A k \in S : b[k].stake \in Nat /\ b[k].stake \in Int
           /\ StakeOf(b, S) = SumFunctionOnSet([k \in S |-> b[k].stake], S)
           /\ StakeOf(b, S) \in Nat
<1>1. IsFiniteSet(S)
  BY FS_Subset DEF Table
<1>2. \A k \in S : b[k].stake \in Nat /\ b[k].stake \in Int
  BY RowIsBet, StakeIsInt DEF Bet
<1>3. StakeOf(b, S) = SumFunctionOnSet([k \in S |-> b[k].stake], S)
  BY DEF StakeOf, SumFunction
<1> QED
  BY <1>1, <1>2, <1>3, SumNat

\* The sums the properties speak of are these.
LEMMA NetSumIs ==
    ASSUME NEW b, Table(b), NEW u
    PROVE  SumFunction([k \in {k \in InBets(b) : b[k].user = u} |-> NetOf(b[k])]) = NetSum(b, u)
<1> DEFINE T == {k \in InBets(b) : b[k].user = u}
           g == [k \in T |-> NetOf(b[k])]
<1>1. SumFunction(g) = SumFunctionOnSet(g, T)
  BY DEF SumFunction
<1>2. /\ \A k \in T : BetNet(b, u)[k] = g[k]
      /\ \A k \in InBets(b) \ T : BetNet(b, u)[k] = 0
  BY DEF BetNet
<1>3. T \in SUBSET InBets(b) /\ IsFiniteSet(InBets(b)) /\ \A k \in InBets(b) : BetNet(b, u)[k] \in Int
  BY NetType DEF Table
<1> HIDE DEF T, g
<1>4. SumFunctionOnSet(BetNet(b, u), InBets(b)) = SumFunctionOnSet(g, T)
  BY <1>2, <1>3, SumPick
<1> QED
  BY <1>1, <1>4 DEF NetSum, T, g

LEMMA SignedSumIs ==
    ASSUME NEW L \in SUBSET LedgerEntry, IsFiniteSet(L), NEW u
    PROVE  SumFunction([e \in {e \in L : e.user = u} |-> SignedAmount(e)]) = SignedSum(L, u)
<1> DEFINE T == {e \in L : e.user = u}
           g == [e \in T |-> SignedAmount(e)]
<1>1. SumFunction(g) = SumFunctionOnSet(g, T)
  BY DEF SumFunction
<1>2. /\ \A e \in T : Signed(L, u)[e] = g[e]
      /\ \A e \in L \ T : Signed(L, u)[e] = 0
  BY DEF Signed
<1>3. T \in SUBSET L /\ \A e \in L : Signed(L, u)[e] \in Int
  BY SignedType
<1> HIDE DEF T, g
<1>4. SumFunctionOnSet(Signed(L, u), L) = SumFunctionOnSet(g, T)
  BY <1>2, <1>3, SumPick
<1> QED
  BY <1>1, <1>4 DEF SignedSum, T, g

-----------------------------------------------------------------------------
(* How the sums move *)

\* A new pending bet costs its owner the stake.
Placing(b, c, k) ==
    /\ Table(b) /\ k \in BetKeys /\ b[k] = NoBet
    /\ c \in [BetKeys -> Bet \cup {NoBet}] /\ c[k] \in Bet /\ c[k].status = "PENDING"
    /\ \A x \in BetKeys : x # k => c[x] = b[x]

LEMMA NetAdd ==
    ASSUME NEW b, NEW c, NEW k, Placing(b, c, k)
    PROVE  /\ Table(c)
           /\ \A u : NetSum(c, u) = NetSum(b, u) + IF c[k].user = u THEN 0 - c[k].stake ELSE 0
<1>u. SUFFICES ASSUME NEW u
      PROVE  /\ Table(c)
             /\ NetSum(c, u) = NetSum(b, u) + IF c[k].user = u THEN 0 - c[k].stake ELSE 0
  OBVIOUS
<1> USE DEF Placing
<1>1. InBets(c) = InBets(b) \cup {k} /\ k \notin InBets(b)
  BY RoundGameAssumption DEF InBets
<1>2. IsFiniteSet(InBets(b) \cup {k})
  BY FS_AddElement DEF Table
<1>3. Table(c)
  BY <1>1, <1>2 DEF Table
<1>4. IntOn(BetNet(c, u), InBets(b) \cup {k}) /\ IsFiniteSet(InBets(b)) /\ k \notin InBets(b)
  BY <1>1, <1>3, NetType DEF Table
<1>5. SumFunctionOnSet(BetNet(c, u), InBets(b) \cup {k}) = BetNet(c, u)[k] + SumFunctionOnSet(BetNet(c, u), InBets(b))
  BY <1>4, SumAdd
<1>6. \A x \in InBets(b) : BetNet(c, u)[x] = BetNet(b, u)[x]
  BY <1>1 DEF BetNet, InBets
<1>7. SumFunctionOnSet(BetNet(c, u), InBets(b)) = NetSum(b, u)
  BY <1>4, <1>6, SumSame DEF NetSum
<1>8. BetNet(c, u)[k] = IF c[k].user = u THEN 0 - c[k].stake ELSE 0
  BY <1>1 DEF BetNet, NetOf
<1>9. NetSum(c, u) = BetNet(c, u)[k] + NetSum(b, u)
  BY <1>1, <1>5, <1>7 DEF NetSum
<1>10. NetSum(b, u) \in Int /\ BetNet(c, u)[k] \in Int
  BY <1>1, <1>3, NetType
<1> QED
  BY ONLY <1>3, <1>8, <1>9, <1>10

\* Pending bets that are decided bring their owner the stake once per Gain.
Deciding(b, c, S, st) ==
    /\ S \in SUBSET InBets(b)
    /\ \A k \in S : b[k].status = "PENDING"
    /\ c = [k \in BetKeys |-> IF k \in S THEN [b[k] EXCEPT !.status = st] ELSE b[k]]
    /\ st \in {"WON", "LOST", "CANCELLED"}

LEMMA DecidedRow ==
    ASSUME NEW x \in Bet, x.status = "PENDING", NEW st \in {"WON", "LOST", "CANCELLED"}
    PROVE  /\ [x EXCEPT !.status = st] \in Bet /\ [x EXCEPT !.status = st].user = x.user
           /\ NetOf([x EXCEPT !.status = st]) = NetOf(x) + Gain(st) * x.stake
<1>1. x.stake \in Int
  BY StakeIsInt DEF Bet
<1>2. /\ [x EXCEPT !.status = st] \in Bet /\ [x EXCEPT !.status = st].user = x.user
      /\ [x EXCEPT !.status = st].stake = x.stake /\ [x EXCEPT !.status = st].status = st
  BY DEF Bet, BetStatus
<1>3. NetOf(x) = 0 - x.stake
  BY DEF NetOf
<1>4. CASE st = "WON"
  <2>1. NetOf([x EXCEPT !.status = st]) = (Multiplier - 1) * x.stake
    BY <1>2, <1>4 DEF NetOf
  <2> QED
    BY <1>1, <1>2, <1>3, <1>4, <2>1 DEF Gain, Multiplier
<1>5. CASE st = "LOST"
  <2>1. NetOf([x EXCEPT !.status = st]) = 0 - x.stake
    BY <1>2, <1>5 DEF NetOf
  <2> QED
    BY <1>1, <1>2, <1>3, <1>5, <2>1 DEF Gain
<1>6. CASE st = "CANCELLED"
  <2>1. NetOf([x EXCEPT !.status = st]) = 0
    BY <1>2, <1>6 DEF NetOf
  <2> QED
    BY <1>1, <1>2, <1>3, <1>6, <2>1 DEF Gain
<1> QED
  BY <1>4, <1>5, <1>6

LEMMA NetShift ==
    ASSUME NEW b, Table(b), NEW c, NEW S, NEW st, Deciding(b, c, S, st), NEW u
    PROVE  /\ Table(c)
           /\ NetSum(c, u) = NetSum(b, u) + Gain(st) * StakeOf(b, Mine(b, S, u))
<1> DEFINE U == Mine(b, S, u)
           f == [k \in U |-> b[k].stake]
           z == [k \in U |-> 0]
           d == [k \in U |-> Gain(st) * b[k].stake]
<1>1. U \in SUBSET InBets(b) /\ Gain(st) \in Int
  BY DEF Deciding, Mine, Gain, Multiplier
<1>2. /\ IsFiniteSet(U) /\ (\A k \in U : b[k].stake \in Int)
      /\ StakeOf(b, U) = SumFunctionOnSet(f, U) /\ StakeOf(b, U) \in Nat
  BY <1>1, StakeOfType
<1>3. ASSUME NEW k \in S
      PROVE  /\ b[k] \in Bet /\ c[k] \in Bet /\ c[k].user = b[k].user
             /\ NetOf(c[k]) = NetOf(b[k]) + Gain(st) * b[k].stake
  <2>1. k \in InBets(b) /\ k \in BetKeys /\ b[k] \in Bet /\ c[k] = [b[k] EXCEPT !.status = st]
    BY RowIsBet DEF Deciding, InBets
  <2>2. b[k].status = "PENDING" /\ st \in {"WON", "LOST", "CANCELLED"}
    BY DEF Deciding
  <2>3. /\ [b[k] EXCEPT !.status = st] \in Bet /\ [b[k] EXCEPT !.status = st].user = b[k].user
        /\ NetOf([b[k] EXCEPT !.status = st]) = NetOf(b[k]) + Gain(st) * b[k].stake
    BY <2>1, <2>2, DecidedRow
  <2> QED
    BY ONLY <2>1, <2>3
<1>4. \A k \in BetKeys : k \notin S => c[k] = b[k]
  BY DEF Deciding
<1>5. InBets(c) = InBets(b)
  BY <1>3, <1>4, RoundGameAssumption DEF InBets, Deciding
<1>6. c \in [BetKeys -> Bet \cup {NoBet}]
  <2>1. \A k \in BetKeys : c[k] \in Bet \cup {NoBet}
    BY <1>3, <1>4 DEF Table
  <2> QED
    BY <2>1 DEF Deciding
<1>7. Table(c)
  BY <1>5, <1>6 DEF Table
<1>8. IntOn(d, U) /\ IntOn(f, U) /\ IntOn(z, U)
  BY <1>1, <1>2 DEF IntOn
<1>9. \A k \in U : BetNet(c, u)[k] = BetNet(b, u)[k] + d[k]
  <2> SUFFICES ASSUME NEW k \in U PROVE BetNet(c, u)[k] = BetNet(b, u)[k] + d[k]
    OBVIOUS
  <2>1. k \in S /\ k \in InBets(b) /\ k \in InBets(c) /\ b[k].user = u
    BY <1>1, <1>5 DEF Mine
  <2>2. BetNet(c, u)[k] = NetOf(c[k]) /\ BetNet(b, u)[k] = NetOf(b[k])
    BY <1>3, <2>1 DEF BetNet
  <2>3. d[k] = Gain(st) * b[k].stake
    OBVIOUS
  <2> QED
    BY <1>3, <2>1, <2>2, <2>3
<1>10. \A k \in InBets(b) \ U : BetNet(c, u)[k] = BetNet(b, u)[k]
  <2> SUFFICES ASSUME NEW k \in InBets(b) \ U PROVE BetNet(c, u)[k] = BetNet(b, u)[k]
    OBVIOUS
  <2>1. CASE k \in S
    BY <1>3, <1>5, <2>1 DEF BetNet, Mine
  <2>2. CASE k \notin S
    BY <1>4, <1>5, <2>2 DEF BetNet, InBets
  <2> QED
    BY <2>1, <2>2
<1>11. \A k \in U : d[k] = Gain(st) * f[k] + z[k]
  <2> SUFFICES ASSUME NEW k \in U PROVE d[k] = Gain(st) * f[k] + z[k]
    OBVIOUS
  <2>1. f[k] \in Int /\ z[k] = 0 /\ d[k] = Gain(st) * f[k]
    BY <1>2
  <2>2. Gain(st) * f[k] \in Int
    BY <1>1, <2>1
  <2> HIDE DEF f, z, d
  <2> QED
    BY ONLY <2>1, <2>2
<1>12. \A k \in U : z[k] = 0
  OBVIOUS
<1>13. IsFiniteSet(InBets(b)) /\ IntOn(BetNet(b, u), InBets(b)) /\ NetSum(b, u) \in Int
  BY NetType DEF Table
<1> HIDE DEF f, z, d, U
<1>14. SumFunctionOnSet(BetNet(c, u), InBets(b)) = SumFunctionOnSet(BetNet(b, u), InBets(b)) + SumFunctionOnSet(d, U)
  <2> DEFINE B == InBets(b)
             F == BetNet(b, u)
             H == BetNet(c, u)
  <2>1. /\ IsFiniteSet(B) /\ U \in SUBSET B /\ IntOn(F, B) /\ IntOn(d, U)
        /\ (\A k \in U : H[k] = F[k] + d[k])
    BY <1>1, <1>8, <1>9, <1>13
  <2>2. \A k \in B \ U : H[k] = F[k]
    BY <1>10
  <2> HIDE DEF B, F, H
  <2>3. SumFunctionOnSet(H, B) = SumFunctionOnSet(F, B) + SumFunctionOnSet(d, U)
    BY ONLY <2>1, <2>2, SumShift
  <2> QED
    BY <2>3 DEF B, F, H
<1>15. SumFunctionOnSet(d, U) = Gain(st) * SumFunctionOnSet(f, U) + SumFunctionOnSet(z, U)
  <2> DEFINE a == Gain(st)
  <2>1. a \in Int /\ IsFiniteSet(U) /\ IntOn(f, U) /\ IntOn(z, U) /\ \A k \in U : d[k] = a * f[k] + z[k]
    BY <1>1, <1>2, <1>8, <1>11
  <2> HIDE DEF a
  <2>2. SumFunctionOnSet(d, U) = a * SumFunctionOnSet(f, U) + SumFunctionOnSet(z, U)
    BY ONLY <2>1, SumLinear
  <2> QED
    BY <2>2 DEF a
<1>16. SumFunctionOnSet(z, U) = 0
  BY <1>2, <1>12, SumZero
<1>17. NetSum(c, u) = NetSum(b, u) + SumFunctionOnSet(d, U)
  BY <1>5, <1>14 DEF NetSum
<1>18. Gain(st) * StakeOf(b, U) \in Int
  BY <1>1, <1>2
<1>19. SumFunctionOnSet(d, U) = Gain(st) * StakeOf(b, U)
  BY ONLY <1>2, <1>15, <1>16, <1>18
<1> QED
  BY <1>7, <1>17, <1>19 DEF U

\* A new ledger row counts once ...
LEMMA SignedAdd ==
    ASSUME NEW L \in SUBSET LedgerEntry, IsFiniteSet(L), NEW e \in LedgerEntry, e \notin L, NEW u
    PROVE  /\ IsFiniteSet(L \cup {e})
           /\ SignedSum(L \cup {e}, u) = SignedSum(L, u) + IF e.user = u THEN SignedAmount(e) ELSE 0
<1>1. IsFiniteSet(L \cup {e})
  BY FS_AddElement
<1>2. L \cup {e} \in SUBSET LedgerEntry
  OBVIOUS
<1>3. IntOn(Signed(L \cup {e}, u), L \cup {e}) /\ Signed(L \cup {e}, u)[e] \in Int
  BY <1>1, <1>2, SignedType
<1>4. SignedSum(L \cup {e}, u) = Signed(L \cup {e}, u)[e] + SumFunctionOnSet(Signed(L \cup {e}, u), L)
  BY <1>3, SumAdd DEF SignedSum
<1>5. \A x \in L : Signed(L \cup {e}, u)[x] = Signed(L, u)[x]
  BY DEF Signed
<1>6. SumFunctionOnSet(Signed(L \cup {e}, u), L) = SignedSum(L, u)
  BY <1>5, SumSame DEF SignedSum
<1>7. Signed(L \cup {e}, u)[e] = IF e.user = u THEN SignedAmount(e) ELSE 0
  BY DEF Signed
<1>8. SignedSum(L, u) \in Int
  BY SignedType
<1> QED
  BY ONLY <1>1, <1>3, <1>4, <1>6, <1>7, <1>8

\* ... and a refund of the bets of S adds each stake once.
RefundRow(b, kind, k) == [kind |-> kind, ref |-> k, user |-> b[k].user, amount |-> b[k].stake]
RefundRows(b, kind, S) == {RefundRow(b, kind, k) : k \in S}

RefundDue(L, b, kind, S) ==
    /\ L \in SUBSET LedgerEntry /\ IsFiniteSet(L)
    /\ Table(b) /\ S \in SUBSET InBets(b) /\ kind \in {"cancel-refund", "recovery-refund"}
    /\ \A k \in S : RefundRow(b, kind, k) \notin L

LEMMA SignedRefunds ==
    ASSUME NEW L, NEW b, NEW kind, NEW S, RefundDue(L, b, kind, S)
    PROVE  /\ IsFiniteSet(L \cup RefundRows(b, kind, S))
           /\ \A u : SignedSum(L \cup RefundRows(b, kind, S), u) =
                      SignedSum(L, u) + StakeOf(b, Mine(b, S, u))
<1>u. SUFFICES ASSUME NEW u
      PROVE  /\ IsFiniteSet(L \cup RefundRows(b, kind, S))
             /\ SignedSum(L \cup RefundRows(b, kind, S), u) =
                  SignedSum(L, u) + StakeOf(b, Mine(b, S, u))
  OBVIOUS
<1> USE DEF RefundDue
<1> DEFINE m == [k \in S |-> RefundRow(b, kind, k)]
           M == {m[k] : k \in S}
           f == Signed(L \cup M, u)
           g == [k \in S |-> IF b[k].user = u THEN b[k].stake ELSE 0]
           h == [k \in Mine(b, S, u) |-> b[k].stake]
<1>1. M = RefundRows(b, kind, S)
  BY DEF RefundRows
<1>2. IsFiniteSet(S) /\ \A k \in S : b[k].stake \in Nat /\ b[k].stake \in Int
  BY StakeOfType
<1>3. ASSUME NEW k \in S PROVE m[k] \in LedgerEntry
  <2>1. k \in BetKeys /\ b[k].user \in Users /\ b[k].stake \in Coins
    BY RowIsBet, StakeIsAmount DEF InBets, Bet
  <2> QED
    BY <2>1 DEF LedgerEntry, EntryKind, RefundRow
<1>4. M \in SUBSET LedgerEntry
  BY <1>3
<1>5. m \in Surjection(S, M)
  BY DEF Surjection
<1> HIDE DEF M
<1>6. IsFiniteSet(M)
  BY <1>2, <1>5, FS_Surjection
<1>7. IsFiniteSet(L \cup M) /\ L \cup M \in SUBSET LedgerEntry
  BY <1>4, <1>6, FS_Union
<1>8. IntOn(f, L \cup M) /\ \A e \in L \cup M : f[e] \in Int
  BY <1>7, SignedType
<1>9. (L \cup M) \ L = M
  BY DEF M
<1>10. SumFunctionOnSet(f, L \cup M) = SumFunctionOnSet(f, L) + SumFunctionOnSet(f, M)
  BY <1>7, <1>8, <1>9, SumParts
<1>11. SumFunctionOnSet(f, L) = SignedSum(L, u)
  <2>1. \A e \in L : f[e] = Signed(L, u)[e]
    BY DEF Signed
  <2> QED
    BY <2>1, SumSame DEF SignedSum
<1>12. \A x, y \in S : m[x] = m[y] => x = y
  BY DEF RefundRow
<1>13. \A x \in S : f[m[x]] = g[x] /\ g[x] \in Int
  <2> SUFFICES ASSUME NEW x \in S PROVE f[m[x]] = g[x] /\ g[x] \in Int
    OBVIOUS
  <2>1. m[x] \in M /\ m[x].kind = kind /\ m[x].user = b[x].user /\ m[x].amount = b[x].stake
    BY DEF M, RefundRow
  <2>2. SignedAmount(m[x]) = b[x].stake
    BY <2>1 DEF SignedAmount
  <2> QED
    BY <1>2, <2>1, <2>2 DEF Signed
<1>14. SumFunctionOnSet(f, M) = SumFunctionOnSet(g, S)
  <2> HIDE DEF f, g, m
  <2> QED
    BY <1>2, <1>12, <1>13, SumImage DEF M
<1>15. SumFunctionOnSet(g, S) = SumFunctionOnSet(h, Mine(b, S, u))
  <2>1. /\ Mine(b, S, u) \in SUBSET S
        /\ \A x \in S : g[x] \in Int
        /\ \A x \in Mine(b, S, u) : g[x] = h[x]
        /\ \A x \in S \ Mine(b, S, u) : g[x] = 0
    BY <1>2 DEF Mine
  <2> HIDE DEF g, h
  <2> QED
    BY <1>2, <2>1, SumPick
<1>16. SumFunctionOnSet(h, Mine(b, S, u)) = StakeOf(b, Mine(b, S, u))
  BY DEF StakeOf, SumFunction
<1> QED
  BY <1>1, <1>4, <1>7, <1>10, <1>11, <1>14, <1>15, <1>16 DEF SignedSum

-----------------------------------------------------------------------------
(* The books *)

AccountsOK(b, L, w) ==
    /\ Table(b) /\ L \in SUBSET LedgerEntry /\ IsFiniteSet(L)
    /\ \A u \in Users : TotalOf(w[u]) = InitialCoins + NetSum(b, u)
    /\ \A u \in Users : TotalOf(w[u]) = InitialCoins + SignedSum(L, u)

LEMMA BooksAre ==
    ASSUME TypeOK
    PROVE  BooksInv <=> KeysAreSpent /\ AccountsOK(bets, ledger, wallet)
<1>1. Placed = InBets(bets)
  BY DEF Placed, InBets
<1>2. bets \in [BetKeys -> Bet \cup {NoBet}] /\ ledger \in SUBSET LedgerEntry
  BY DEF TypeOK
<1>3. ASSUME IsFiniteSet(InBets(bets)), IsFiniteSet(ledger)
      PROVE  /\ CoinsConserved <=> \A u \in Users : TotalOf(wallet[u]) = InitialCoins + NetSum(bets, u)
             /\ WalletMatchesLedger <=> \A u \in Users : TotalOf(wallet[u]) = InitialCoins + SignedSum(ledger, u)
  <2>1. Table(bets)
    BY <1>2, <1>3 DEF Table
  <2>2. CoinsConserved <=> \A u \in Users : TotalOf(wallet[u]) = InitialCoins + NetSum(bets, u)
    BY <1>1, <2>1, NetSumIs DEF CoinsConserved
  <2>3. WalletMatchesLedger <=> \A u \in Users : TotalOf(wallet[u]) = InitialCoins + SignedSum(ledger, u)
    BY <1>2, <1>3, SignedSumIs DEF WalletMatchesLedger
  <2> QED
    BY <2>2, <2>3
<1> QED
  BY <1>1, <1>2, <1>3 DEF BooksInv, AccountsOK, Table

LEMMA BooksAreNext == TypeOK' => (BooksInv' <=> KeysAreSpent' /\ AccountsOK(bets, ledger, wallet)')
  BY BooksAre, PTL

\* A refund transaction of pending bets S.
Refunding(S, kind) ==
    /\ S \in SUBSET Placed /\ \A k \in S : bets[k].status = "PENDING"
    /\ kind \in {"cancel-refund", "recovery-refund"}
    /\ RefundBets(S, kind)

\* The steps that move coins or bets.
LEMMA MoneySteps ==
    ASSUME [Next]_vars
    PROVE  \/ \E k \in BetKeys, u \in Users, r \in Rounds, c \in Colors, s \in Stakes :
                 PlaceBet(k, u, r, c, s)
           \/ \E p \in Procs : MarkLosingBets(p)
           \/ \E p \in Procs, u \in Users : SettleWinnerUser(p, u)
           \/ \E S, kind : Refunding(S, kind)
           \/ UNCHANGED <<bets, ledger, wallet>>
<1> DEFINE Goal == \/ \E k \in BetKeys, u \in Users, r \in Rounds, c \in Colors, s \in Stakes :
                            PlaceBet(k, u, r, c, s)
                   \/ \E p \in Procs : MarkLosingBets(p)
                   \/ \E p \in Procs, u \in Users : SettleWinnerUser(p, u)
                   \/ \E S, kind : Refunding(S, kind)
                   \/ UNCHANGED <<bets, ledger, wallet>>
<1>p. Engines \subseteq Procs /\ Admins \subseteq Procs
  BY DEF Procs
<1>1. ASSUME NEW p \in Procs, Settle(p) PROVE Goal
  BY <1>1 DEF Settle, BeginSettlement, WinnersDone, CompleteSettlement, dbVars
<1>2. ASSUME NEW e \in Engines, RecoverRound(e) PROVE Goal
  <2>1. CASE RefundBets(Pending(job[e].round), "recovery-refund")
    <3>1. Refunding(Pending(job[e].round), "recovery-refund")
      BY <2>1, PendingPlaced, PendingIsPending DEF Refunding
    <3> QED
      BY <3>1
  <2> QED
    BY <1>2, <2>1 DEF RecoverRound
<1>3. CASE ForceStopRound
  <2>1. PICK r \in ActiveRounds : RefundBets(Pending(r), "cancel-refund")
    BY <1>3 DEF ForceStopRound
  <2>2. Refunding(Pending(r), "cancel-refund")
    BY <2>1, PendingPlaced, PendingIsPending DEF Refunding
  <2> QED
    BY <2>2
<1>4. ASSUME NEW c \in Colors, NEW n \in Rounds, ForceStartRound(c, n) PROVE Goal
  <2> DEFINE S == UNION {Pending(r) : r \in ActiveRounds}
  <2>1. S \in SUBSET Placed /\ \A k \in S : bets[k].status = "PENDING"
    BY PendingPlaced, PendingIsPending
  <2>2. RefundBets(S, "cancel-refund")
    BY <1>4 DEF ForceStartRound
  <2> HIDE DEF S
  <2>3. Refunding(S, "cancel-refund")
    BY <2>1, <2>2 DEF Refunding
  <2> QED
    BY <2>3
<1>5. ASSUME NEW e \in Engines, Engine(e) PROVE Goal
  BY <1>1, <1>2, <1>5, <1>p DEF Engine, Tick, ReadCurrentRound, ReadGameControl, OpenRound, LockRound,
     ReadBack, ReadSeed, AnnounceRound, MarkResolving, CompleteRound, FindLatestRound, CreateNothing,
     OpenNewRound, CreateRound, dbVars
<1>6. ASSUME NEW a \in Admins, Admin(a) PROVE Goal
  BY <1>1, <1>6, <1>p DEF Admin, ForceResultStep, ForceResult, ForceResultSeed, ForceResultComplete, dbVars
<1>7. CASE \/ \E p \in Procs : Fail(p) \/ Crash(p)
           \/ \E b \in BOOLEAN : SetPaused(b)
           \/ \E r \in Rounds : LoseSeed(r)
           \/ Clock \/ LockExpires \/ UNCHANGED vars
  BY <1>7 DEF Fail, Crash, SetPaused, LoseSeed, Clock, LockExpires, vars, dbVars
<1> QED
  BY <1>3, <1>4, <1>5, <1>6, <1>7 DEF Next

\* A step that adds a bet adds it to a round nobody has begun to settle.
LEMMA NewBetIsUnsettled ==
    ASSUME IInv, [Next]_vars, NEW k \in BetKeys, bets[k] = NoBet, bets'[k] # NoBet
    PROVE  settlement[bets'[k].round].status = "NONE"
<1>1. ASSUME NEW l \in BetKeys, NEW u \in Users, NEW r \in Rounds, NEW c \in Colors, NEW s \in Stakes,
             PlaceBet(l, u, r, c, s)
      PROVE  settlement[bets'[k].round].status = "NONE"
  <2>1. settlement[r].status = "NONE"
    BY <1>1 DEF PlaceBet, AcceptsBets, IInv, UndecidedIsUnsettled
  <2>2. l = k /\ bets'[k].round = r
    BY <1>1 DEF PlaceBet, IInv, TypeOK
  <2> QED
    BY <2>1, <2>2
<1>2. ASSUME NEW S, NEW st, bets' = WithStatus(S, st), S \in SUBSET Placed PROVE FALSE
  BY <1>2 DEF WithStatus, Placed
<1>3. ASSUME NEW p \in Procs, MarkLosingBets(p) PROVE FALSE
  BY <1>2, <1>3, PendingPlaced DEF MarkLosingBets
<1>4. ASSUME NEW p \in Procs, NEW u \in Users, SettleWinnerUser(p, u) PROVE FALSE
  <2>1. WinnerBets(job[p].round, job[p].result, u) \in SUBSET Placed
    BY PendingPlaced DEF WinnerBets
  <2> QED
    BY <1>2, <1>4, <2>1 DEF SettleWinnerUser
<1>5. ASSUME NEW S, NEW kind, Refunding(S, kind) PROVE FALSE
  BY <1>2, <1>5 DEF Refunding, RefundBets
<1> QED
  BY <1>1, <1>3, <1>4, <1>5, MoneySteps

\* What a row of the ledger says stays true.
LEMMA OldRows ==
    ASSUME IInv, TypeOK', [Next]_vars, NEW e \in ledger, Spent(e) PROVE Spent(e)'
<1>1. BetStep \/ UNCHANGED bets
  BY BetsStep DEF IInv
<1>2. ASSUME NEW k \in BetKeys, bets[k] # NoBet
      PROVE  /\ bets'[k] # NoBet
             /\ bets'[k].round = bets[k].round /\ bets'[k].user = bets[k].user
             /\ bets'[k].choice = bets[k].choice
             /\ bets[k].status # "PENDING" => bets'[k].status = bets[k].status
  <2>1. bets[k] \in Bet
    BY <1>2 DEF IInv, TypeOK
  <2>2. CASE bets'[k] = bets[k]
    BY <1>2, <2>2
  <2>3. CASE bets'[k] # bets[k]
    <3>1. /\ bets'[k] # NoBet /\ bets[k].status = "PENDING"
          /\ bets'[k] = [bets[k] EXCEPT !.status = bets'[k].status]
      BY <1>1, <1>2, <2>3 DEF BetStep
    <3> QED
      BY <2>1, <3>1 DEF Bet
  <2> QED
    BY <2>2, <2>3
<1>3. CASE e.kind = "settlement-credit"
  <2>1. /\ e.ref \in Rounds /\ settlement[e.ref].status # "NONE"
        /\ \A k \in Pending(e.ref) : bets[k].user = e.user => bets[k].choice # settlement[e.ref].result
    BY <1>3 DEF Spent
  <2>2. settlement'[e.ref].status # "NONE" /\ settlement'[e.ref].result = settlement[e.ref].result
    BY <2>1, SettlementsStep DEF SettlementStep
  <2>3. ASSUME NEW k \in Pending(e.ref)', bets'[k].user = e.user
        PROVE  bets'[k].choice # settlement'[e.ref].result
    <3>1. k \in BetKeys /\ bets'[k] # NoBet /\ bets'[k].round = e.ref /\ bets'[k].status = "PENDING"
      BY <2>3 DEF Pending, BetsOf, Placed
    <3>2. bets[k] # NoBet
      BY <2>1, <3>1, NewBetIsUnsettled
    <3>3. k \in Pending(e.ref)
      BY <1>2, <3>1, <3>2 DEF Pending, BetsOf, Placed
    <3> QED
      BY <1>2, <2>1, <2>2, <2>3, <3>1, <3>2, <3>3
  <2> QED
    BY <1>3, <2>1, <2>2, <2>3 DEF Spent
<1>4. CASE e.kind # "settlement-credit"
  <2>1. /\ e.ref \in BetKeys /\ bets[e.ref] # NoBet
        /\ e.kind # "bet-debit" => bets[e.ref].status = "CANCELLED"
    BY <1>4 DEF Spent, Placed
  <2> QED
    BY <1>2, <1>4, <2>1 DEF Spent, Placed
<1> QED
  BY <1>3, <1>4

LEMMA RowsStaySpent ==
    ASSUME IInv, TypeOK', [Next]_vars, KeysAreSpent, \A e \in ledger' : e \notin ledger => Spent(e)'
    PROVE  KeysAreSpent'
  BY OldRows DEF KeysAreSpent

-----------------------------------------------------------------------------
(* Each of these steps keeps the books *)

LEMMA WalletTotal == ASSUME NEW w \in Wallet PROVE TotalOf(w) \in Int
  BY DEF Wallet, TotalOf, Coins

\* placeBet: the debit row is new, since the bet is.
LEMMA PlaceBetBooks ==
    ASSUME IInv, TypeOK', [Next]_vars, KeysAreSpent, AccountsOK(bets, ledger, wallet),
           NEW k \in BetKeys, NEW u \in Users, NEW r \in Rounds, NEW c \in Colors, NEW s \in Stakes,
           PlaceBet(k, u, r, c, s)
    PROVE  KeysAreSpent' /\ AccountsOK(bets, ledger, wallet)'
<1> DEFINE b == [status |-> "PENDING", user |-> u, round |-> r, choice |-> c, stake |-> s]
           e == [kind |-> "bet-debit", ref |-> k, user |-> u, amount |-> s]
<1>1. /\ TypeOK /\ bets[k] = NoBet /\ bets' = [bets EXCEPT ![k] = b] /\ ledger' = ledger \cup {e}
      /\ wallet' = [wallet EXCEPT ![u] = Debit(wallet[u], s)]
  BY DEF IInv, PlaceBet
<1>2. bets \in [BetKeys -> Bet \cup {NoBet}] /\ wallet \in [Users -> Wallet] /\ ledger \in SUBSET LedgerEntry
  BY <1>1 DEF TypeOK
<1>3. bets' \in [BetKeys -> Bet \cup {NoBet}] /\ ledger' \in SUBSET LedgerEntry
  BY DEF TypeOK
<1>4. b \in Bet /\ b.status = "PENDING" /\ b.user = u /\ b.stake = s /\ s \in Int
  BY StakeIsInt DEF Bet, BetStatus
<1>5. bets'[k] = b /\ \A x \in BetKeys : x # k => bets'[x] = bets[x]
  BY <1>1, <1>2
<1>6. e \in LedgerEntry /\ e \notin ledger
  <2>1. e \in LedgerEntry
    BY <1>1, <1>3
  <2>2. k \notin Placed
    BY <1>1 DEF Placed
  <2>3. ASSUME e \in ledger PROVE FALSE
    BY <2>2, <2>3 DEF KeysAreSpent, Spent
  <2> QED
    BY <2>1, <2>3
<1>7. e.kind = "bet-debit" /\ e.ref = k /\ e.user = u /\ SignedAmount(e) = 0 - s
  BY DEF SignedAmount
<1>8. KeysAreSpent'
  <2>1. k \in Placed'
    BY <1>4, <1>5, RoundGameAssumption DEF Placed
  <2>2. Spent(e)'
    BY <1>7, <2>1 DEF Spent
  <2> QED
    BY <1>1, <2>2, RowsStaySpent
<1> HIDE DEF b, e
<1>9. ASSUME NEW v \in Users
      PROVE  /\ Table(bets')
             /\ NetSum(bets', v) = NetSum(bets, v) + IF v = u THEN 0 - s ELSE 0
  <2>1. Table(bets) /\ bets'[k] \in Bet /\ bets'[k].status = "PENDING"
    BY <1>4, <1>5 DEF AccountsOK
  <2>2. /\ Table(bets')
        /\ NetSum(bets', v) = NetSum(bets, v) + IF bets'[k].user = v THEN 0 - bets'[k].stake ELSE 0
    <3>1. Placing(bets, bets', k)
      BY <1>1, <1>3, <1>5, <2>1 DEF Placing
    <3> QED
      BY <3>1, NetAdd
  <2> QED
    BY <1>4, <1>5, <2>2
<1>10. ASSUME NEW v \in Users
       PROVE  /\ IsFiniteSet(ledger')
              /\ SignedSum(ledger', v) = SignedSum(ledger, v) + IF v = u THEN 0 - s ELSE 0
  <2>1. IsFiniteSet(ledger)
    BY DEF AccountsOK
  <2> QED
    BY <1>1, <1>2, <1>6, <1>7, <2>1, SignedAdd
<1>11. ASSUME NEW v \in Users
       PROVE  TotalOf(wallet'[v]) = TotalOf(wallet[v]) + IF v = u THEN 0 - s ELSE 0
  <2>1. CASE v = u
    <3>1. wallet'[v] = Debit(wallet[v], s)
      BY <1>1, <1>2, <2>1
    <3>2. wallet[v].deposit \in Int /\ wallet[v].winning \in Int /\ DepositDebit(wallet[v], s) \in Int
      BY <1>2, <1>4 DEF Wallet, Coins, DepositDebit
    <3> QED
      BY <1>4, <2>1, <3>1, <3>2 DEF TotalOf, Debit
  <2>2. CASE v # u
    <3>1. wallet'[v] = wallet[v] /\ TotalOf(wallet[v]) \in Int
      BY <1>1, <1>2, <2>2, WalletTotal
    <3> QED
      BY <2>2, <3>1
  <2> QED
    BY <2>1, <2>2
<1>12. \A v \in Users : NetSum(bets, v) \in Int /\ SignedSum(ledger, v) \in Int
  BY NetType, SignedType DEF AccountsOK
<1>13. InitialCoins \in Int
  BY DEF Coins
<1>14. ASSUME NEW v \in Users
       PROVE  /\ TotalOf(wallet'[v]) = InitialCoins + NetSum(bets', v)
              /\ TotalOf(wallet'[v]) = InitialCoins + SignedSum(ledger', v)
  <2>1. /\ TotalOf(wallet[v]) = InitialCoins + NetSum(bets, v)
        /\ TotalOf(wallet[v]) = InitialCoins + SignedSum(ledger, v)
    BY DEF AccountsOK
  <2>2. /\ NetSum(bets', v) = NetSum(bets, v) + IF v = u THEN 0 - s ELSE 0
        /\ SignedSum(ledger', v) = SignedSum(ledger, v) + IF v = u THEN 0 - s ELSE 0
    BY <1>9, <1>10
  <2>3. TotalOf(wallet'[v]) = TotalOf(wallet[v]) + IF v = u THEN 0 - s ELSE 0
    BY <1>11
  <2> QED
    BY ONLY <1>4, <1>12, <1>13, <2>1, <2>2, <2>3
<1>15. Table(bets') /\ IsFiniteSet(ledger')
  BY <1>9, <1>10
<1> QED
  BY <1>3, <1>8, <1>14, <1>15 DEF AccountsOK

\* markLosingBetsForRound moves no coins.
LEMMA MarkLosingBetsBooks ==
    ASSUME IInv, TypeOK', [Next]_vars, KeysAreSpent, AccountsOK(bets, ledger, wallet),
           NEW p \in Procs, MarkLosingBets(p)
    PROVE  KeysAreSpent' /\ AccountsOK(bets, ledger, wallet)'
<1> DEFINE S == {k \in Pending(job[p].round) : bets[k].choice # job[p].result}
<1>1. bets' = WithStatus(S, "LOST") /\ ledger' = ledger /\ wallet' = wallet
  BY DEF MarkLosingBets
<1>2. Deciding(bets, bets', S, "LOST")
  BY <1>1 DEF Deciding, WithStatus, Pending, BetsOf, Placed, InBets
<1> HIDE DEF S
<1>3. Table(bets)
  BY DEF AccountsOK
<1>4. ASSUME NEW v \in Users PROVE NetSum(bets', v) = NetSum(bets, v)
  <2>1. NetSum(bets', v) = NetSum(bets, v) + Gain("LOST") * StakeOf(bets, Mine(bets, S, v))
    BY <1>2, <1>3, NetShift
  <2>2. StakeOf(bets, Mine(bets, S, v)) \in Nat
    BY <1>2, <1>3, StakeOfType DEF Deciding, Mine
  <2>3. NetSum(bets, v) \in Int /\ Gain("LOST") = 0
    BY <1>3, NetType DEF Gain
  <2> QED
    BY ONLY <2>1, <2>2, <2>3
<1>5. Table(bets')
  BY <1>2, <1>3, NetShift
<1>6. KeysAreSpent'
  BY <1>1, RowsStaySpent
<1> QED
  BY <1>1, <1>4, <1>5, <1>6 DEF AccountsOK

\* A pending bet that would win has not been paid: its settlement key is free.
LEMMA PayoutIsDue ==
    ASSUME IInv, KeysAreSpent, NEW p \in Procs, NEW u \in Users, SettleWinnerUser(p, u)
    PROVE  /\ ~KeyUsed("settlement-credit", job[p].round, u)
           /\ job[p].round \in Rounds /\ settlement[job[p].round].status # "NONE"
           /\ \A k \in Pending(job[p].round) : bets[k].choice = job[p].result
           /\ settlement[job[p].round].result = job[p].result
<1>1. pc[p] \in SettlePC /\ pc[p] = "winners" /\ WinnerBets(job[p].round, job[p].result, u) # {}
  BY DEF SettleWinnerUser, SettlePC
<1>2. /\ job[p].round \in Rounds /\ settlement[job[p].round].status # "NONE"
      /\ settlement[job[p].round].result = job[p].result
      /\ \A k \in Pending(job[p].round) : bets[k].choice = job[p].result
  BY <1>1, SettlerFacts DEF IInv, SettlementStages
<1>3. ASSUME NEW e \in ledger, e.kind = "settlement-credit", e.ref = job[p].round, e.user = u PROVE FALSE
  <2>1. PICK k \in WinnerBets(job[p].round, job[p].result, u) : TRUE
    BY <1>1
  <2>2. k \in Pending(job[p].round) /\ bets[k].choice = job[p].result /\ bets[k].user = u
    BY <2>1 DEF WinnerBets
  <2>3. Spent(e)
    BY DEF KeysAreSpent
  <2> QED
    BY <1>2, <1>3, <2>2, <2>3 DEF Spent
<1> QED
  BY <1>2, <1>3 DEF KeyUsed

\* settleWinnerUser.
LEMMA SettleWinnerUserBooks ==
    ASSUME IInv, TypeOK', [Next]_vars, KeysAreSpent, AccountsOK(bets, ledger, wallet),
           NEW p \in Procs, NEW u \in Users, SettleWinnerUser(p, u)
    PROVE  KeysAreSpent' /\ AccountsOK(bets, ledger, wallet)'
<1> PICK r \in Rounds : r = job[p].round
  BY PayoutIsDue
<1> DEFINE S == WinnerBets(r, job[p].result, u)
           pay == Multiplier * StakeSum(S)
<1> PICK e : e = [kind |-> "settlement-credit", ref |-> r, user |-> u, amount |-> pay]
  OBVIOUS
<1>1. /\ TypeOK /\ bets' = WithStatus(S, "WON") /\ ledger' = ledger \cup {e} /\ settlement' = settlement
      /\ wallet' = [wallet EXCEPT ![u] = CreditWinning(wallet[u], pay)] /\ pay \in ValidAmounts
  BY PayoutIsDue DEF IInv, SettleWinnerUser
<1>2. bets \in [BetKeys -> Bet \cup {NoBet}] /\ wallet \in [Users -> Wallet] /\ ledger \in SUBSET LedgerEntry
  BY <1>1 DEF TypeOK
<1>3. Deciding(bets, bets', S, "WON") /\ (\A k \in S : bets[k].user = u)
  BY <1>1 DEF Deciding, WithStatus, WinnerBets, Pending, BetsOf, Placed, InBets
<1>4. Table(bets) /\ IsFiniteSet(ledger)
  BY DEF AccountsOK
<1>5. StakeSum(S) = StakeOf(bets, S) /\ Mine(bets, S, u) = S
      /\ \A v \in Users : v # u => Mine(bets, S, v) = {}
  BY <1>3 DEF StakeSum, StakeOf, Mine
<1>6. e \notin ledger /\ e.kind = "settlement-credit" /\ e.ref = r /\ e.user = u /\ SignedAmount(e) = pay
  BY PayoutIsDue DEF KeyUsed, SignedAmount
<1>7. e \in LedgerEntry /\ ledger' \in SUBSET LedgerEntry
  BY <1>1 DEF TypeOK
<1>8. KeysAreSpent'
  <2>1. \A k \in Pending(r)' : bets'[k].user # u
    <3> SUFFICES ASSUME NEW k \in Pending(r)', bets'[k].user = u PROVE FALSE
      OBVIOUS
    <3>1. k \in BetKeys /\ bets'[k] # NoBet /\ bets'[k].round = r /\ bets'[k].status = "PENDING"
      BY DEF Pending, BetsOf, Placed
    <3>2. k \notin S
      <4>1. ASSUME k \in S PROVE bets'[k].status = "WON"
        <5>1. bets'[k] = [bets[k] EXCEPT !.status = "WON"] /\ k \in InBets(bets)
          BY <1>3, <3>1, <4>1 DEF Deciding
        <5> QED
          BY <1>4, <5>1, RowIsBet DEF Bet
      <4> QED
        BY <3>1, <4>1
    <3>3. bets'[k] = bets[k]
      BY <1>3, <3>1, <3>2 DEF Deciding
    <3>4. k \in Pending(r)
      BY <3>1, <3>3 DEF Pending, BetsOf, Placed
    <3> QED
      BY <3>2, <3>3, <3>4, PayoutIsDue DEF WinnerBets
  <2>2. r \in Rounds /\ settlement'[r].status # "NONE"
    BY <1>1, PayoutIsDue
  <2>3. Spent(e)'
    BY <1>6, <2>1, <2>2 DEF Spent
  <2> QED
    BY <1>1, <2>3, RowsStaySpent
<1>p. pay = 2 * StakeOf(bets, S)
  BY <1>5 DEF Multiplier
<1> HIDE DEF S, pay
<1>9. StakeOf(bets, S) \in Nat /\ pay = 2 * StakeOf(bets, S) /\ pay \in Int
  <2>1. StakeOf(bets, S) \in Nat
    BY <1>3, <1>4, StakeOfType DEF Deciding
  <2> QED
    BY ONLY <1>p, <2>1
<1>10. ASSUME NEW v \in Users PROVE NetSum(bets', v) = NetSum(bets, v) + IF v = u THEN pay ELSE 0
  <2>1. NetSum(bets', v) = NetSum(bets, v) + Gain("WON") * StakeOf(bets, Mine(bets, S, v))
    BY <1>3, <1>4, NetShift
  <2>2. NetSum(bets, v) \in Int /\ Gain("WON") = 2
    BY <1>4, NetType DEF Gain, Multiplier
  <2>3. CASE v = u
    BY ONLY <1>5, <1>9, <2>1, <2>2, <2>3
  <2>4. CASE v # u
    <3>1. StakeOf(bets, Mine(bets, S, v)) = 0
      BY <1>5, <2>4, SumEmpty DEF StakeOf, SumFunction
    <3> QED
      BY ONLY <2>1, <2>2, <2>4, <3>1
  <2> QED
    BY <2>3, <2>4
<1>11. ASSUME NEW v \in Users
       PROVE  /\ IsFiniteSet(ledger')
              /\ SignedSum(ledger', v) = SignedSum(ledger, v) + IF v = u THEN pay ELSE 0
  BY <1>1, <1>2, <1>4, <1>6, <1>7, SignedAdd
<1>12. ASSUME NEW v \in Users
       PROVE  TotalOf(wallet'[v]) = TotalOf(wallet[v]) + IF v = u THEN pay ELSE 0
  <2>1. CASE v = u
    <3>1. wallet'[v] = CreditWinning(wallet[v], pay)
      BY <1>1, <1>2, <2>1
    <3>2. wallet[v] \in Wallet
      BY <1>2
    <3> QED
      BY <1>9, <2>1, <3>1, <3>2 DEF TotalOf, CreditWinning, Wallet, Coins
  <2>2. CASE v # u
    <3>1. wallet'[v] = wallet[v] /\ TotalOf(wallet[v]) \in Int
      BY <1>1, <1>2, <2>2, WalletTotal
    <3> QED
      BY <2>2, <3>1
  <2> QED
    BY <2>1, <2>2
<1>13. \A v \in Users : NetSum(bets, v) \in Int /\ SignedSum(ledger, v) \in Int
  BY NetType, SignedType DEF AccountsOK
<1>14. InitialCoins \in Int
  BY DEF Coins
<1>15. ASSUME NEW v \in Users
       PROVE  /\ TotalOf(wallet'[v]) = InitialCoins + NetSum(bets', v)
              /\ TotalOf(wallet'[v]) = InitialCoins + SignedSum(ledger', v)
  <2>1. /\ TotalOf(wallet[v]) = InitialCoins + NetSum(bets, v)
        /\ TotalOf(wallet[v]) = InitialCoins + SignedSum(ledger, v)
    BY DEF AccountsOK
  <2>2. /\ NetSum(bets', v) = NetSum(bets, v) + IF v = u THEN pay ELSE 0
        /\ SignedSum(ledger', v) = SignedSum(ledger, v) + IF v = u THEN pay ELSE 0
        /\ TotalOf(wallet'[v]) = TotalOf(wallet[v]) + IF v = u THEN pay ELSE 0
    BY <1>10, <1>11, <1>12
  <2> QED
    BY ONLY <1>9, <1>13, <1>14, <2>1, <2>2
<1>16. Table(bets') /\ IsFiniteSet(ledger')
  BY <1>3, <1>4, <1>11, NetShift
<1> QED
  BY <1>7, <1>8, <1>15, <1>16 DEF AccountsOK

\* A refund of pending bets: none of the keys is used, and all are from now on.
LEMMA RefundBooks ==
    ASSUME IInv, TypeOK', [Next]_vars, KeysAreSpent, AccountsOK(bets, ledger, wallet),
           NEW S, NEW kind, Refunding(S, kind)
    PROVE  KeysAreSpent' /\ AccountsOK(bets, ledger, wallet)'
<1>1. /\ TypeOK /\ S \in SUBSET Placed /\ (\A k \in S : bets[k].status = "PENDING")
      /\ kind \in {"cancel-refund", "recovery-refund"}
      /\ bets' = WithStatus(S, "CANCELLED") /\ ledger' = ledger \cup RefundRows(bets, kind, S)
      /\ wallet' = [u \in Users |-> CreditDeposit(wallet[u], StakeSum(Refundable(S, kind, u)))]
  BY DEF IInv, Refunding, RefundBets, RefundRows, RefundRow
<1>2. bets \in [BetKeys -> Bet \cup {NoBet}] /\ wallet \in [Users -> Wallet] /\ ledger \in SUBSET LedgerEntry
  BY <1>1 DEF TypeOK
<1>3. Placed = InBets(bets) /\ Table(bets) /\ IsFiniteSet(ledger)
  BY DEF AccountsOK, Placed, InBets
<1>4. Deciding(bets, bets', S, "CANCELLED")
  BY <1>1, <1>3 DEF Deciding, WithStatus
<1>5. ASSUME NEW k \in S, NEW e \in ledger, e.kind = kind, e.ref = k PROVE FALSE
  <2>1. Spent(e)
    BY DEF KeysAreSpent
  <2>2. bets[k].status = "CANCELLED"
    BY <1>1, <1>5, <2>1 DEF Spent
  <2> QED
    BY <1>1, <2>2
<1>6. \A k \in S : RefundRow(bets, kind, k) \notin ledger
  BY <1>5 DEF RefundRow
<1>7. \A v \in Users : Refundable(S, kind, v) = Mine(bets, S, v)
  BY <1>5 DEF Refundable, Mine, KeyUsed
<1>8. KeysAreSpent'
  <2>1. ASSUME NEW e \in RefundRows(bets, kind, S) PROVE Spent(e)'
    <3>1. PICK k \in S : e = RefundRow(bets, kind, k)
      BY <2>1 DEF RefundRows
    <3>2. e.kind = kind /\ e.ref = k
      BY <3>1 DEF RefundRow
    <3>3. k \in BetKeys /\ bets[k] \in Bet /\ bets'[k] = [bets[k] EXCEPT !.status = "CANCELLED"]
      BY <1>1, PlacedIsBet DEF WithStatus
    <3>4. bets'[k] \in Bet /\ bets'[k].status = "CANCELLED"
      BY <3>3 DEF Bet, BetStatus
    <3>5. k \in Placed'
      BY <3>3, <3>4, RoundGameAssumption DEF Placed
    <3> QED
      BY <1>1, <3>2, <3>4, <3>5 DEF Spent
  <2> QED
    BY <1>1, <2>1, RowsStaySpent
<1>9. ASSUME NEW v \in Users
      PROVE  /\ StakeOf(bets, Mine(bets, S, v)) \in Nat
             /\ NetSum(bets', v) = NetSum(bets, v) + StakeOf(bets, Mine(bets, S, v))
             /\ SignedSum(ledger', v) = SignedSum(ledger, v) + StakeOf(bets, Mine(bets, S, v))
             /\ TotalOf(wallet'[v]) = TotalOf(wallet[v]) + StakeOf(bets, Mine(bets, S, v))
  <2>1. StakeOf(bets, Mine(bets, S, v)) \in Nat
    BY <1>1, <1>3, StakeOfType DEF Mine
  <2>2. NetSum(bets', v) = NetSum(bets, v) + Gain("CANCELLED") * StakeOf(bets, Mine(bets, S, v))
    BY <1>3, <1>4, NetShift
  <2>3. Gain("CANCELLED") = 1
    BY DEF Gain
  <2>4. NetSum(bets', v) = NetSum(bets, v) + StakeOf(bets, Mine(bets, S, v))
    BY ONLY <2>1, <2>2, <2>3
  <2>5. S \in SUBSET InBets(bets)
    BY <1>1, <1>3
  <2>6. SignedSum(ledger \cup RefundRows(bets, kind, S), v) = SignedSum(ledger, v) + StakeOf(bets, Mine(bets, S, v))
    <3>1. RefundDue(ledger, bets, kind, S)
      BY <1>1, <1>2, <1>3, <1>6, <2>5 DEF RefundDue
    <3> QED
      BY <3>1, SignedRefunds
  <2>7. wallet'[v] = CreditDeposit(wallet[v], StakeOf(bets, Mine(bets, S, v)))
    BY <1>1, <1>7 DEF StakeSum, StakeOf
  <2>8. TotalOf(wallet'[v]) = TotalOf(wallet[v]) + StakeOf(bets, Mine(bets, S, v))
    <3>1. wallet[v] \in Wallet
      BY <1>2
    <3> QED
      BY <2>1, <2>7, <3>1 DEF TotalOf, CreditDeposit, Wallet, Coins
  <2> QED
    BY <1>1, <2>1, <2>4, <2>6, <2>8
<1>10. \A v \in Users : NetSum(bets, v) \in Int /\ SignedSum(ledger, v) \in Int
  BY NetType, SignedType DEF AccountsOK
<1>11. InitialCoins \in Int
  BY DEF Coins
<1>12. ASSUME NEW v \in Users
       PROVE  /\ TotalOf(wallet'[v]) = InitialCoins + NetSum(bets', v)
              /\ TotalOf(wallet'[v]) = InitialCoins + SignedSum(ledger', v)
  <2>1. /\ TotalOf(wallet[v]) = InitialCoins + NetSum(bets, v)
        /\ TotalOf(wallet[v]) = InitialCoins + SignedSum(ledger, v)
    BY DEF AccountsOK
  <2> QED
    BY ONLY <1>9, <1>10, <1>11, <2>1
<1>13. Table(bets') /\ ledger' \in SUBSET LedgerEntry
  BY <1>3, <1>4, NetShift DEF TypeOK
<1>14. IsFiniteSet(ledger')
  <2>1. S \in SUBSET InBets(bets)
    BY <1>1, <1>3
  <2>2. IsFiniteSet(ledger \cup RefundRows(bets, kind, S))
    <3>1. RefundDue(ledger, bets, kind, S)
      BY <1>1, <1>2, <1>3, <1>6, <2>1 DEF RefundDue
    <3> QED
      BY <3>1, SignedRefunds
  <2> QED
    BY <1>1, <2>2
<1> QED
  BY <1>8, <1>12, <1>13, <1>14 DEF AccountsOK

LEMMA BooksStep == ASSUME IInv, BooksInv, [Next]_vars PROVE BooksInv'
<1>1. TypeOK /\ TypeOK'
  BY StepIInv DEF IInv
<1>2. KeysAreSpent /\ AccountsOK(bets, ledger, wallet)
  BY <1>1, BooksAre
<1>3. CASE UNCHANGED <<bets, ledger, wallet>>
  <2>1. KeysAreSpent'
    BY <1>1, <1>2, <1>3, RowsStaySpent
  <2> QED
    BY <1>1, <1>2, <1>3, <2>1, BooksAreNext DEF AccountsOK
<1>4. KeysAreSpent' /\ AccountsOK(bets, ledger, wallet)' => BooksInv'
  BY <1>1, BooksAreNext
<1> QED
  BY <1>1, <1>2, <1>3, <1>4, MoneySteps, PlaceBetBooks, MarkLosingBetsBooks, SettleWinnerUserBooks, RefundBooks

LEMMA InitBooks == Init => BooksInv
<1> SUFFICES ASSUME Init PROVE BooksInv
  OBVIOUS
<1>1. TypeOK
  BY InitType
<1>2. Placed = {} /\ InBets(bets) = {} /\ ledger = {}
  BY DEF Init, Placed, InBets
<1>3. IsFiniteSet({})
  BY FS_EmptySet
<1>4. \A u \in Users : TotalOf(wallet[u]) = InitialCoins + 0
  BY DEF Init, TotalOf, Coins
<1>5. \A u \in Users : NetSum(bets, u) = 0 /\ SignedSum(ledger, u) = 0
  BY <1>2, SumEmpty DEF NetSum, SignedSum
<1>6. AccountsOK(bets, ledger, wallet)
  BY <1>1, <1>2, <1>3, <1>4, <1>5 DEF AccountsOK, Table, TypeOK
<1>7. KeysAreSpent
  BY <1>2 DEF KeysAreSpent
<1> QED
  BY <1>1, <1>6, <1>7, BooksAre

\* The books of the game are in order: the keys of the ledger follow the bets and
\* the settlements, and every wallet is what its bets and its ledger rows say.
THEOREM BooksInvariant == Spec => []BooksInv
<1>1. Init => BooksInv
  BY InitBooks
<1>2. IInv /\ BooksInv /\ [Next]_vars => BooksInv'
  BY BooksStep
<1> QED
  BY <1>1, <1>2, GameInvariant, PTL DEF Spec

\* Every bet is debited once and paid or refunded at most once, whatever is
\* retried, replayed, crashed or done concurrently: no coin appears or vanishes.
THEOREM CoinsAreConserved == Spec => []CoinsConserved
<1>1. BooksInv => CoinsConserved
  BY DEF BooksInv
<1> QED
  BY <1>1, BooksInvariant, PTL

\* The wallet snapshot is at all times the signed sum of the user's ledger rows.
THEOREM WalletsMatchLedger == Spec => []WalletMatchesLedger
<1>1. BooksInv => WalletMatchesLedger
  BY DEF BooksInv
<1> QED
  BY <1>1, BooksInvariant, PTL
=============================================================================
