------------------------------ MODULE Prepared ------------------------------
(*****************************************************************************)
(* Prepared transactions: the backend reads the chain and builds a borrow,   *)
(* repay, deposit or withdrawal (backend/src/pool/service.ts, lender.ts,     *)
(* freshPrice.ts), the wallet signs it, the page sends it transaction by     *)
(* transaction (app/src/useSendPrepared.ts), and between a read and the      *)
(* moment it lands the pool, the clock and the wallet move on.               *)
(*                                                                           *)
(* A tab of the web app shows a page of figures it has read and works on one *)
(* request at a time; a wallet may have several open. A signed transaction   *)
(* that was sent lands, is lost (it fails on chain or its blockhash          *)
(* expires), or is given up by the page and lands or is lost later. The      *)
(* chain is Pool; "accounts" are the wallet's own accounts that the prepared *)
(* instructions create and close.                                            *)
(*****************************************************************************)
EXTENDS PoolService

CONSTANTS
  SOL,              \* the mint whose collateral is native SOL, wrapped
  ALL,              \* the withdrawal of every share
  Wallets, Tabs,
  Typed,            \* what may be typed into the amount fields of the pages
  Wrapped,          \* SOL a wallet may wrap outside the app
  COLLATERAL_BUFFER_BPS, SOL_FEE_RESERVE, REPAY_MARGIN,
  MaxRequests, MaxEvents  \* bounds on the requests and on what happens around them

ASSUME PageAssumption ==
  /\ SOL \in Mints /\ Wallets \subseteq Borrowers \cap Lenders
  /\ Typed.borrow \cup Typed.deposit \cup Typed.withdraw \subseteq Nat
  /\ \A m \in Mints : Typed.collateral[m] \subseteq Nat
  /\ COLLATERAL_BUFFER_BPS \in Nat

VARIABLES
  tier,          \* the standing TrustTrail computes for each wallet
  funds,         \* each wallet's balances: tUSDC, SOL, wrapped SOL, side account
  accounts,      \* which of its score, wSOL and side accounts exist
  tabs,          \* the request each tab works on
  network,       \* signed transactions sent and neither landed nor lost
  priceAccounts, \* price updates posted and not yet closed
  requests, events,
  emptied        \* how often the pool's last share was burned: no code reads it

wallet == <<tier, funds, accounts>>
service == <<tabs, network, requests>>
allVars == <<vars, wallet, service, priceAccounts, events, emptied>>

Idle == [stage |-> "idle"]
Reading == {"pool", "vault"}
NoFeeds == [c \in Mints |-> Null]
MarketOf(tab) == Market(tab.stored, tab.clock, tab.idle, NoFeeds)

\* Nothing is asked for yet; the pool may be anywhere in its life.
ServiceInit ==
  /\ tier \in [Wallets -> Standings]
  /\ accounts = [w \in Wallets |-> {}]
  /\ tabs = [t \in Tabs |-> Idle]
  /\ network = {} /\ priceAccounts = {}
  /\ requests = 0 /\ events = 0 /\ emptied = 0

BorrowerRead(w) == readBorrower(w, tier[w], "score" \in accounts[w])

\* The chain moved: what a tab has read may be stale from here on.
Aged(tab) ==
  IF tab.stage \in Reading \cup {"refused"}
  THEN [tab EXCEPT !.fresh = FALSE, !.offered = FALSE]
  ELSE IF tab.stage \in {"shown", "ready"} THEN [tab EXCEPT !.fresh = FALSE] ELSE tab
AllAged == [t \in Tabs |-> Aged(tabs[t])]

-----------------------------------------------------------------------------
(* A prepared transaction, when it lands.  It does all of what it says or   *)
(* fails whole.                                                             *)

LoanAt(w, id) == {l \in loans : l.borrower = w /\ l.loan_id = id}

\* Mutant: the borrow names no Loan account of its own.
AddressIsNextAlways(tx) == TRUE
\* The Loan account named is the one the program creates.
AddressIsNext(tx) == tx.loanId = borrower_state[tx.wallet].next_loan_id

\* Score account created, collateral moved to where the program takes it from,
\* and an account the transaction created for it closed again.
LandBorrow(tx) ==
  LET w == tx.wallet
      f == funds[w]
      opened == (IF tx.init THEN {"score"} ELSE {})
                  \cup IF tx.mint = SOL THEN {"wsol"} ELSE {"side"}
      closed == IF tx.closes THEN {"wsol"} ELSE {}
  IN  /\ tx.init => "score" \notin accounts[w]
      /\ AddressIsNext(tx)
      /\ IF tx.mint = SOL
         THEN /\ f.sol >= tx.posted
              /\ funds' = [funds EXCEPT
                   ![w].sol = @ - tx.posted + (IF tx.closes THEN f.wsol ELSE 0),
                   ![w].wsol = IF tx.closes THEN 0 ELSE @,
                   ![w].usdc = @ + tx.amount]
         ELSE /\ tx.opens = ("side" \notin accounts[w])
              /\ f.usdc >= tx.posted
              /\ funds' = [funds EXCEPT ![w].usdc = @ - tx.posted + tx.amount]
      /\ accounts' = [accounts EXCEPT ![w] = (@ \cup opened) \ closed]
      /\ Borrow(w, IF tx.init THEN UNPROVEN ELSE tier[w], tx.amount, tx.mint,
                tx.posted, tx.update)

LandRepay(tx) ==
  LET w == tx.wallet
      f == funds[w]
  IN  \E l \in LoanAt(w, tx.loanId) :
        /\ Repay(l)
        /\ f.usdc >= vault' - vault
        /\ IF l.collateral_mint = SOL
           THEN /\ funds' = [funds EXCEPT ![w].usdc = @ - (vault' - vault),
                                          ![w].sol = @ + f.wsol + l.collateral_amount,
                                          ![w].wsol = 0]
                /\ accounts' = [accounts EXCEPT ![w] = @ \ {"wsol"}]
           ELSE /\ "side" \in accounts[w]
                /\ funds' = [funds EXCEPT
                     ![w].usdc = @ - (vault' - vault) + l.collateral_amount]
                /\ UNCHANGED accounts

LandDeposit(tx) ==
  /\ funds[tx.wallet].usdc >= tx.amount
  /\ Deposit(tx.wallet, tx.amount)
  /\ funds' = [funds EXCEPT ![tx.wallet].usdc = @ - tx.amount]
  /\ UNCHANGED accounts

LandWithdraw(tx) ==
  /\ Withdraw(tx.wallet, tx.shares)
  /\ funds' = [funds EXCEPT ![tx.wallet].usdc = @ + (vault - vault')]
  /\ UNCHANGED accounts

Act(tx) ==
  /\ \/ tx.kind = "borrow" /\ LandBorrow(tx)
     \/ tx.kind = "repay" /\ LandRepay(tx)
     \/ tx.kind = "deposit" /\ LandDeposit(tx)
     \/ tx.kind = "withdraw" /\ LandWithdraw(tx)
  /\ UNCHANGED tier

-----------------------------------------------------------------------------
(* What the service answers, from what the tab's request has read.          *)

\* The latest signed update of the collateral's feed, as Hermes has it.
LatestUpdates(feed_id) ==
  {u \in PriceUpdates :
     /\ u.feed_id = feed_id /\ u.publish_time <= now
     /\ \A v \in PriceUpdates :
          v.feed_id = feed_id /\ v.publish_time <= now => v.publish_time <= u.publish_time}

\* Each answer is the transaction built, or what it would have been, and why it
\* was refused: for what the pool would not do, or for what the wallet lacks.
Reply(tx, poolRefuses, walletShort) ==
  [tx |-> tx,
   refused |-> IF poolRefuses THEN "pool" ELSE IF walletShort THEN "wallet" ELSE "no"]

prepareBorrow(tab, update) ==
  LET req == tab.req
      w == req.wallet
      m == MarketOf(tab)
      c == m.collaterals[req.mint].config
      b == BorrowerRead(w)
      minimum == minCollateral(req.amount, TierCollateralBps[b.tier], LowPrice(update))
      posted == IF req.posted = Null
                THEN (minimum * (BPS + COLLATERAL_BUFFER_BPS)) \div BPS ELSE req.posted
      tx == [kind |-> "borrow", flow |-> tab.flow, wallet |-> w, amount |-> req.amount,
             mint |-> req.mint, posted |-> posted, update |-> update,
             loanId |-> b.nextLoanId, init |-> ~b.hasScoreAccount,
             opens |-> req.mint # SOL /\ "side" \notin accounts[w],
             closes |-> req.mint = SOL /\ "wsol" \notin accounts[w]]
  IN  Reply(tx,
            \/ c.min_tier > b.tier
            \/ req.amount <= 0
            \/ req.amount > maxLoan(b.tier, b.largestRepaid)
            \/ req.amount > m.idle
            \/ req.amount > borrowRoom(m.pool.total_borrowed, m.idle)
            \/ posted < minimum,
            IF req.mint = SOL THEN funds[w].sol < posted + SOL_FEE_RESERVE
            ELSE funds[w].usdc < posted)

prepareRepay(tab) ==
  LET req == tab.req
      m == MarketOf(tab)
      open == {l \in openLoans(req.wallet) : l.loan_id = req.loanId}
      debts == {debtNow(l.scaled_debt, m.pool.tier_index[l.tier_at_open]) : l \in open}
  IN  Reply([kind |-> "repay", flow |-> tab.flow, wallet |-> req.wallet,
             loanId |-> req.loanId],
            open = {},
            \E debt \in debts : funds[req.wallet].usdc < debt + REPAY_MARGIN)

prepareDeposit(tab) ==
  LET req == tab.req
      m == MarketOf(tab)
      p == readPosition(m, req.wallet)
      minted == sharesForDeposit(req.amount, p.assets, p.supply)
  IN  Reply([kind |-> "deposit", flow |-> tab.flow, wallet |-> req.wallet,
             amount |-> req.amount],
            req.amount <= 0 \/ minted = 0,
            funds[req.wallet].usdc < req.amount)

\* "whole" marks a quote whose reads all saw the same chain.  A number below
\* zero is no u64 (accounts.ts:107): the request fails.
prepareWithdraw(tab) ==
  LET req == tab.req
      m == MarketOf(tab)
      p == readPosition(m, req.wallet)
      burned == IF req.amount = ALL THEN p.shares
                ELSE sharesForWithdraw(req.amount, p.assets, p.supply)
      payout == assetsForShares(burned, p.assets, p.supply)
  IN  Reply([kind |-> "withdraw", flow |-> tab.flow, wallet |-> req.wallet,
             shares |-> burned, quote |-> payout, whole |-> tab.fresh,
             bad_debt |-> pool.bad_debt, emptied |-> emptied],
            \/ req.amount # ALL /\ req.amount <= 0
            \/ p.shares = 0 \/ burned <= 0 \/ burned > p.shares \/ payout > m.idle,
            FALSE)

Replies(tab) ==
  CASE tab.req.kind = "borrow" ->
         {prepareBorrow(tab, u) : u \in LatestUpdates(collateral[tab.req.mint].feed_id)}
    [] tab.req.kind = "repay" -> {prepareRepay(tab)}
    [] tab.req.kind = "deposit" -> {prepareDeposit(tab)}
    [] tab.req.kind = "withdraw" -> {prepareWithdraw(tab)}

-----------------------------------------------------------------------------
(* The page: the figures it shows, as the backend last answered, and its    *)
(* forms.  The chain may move on under the figures.                         *)

Set(t, tab) == tabs' = [tabs EXCEPT ![t] = tab]
Around == UNCHANGED <<vars, wallet, priceAccounts, events>>

\* What the borrow page and the pool page take from their answers.
BorrowPage(w) ==
  LET v == getLoansView(Market(pool, now, vault, NoFeeds), w, BorrowerRead(w))
  IN  [page |-> "borrow", wallet |-> w, maxLoan |-> v.offer.maxLoan,
       collaterals |-> v.offer.collaterals, loans |-> {card.loan : card \in v.loans}]
PoolPage(w) ==
  LET m == Market(pool, now, vault, NoFeeds)
      v == getLenderView(m, readPosition(m, w))
  IN  [page |-> "pool", wallet |-> w, withdrawable |-> v.withdrawable,
       everyShareCanLeave |-> v.withdrawable = v.value]

Load(t, w) ==
  /\ tabs[t].stage \in {"idle", "refused"}
  /\ requests < MaxRequests
  /\ \E page \in {BorrowPage(w), PoolPage(w)} :
       Set(t, [stage |-> "shown", shows |-> page, fresh |-> TRUE])
  /\ UNCHANGED <<network, requests>> /\ Around

\* The request, and readMarket's first call: the pool, the clock, the collaterals.
\* "offered" marks what a page that is still current offers.
Ask(t, offered, req) ==
  /\ requests' = requests + 1
  /\ Set(t, [stage |-> "pool", req |-> req, flow |-> requests', fresh |-> TRUE,
             offered |-> offered /\ tabs[t].fresh, stored |-> pool, clock |-> now])
  /\ UNCHANGED network /\ Around

Shown(t, page) == tabs[t].stage = "shown" /\ tabs[t].shows.page = page

\* The borrow form: an amount up to the offer, which is filled in, and the
\* collateral, which the backend chooses unless it is typed.
borrow(t) ==
  /\ Shown(t, "borrow")
  /\ LET o == tabs[t].shows
     IN  \E m \in o.collaterals, amount \in Typed.borrow \cup {o.maxLoan} :
           /\ amount > 0 /\ amount <= o.maxLoan
           /\ \E posted \in Typed.collateral[m] \cup {Null} :
                Ask(t, posted = Null, [kind |-> "borrow", wallet |-> o.wallet,
                                       amount |-> amount, mint |-> m, posted |-> posted])

\* A loan card's button.
repay(t) ==
  /\ Shown(t, "borrow")
  /\ \E id \in tabs[t].shows.loans :
       Ask(t, TRUE, [kind |-> "repay", wallet |-> tabs[t].shows.wallet, loanId |-> id])

\* The amount forms of the pool page: "Max" of a withdrawal asks for every share
\* when the page says that every share can leave.
submit(t) ==
  /\ Shown(t, "pool")
  /\ LET view == tabs[t].shows
         max == IF view.everyShareCanLeave THEN ALL ELSE view.withdrawable
         request(kind, amount) == [kind |-> kind, wallet |-> view.wallet, amount |-> amount]
     IN  \/ \E amount \in Typed.deposit : Ask(t, FALSE, request("deposit", amount))
         \/ view.withdrawable > 0 /\ Ask(t, TRUE, request("withdraw", max))
         \/ \E amount \in Typed.withdraw : Ask(t, FALSE, request("withdraw", amount))

-----------------------------------------------------------------------------
(* The answer, the signature, sending in order.                             *)

\* Its second: the vault and the sponsored feeds.
ReadVault(t) ==
  /\ tabs[t].stage = "pool"
  /\ Set(t, [req |-> tabs[t].req, flow |-> tabs[t].flow, fresh |-> tabs[t].fresh,
             offered |-> tabs[t].offered, stored |-> tabs[t].stored, clock |-> tabs[t].clock,
             stage |-> "vault", idle |-> vault])
  /\ UNCHANGED <<network, requests>> /\ Around

\* What the page is told: the transactions to sign, or the error and its reason.
Answered(tab, r) ==
  IF r.refused = "no"
  THEN [stage |-> "ready", tx |-> r.tx, fresh |-> tab.fresh]
  ELSE [stage |-> "refused", tx |-> r.tx, fresh |-> tab.fresh,
        why |-> r.refused, offered |-> tab.offered]

\* The wallet's own accounts, the price, and the answer.
Answer(t) ==
  /\ tabs[t].stage = "vault"
  /\ \E r \in Replies(tabs[t]) :
       Set(t, Answered(tabs[t], r))
  /\ UNCHANGED <<network, requests>> /\ Around

\* A read or the price service fails, or the wallet does not sign.
Break(t) ==
  /\ tabs[t].stage \in Reading \cup {"ready"}
  /\ Set(t, Idle)
  /\ UNCHANGED <<network, requests>> /\ Around

\* A borrow posts its own price update first and closes it again last.
Transactions(tx) == IF tx.kind = "borrow" THEN <<"post", "act", "close">> ELSE <<"act">>

\* Signed all at once, sent one at a time.
Send(t) ==
  /\ tabs[t].stage \in {"ready", "next"}
  /\ LET step == IF tabs[t].stage = "next" THEN tabs[t].step
                 ELSE Transactions(tabs[t].tx)[1]
     IN  /\ Set(t, [stage |-> "sent", tx |-> tabs[t].tx, step |-> step])
         /\ network' = network \cup {[tx |-> tabs[t].tx, step |-> step]}
  /\ UNCHANGED requests /\ Around

\* Waiting for the confirmation fails: the page shows an error and is done with
\* a transaction that may still land.
GiveUp(t) ==
  /\ tabs[t].stage = "sent"
  /\ Set(t, Idle)
  /\ UNCHANGED <<network, requests>> /\ Around

-----------------------------------------------------------------------------
(* The network *)

Awaits(t, n) == tabs[t].stage = "sent" /\ tabs[t].tx = n.tx /\ tabs[t].step = n.step

\* The page goes on to the transaction after this one.
Confirmed(tab) ==
  LET steps == Transactions(tab.tx)
      next == {i \in 2..Len(steps) : steps[i - 1] = tab.step}
  IN  IF next = {} THEN Idle
      ELSE [tab EXCEPT !.stage = "next", !.step = steps[CHOOSE i \in next : TRUE]]

Land(n) ==
  /\ LET account == [flow |-> n.tx.flow, update |-> n.tx.update]
     IN  \/ /\ n.step = "post"
            /\ priceAccounts' = priceAccounts \cup {account}
            /\ UNCHANGED <<vars, wallet>>
         \/ /\ n.step = "act"
            /\ n.tx.kind = "borrow" => account \in priceAccounts
            /\ Act(n.tx)
            /\ UNCHANGED priceAccounts
         \/ /\ n.step = "close"
            /\ priceAccounts' = priceAccounts \ {account}
            /\ UNCHANGED <<vars, wallet>>
  /\ network' = network \ {n}
  /\ tabs' = [t \in Tabs |-> IF Awaits(t, n) THEN Confirmed(tabs[t]) ELSE Aged(tabs[t])]
  /\ UNCHANGED <<requests, events>>

\* It fails on chain, or its blockhash expires before it lands.
Lose(n) ==
  /\ network' = network \ {n}
  /\ tabs' = [t \in Tabs |-> IF Awaits(t, n) THEN Idle ELSE tabs[t]]
  /\ UNCHANGED requests /\ Around

-----------------------------------------------------------------------------
(* What happens meanwhile: other users of the pool, liquidators, an import  *)
(* or a record that moves the wallet's tier, the wallet's own wrapped SOL.  *)

\* A liquidator returns the rest of the collateral to an account of the
\* borrower of its choice.
Liquidated(l) ==
  LET w == l.borrower
      back(update) == LiquidationSplit(Debt(pool', l), l.collateral_amount,
                                       LowPrice(update),
                                       collateral[l.collateral_mint].bonus).back
  IN  \E update \in PriceUpdates :
        /\ Liquidate(l, update)
        /\ IF w \notin Wallets THEN UNCHANGED wallet
           ELSE /\ IF l.collateral_mint = SOL
                   THEN /\ funds' = [funds EXCEPT ![w].wsol = @ + back(update)]
                        /\ accounts' = [accounts EXCEPT ![w] = @ \cup {"wsol"}]
                   ELSE /\ UNCHANGED accounts
                        /\ \/ funds' = [funds EXCEPT ![w].usdc = @ + back(update)]
                           \/ /\ "side" \in accounts[w]
                              /\ funds' = [funds EXCEPT ![w].side = @ + back(update)]
                /\ UNCHANGED tier

OthersStep ==
  \/ /\ \/ AccrueInterest
        \/ \E lender \in Lenders \ Wallets :
             \/ \E amount \in DepositAmounts : Deposit(lender, amount)
             \/ \E burned \in ShareAmounts : Withdraw(lender, burned)
        \/ \E b \in Borrowers \ Wallets, t \in Standings, amount \in LoanAmounts, m \in Mints,
              posted \in CollateralAmounts, update \in PriceUpdates :
             Borrow(b, t, amount, m, posted, update)
        \/ \E l \in {l \in loans : l.borrower \notin Wallets} : Repay(l)
     /\ UNCHANGED wallet
  \/ \E l \in loans : Liquidated(l)

WalletStep(w) ==
  /\ UNCHANGED vars
  /\ \/ /\ "score" \notin accounts[w]
        /\ accounts' = [accounts EXCEPT ![w] = @ \cup {"score"}]
        /\ UNCHANGED <<tier, funds>>
     \/ /\ "score" \in accounts[w]
        /\ \E s \in Standings \ {tier[w]} : tier' = [tier EXCEPT ![w] = s]
        /\ UNCHANGED <<accounts, funds>>
     \/ /\ "wsol" \notin accounts[w]
        /\ \E x \in {x \in Wrapped : x <= funds[w].sol} :
             funds' = [funds EXCEPT ![w].sol = @ - x, ![w].wsol = @ + x]
        /\ accounts' = [accounts EXCEPT ![w] = @ \cup {"wsol"}]
        /\ UNCHANGED tier

Meanwhile ==
  /\ \/ events < MaxEvents /\ events' = events + 1 /\ OthersStep
     \/ events < MaxEvents /\ events' = events + 1 /\ \E w \in Wallets : WalletStep(w)
     \/ Tick /\ UNCHANGED <<wallet, events>>
  /\ tabs' = AllAged
  /\ UNCHANGED <<network, requests, priceAccounts>>

ServiceStep ==
  \E t \in Tabs :
    \/ \E w \in Wallets : Load(t, w)
    \/ borrow(t) \/ repay(t) \/ submit(t)
    \/ ReadVault(t) \/ Answer(t) \/ Break(t) \/ Send(t) \/ GiveUp(t)

NetworkStep == \E n \in network : Land(n) \/ Lose(n)

ServiceNext ==
  /\ ServiceStep \/ NetworkStep \/ Meanwhile
  /\ emptied' = IF lp_supply > 0 /\ lp_supply' = 0 THEN emptied + 1 ELSE emptied

-----------------------------------------------------------------------------
(* Properties *)

\* An answer that is still current is the program's own: what was prepared
\* would land now, and what was refused for the pool's sake would fail (the
\* checks of prepareBorrow, prepareRepay, prepareDeposit and prepareWithdraw
\* against the instructions' own, over two implementations of the arithmetic).
\* Only the age of Hermes' latest update is left to the program.  And the pool
\* never refuses what a page still current offers: the amount filled in, the
\* loan on a card, the withdrawal of "Max" unless it is less than one share.
AnswerIsProgram ==
  \A t \in Tabs :
    /\ /\ tabs[t].stage = "ready" /\ tabs[t].fresh
       /\ tabs[t].tx.kind = "borrow" =>
            UsablePrice(tabs[t].tx.update, collateral[tabs[t].tx.mint])
       => ENABLED Act(tabs[t].tx)
    /\ tabs[t].stage = "refused" /\ tabs[t].fresh /\ tabs[t].why = "pool"
         => /\ ~ENABLED Act(tabs[t].tx)
            /\ tabs[t].offered => tabs[t].tx.kind = "withdraw" /\ tabs[t].tx.shares = 0

\* However late a prepared withdrawal lands and whatever happened in between,
\* it pays at least what was quoted, unless the quote's reads straddled a change,
\* a loss was written off since, or the pool was emptied since: the deposit after
\* that is one share to one USDC again (lender.ts prepareWithdraw, math.rs
\* shares_for_deposit).
QuoteHolds ==
  [][ \A n \in network \ network' :
        /\ n.tx.kind = "withdraw" /\ n.tx.whole /\ lp' # lp
        /\ pool'.bad_debt = n.tx.bad_debt /\ emptied = n.tx.emptied
        => vault - vault' >= n.tx.quote ]_allVars

\* A borrow asked for again while the first may still land never opens a second
\* loan under the same answer: of the transactions prepared for one Loan account
\* at most one lands, and then as that account (service.ts:318).
OneLoanPerAddress ==
  [][ \A n \in network \ network' :
        n.tx.kind = "borrow" /\ loans' # loans =>
          \E l \in loans' \ loans :
            /\ l.borrower = n.tx.wallet /\ l.loan_id = n.tx.loanId
            /\ LoanAt(n.tx.wallet, n.tx.loanId) = {} ]_allVars
=============================================================================
