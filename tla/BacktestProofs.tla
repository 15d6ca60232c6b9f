--------------------------- MODULE BacktestProofs ---------------------------
(***************************************************************************)
(* For every set of candles, sizes and fees: the portfolio of a backtest   *)
(* never goes into debt and its books balance, what the strategy remembers *)
(* belongs to the position the portfolio holds, and a position is sold at  *)
(* its stop, its target or its holding limit.                              *)
(***************************************************************************)
EXTENDS Backtest, TLAPS

-----------------------------------------------------------------------------
(* Arithmetic of prices and fees.                                          *)

\* Integer division by the slippage unit stays below the whole.
LEMMA SlippagePart ==
    ASSUME NEW n \in Nat, NEW m \in Nat
    PROVE  /\ n \div 10000 \in Nat
           /\ n < m * 10000 => n \div 10000 < m
  OBVIOUS

\* calculate_slippage leaves a positive price to buyers and sellers.
LEMMA SlippedPrices ==
    ASSUME NEW price \in Nat \ {0}, NEW slip \in SlippageRange
    PROVE  BuyPrice(price, slip) \in Nat \ {0} /\ SellPrice(price, slip) \in Nat \ {0}
<1>1. price * slip \in Nat /\ price * slip < price * 10000
  BY DEF SlippageRange
<1> DEFINE part == (price * slip) \div 10000
<1>2. part \in Nat /\ part < price
  <2> DEFINE n == price * slip
  <2>1. n \in Nat /\ n < price * 10000
    BY <1>1
  <2> HIDE DEF n
  <2>2. n \div 10000 \in Nat /\ n \div 10000 < price
    BY <2>1, SlippagePart
  <2> QED
    BY <2>2 DEF n
<1> HIDE DEF part
<1>3. price + part \in Nat \ {0} /\ price - part \in Nat \ {0}
  BY <1>2
<1> QED
  BY <1>3 DEF BuyPrice, SellPrice, part

\* A fee is a natural number and no more than the value traded.
LEMMA CommissionBounded ==
    ASSUME NEW value \in Nat \ {0}
    PROVE  Commission(value) \in Nat /\ Commission(value) <= value
<1>1. TakerFee \in 0 .. 1000 /\ MinimumFee \in {0, 1}
  BY BacktestAssumption
<1>2. value * TakerFee \in Nat /\ value * TakerFee <= value * 1000
  BY <1>1
<1>3. (value * TakerFee) \div 1000 \in Nat /\ (value * TakerFee) \div 1000 <= value
  BY <1>2
<1> QED
  BY <1>1, <1>3 DEF Commission

\* The levels attached to a base order are prices.
LEMMA LevelTypes ==
    ASSUME NEW close \in Nat
    PROVE  StopLoss(close) \in Nat /\ TakeProfit(close) \in Nat
<1>1. 100 - StopLossPct \in Nat /\ 100 + TakeProfitPct \in Nat
  BY ConfigAssumption
<1>2. close * (100 - StopLossPct) \in Nat /\ close * (100 + TakeProfitPct) \in Nat
  BY <1>1
<1>3. \A n \in Nat : n \div 100 \in Nat
  OBVIOUS
<1> QED
  BY <1>2, <1>3 DEF StopLoss, TakeProfit

-----------------------------------------------------------------------------
(* The books.                                                              *)

\* A signal waits only between two candles.
WaitsBetweenCandles == phase \in {"levels", "evaluate"} => pending = NoSignal

\* A position is only held once a candle was seen.
HeldOnCandle == Open => candle \in Candles

BooksInv ==
    TypeOK /\ WaitsBetweenCandles /\ HeldOnCandle /\ CashNeverNegative /\ LedgerBalances

LEMMA BooksInit == Init => BooksInv
<1> SUFFICES ASSUME Init PROVE BooksInv
  OBVIOUS
<1>1. InitialBalance \in Nat /\ MaxCandles \in Nat
  BY BacktestAssumption
<1>2. ~Open
  BY DEF Init, Open, Flat
<1>3. 0 \in 0 .. MaxCandles /\ 0 \in 0 .. MaxDcaLevel
  BY <1>1 DEF MaxDcaLevel
<1>4. TypeOK
  BY <1>1, <1>3 DEF Init, TypeOK, Absent
<1> QED
  BY <1>1, <1>2, <1>4
  DEF Init, BooksInv, WaitsBetweenCandles, HeldOnCandle, CashNeverNegative, LedgerBalances, Invested

\* What the fields of a held position, a candle and an entry signal are.
LEMMA Fields ==
    ASSUME TypeOK
    PROVE  /\ ~Open => position = Flat
           /\ Open => /\ position \in Positions
                      /\ position.quantity \in Nat \ {0}
                      /\ position.cost \in Nat /\ position.fees \in Nat
                      /\ position.stop \in Nat /\ position.take \in Nat
                      /\ position.mark \in Nat /\ position.high \in Nat
                      /\ position.holding \in Nat
           /\ pending.action = "open_long" =>
                 /\ pending \in Entries
                 /\ pending.level \in 0 .. MaxDcaLevel
                 /\ pending.quantity \in Nat \ {0}
                 /\ pending.stop \in Nat /\ pending.take \in Nat
<1>1. Quantities \subseteq Nat \ {0}
  BY BacktestAssumption
<1>2. Flat.quantity = 0 /\ \A p \in Positions : p.quantity > 0
  BY DEF Flat, Positions
<1>3. (~Open => position = Flat) /\ (Open => position \in Positions)
  BY <1>2 DEF TypeOK, Open
<1>4. pending.action = "open_long" => pending \in Entries
  BY DEF TypeOK, NoSignal, Close
<1> QED
  BY <1>1, <1>3, <1>4 DEF Positions, Entries

LEMMA CandleFields ==
    ASSUME NEW c \in Candles
    PROVE  /\ c.open \in Nat \ {0} /\ c.high \in Nat \ {0}
           /\ c.low \in Nat \ {0} /\ c.close \in Nat \ {0}
BY CandleAssumption

\* close_position moves the value of the position to cash, and the difference
\* to what it had cost, fees included, to the realized PnL.
LEMMA BooksClose ==
    ASSUME BooksInv, Open, NEW price \in Nat \ {0}, ClosePosition(price)
    PROVE  /\ balance' \in Int /\ realized' \in Int
           /\ position' = Flat /\ ~Open' /\ buys' = 0 /\ age' = 0
           /\ CashNeverNegative' /\ LedgerBalances'
<1> DEFINE value == price * position.quantity
<1>1. position.quantity \in Nat \ {0} /\ position.cost \in Nat /\ position.fees \in Nat
  BY Fields DEF BooksInv
<1>2. value \in Nat \ {0}
  BY <1>1
<1>3. /\ balance' = balance + value - Commission(value)
      /\ realized' = realized + value - position.cost - position.fees - Commission(value)
      /\ position' = Flat /\ buys' = 0 /\ age' = 0
  BY DEF ClosePosition
<1> HIDE DEF value
<1>4. Commission(value) \in Nat /\ Commission(value) <= value
  BY <1>2, CommissionBounded
<1>5. Invested = position.cost + position.fees
  BY DEF Invested
<1>6. /\ balance \in Int /\ realized \in Int /\ balance >= 0 /\ InitialBalance \in Nat
      /\ balance + (position.cost + position.fees) = InitialBalance + realized
  BY <1>5, BacktestAssumption DEF BooksInv, TypeOK, CashNeverNegative, LedgerBalances
<1>7. ~Open' /\ Invested' = 0
  BY <1>3 DEF Open, Flat, Invested
<1> QED
  BY <1>1, <1>2, <1>3, <1>4, <1>6, <1>7 DEF CashNeverNegative, LedgerBalances

\* open_position takes from cash exactly what it adds to the position.
LEMMA BooksBuy ==
    ASSUME BooksInv, NEW c \in Candles, NEW slip \in Slippages, FillBuy(c, slip)
    PROVE  /\ balance' \in Int /\ position' \in Positions /\ Open'
           /\ CashNeverNegative' /\ LedgerBalances'
           /\ position'.high >= position.high \/ ~Open
<1>1. pending.action = "open_long" /\ realized' = realized
  BY DEF FillBuy
<1>2. PICK quantity \in 1 .. pending.quantity :
         /\ Affordable(BuyPrice(c.open, slip), quantity)
         /\ position' = Bought(BuyPrice(c.open, slip), pending, quantity)
         /\ balance' = balance - BuyPrice(c.open, slip) * quantity
                                - Commission(BuyPrice(c.open, slip) * quantity)
  BY DEF FillBuy
<1>3. quantity \in Nat \ {0} /\ pending.stop \in Nat /\ pending.take \in Nat
  BY <1>1, Fields DEF BooksInv
<1> DEFINE price == BuyPrice(c.open, slip)
           value == price * quantity
           fee   == Commission(value)
<1>4. price \in Nat \ {0}
  <2>1. slip \in SlippageRange
    BY BacktestAssumption
  <2>2. c.open \in Nat \ {0}
    BY CandleFields
  <2> QED
    BY <2>1, <2>2, SlippedPrices
<1>5. /\ value + fee <= balance
      /\ position' = Bought(price, pending, quantity)
      /\ balance' = balance - value - fee
  BY <1>2 DEF Affordable
<1> HIDE DEF price
<1>6. value \in Nat \ {0}
  BY <1>3, <1>4
<1>7. fee \in Nat
  BY <1>6, CommissionBounded
<1>8. /\ balance \in Int /\ realized \in Int /\ InitialBalance \in Nat
      /\ balance + Invested = InitialBalance + realized
  BY BacktestAssumption DEF BooksInv, TypeOK, LedgerBalances
<1>9. CASE Open
  <2>1. position' =
            [quantity |-> position.quantity + quantity, cost |-> position.cost + value,
             fees |-> position.fees + fee,
             stop |-> Level(pending.stop, position.stop), take |-> Level(pending.take, position.take),
             mark |-> price, high |-> Higher(position.high, price),
             holding |-> position.holding + 1]
    BY <1>5, <1>9 DEF Bought
  <2> HIDE DEF value, fee
  <2>2. /\ position.quantity \in Nat \ {0} /\ position.cost \in Nat /\ position.fees \in Nat
        /\ position.stop \in Nat /\ position.take \in Nat
        /\ position.high \in Nat /\ position.holding \in Nat
    BY <1>9, Fields DEF BooksInv
  <2>3. /\ Level(pending.stop, position.stop) \in Nat /\ Level(pending.take, position.take) \in Nat
        /\ Higher(position.high, price) \in Nat /\ Higher(position.high, price) >= position.high
    BY <1>3, <1>4, <2>2 DEF Level, Higher
  <2>4. position.quantity + quantity \in Nat \ {0}
    BY <1>3, <2>2
  <2>5. /\ position' \in Positions /\ position'.quantity > 0
        /\ position'.high >= position.high
        /\ position'.cost = position.cost + value /\ position'.fees = position.fees + fee
    BY <1>4, <1>6, <1>7, <2>1, <2>2, <2>3, <2>4 DEF Positions
  <2>6. Invested = position.cost + position.fees /\ Open' /\ Invested' = (position.cost + value) + (position.fees + fee)
    BY <1>9, <2>5 DEF Invested, Open
  <2> QED
    BY <1>1, <1>5, <1>6, <1>7, <1>8, <2>2, <2>5, <2>6 DEF CashNeverNegative, LedgerBalances
<1>10. CASE ~Open
  <2>1. position' = [quantity |-> quantity, cost |-> value, fees |-> fee,
                     stop |-> pending.stop, take |-> pending.take,
                     mark |-> price, high |-> price, holding |-> 0]
    BY <1>5, <1>10 DEF Bought
  <2> HIDE DEF value, fee
  <2>2. position' \in Positions /\ position'.quantity > 0
    BY <1>3, <1>4, <1>6, <1>7, <2>1 DEF Positions
  <2>3. Invested = 0 /\ Open' /\ Invested' = value + fee
    BY <1>10, <2>1, <2>2 DEF Invested, Open
  <2> QED
    BY <1>1, <1>5, <1>6, <1>7, <1>8, <1>10, <2>2, <2>3 DEF CashNeverNegative, LedgerBalances
<1> QED
  BY <1>9, <1>10

\* The next candle of the loop.
LEMMA Arrives ==
    ASSUME TypeOK, NEW c \in Candles, Arrive(c)
    PROVE  /\ candle' \in Candles /\ candle' # NoCandle
           /\ index' \in 0 .. MaxCandles
           /\ phase' = "levels" /\ pending' = NoSignal
<1>1. c # NoCandle
  BY CandleFields DEF NoCandle, Absent
<1>2. MaxCandles \in Nat
  BY BacktestAssumption
<1> QED
  BY <1>1, <1>2 DEF Arrive, TypeOK

\* The candle under way.
LEMMA CurrentCandle ==
    ASSUME TypeOK
    PROVE  /\ phase \in {"levels", "evaluate"} => candle \in Candles
           /\ phase \in {"levels", "evaluate"} =>
                 /\ candle.open \in Nat \ {0} /\ candle.high \in Nat \ {0}
                 /\ candle.low \in Nat \ {0} /\ candle.close \in Nat \ {0}
           /\ candle \in Candles \/ candle.close = 0
<1>1. phase \in {"levels", "evaluate"} => candle \in Candles
  BY DEF TypeOK
<1>2. candle \in Candles \/ candle.close = 0
  BY DEF TypeOK, NoCandle, Absent
<1> QED
  BY <1>1, <1>2, CandleFields

\* A held candle changes neither quantity nor cost of the position.
LEMMA HoldKeepsBooks ==
    ASSUME TypeOK, phase = "evaluate", Hold
    PROVE  /\ position' \in Positions /\ Open' /\ Invested' = Invested
           /\ position'.high >= position.high /\ position'.high >= candle.high
           /\ age' \in Nat /\ dcaLevel' = dcaLevel
<1>1. Open /\ position' = Marked /\ age' = age + 1 /\ dcaLevel' = dcaLevel
  BY DEF Hold
<1>2. position \in Positions /\ position.high \in Nat
  BY <1>1, Fields
<1>3. candle.close \in Nat /\ candle.high \in Nat
  BY CurrentCandle
<1>4. /\ Higher(position.high, candle.high) \in Nat
      /\ Higher(position.high, candle.high) >= position.high
      /\ Higher(position.high, candle.high) >= candle.high
  BY <1>2, <1>3 DEF Higher
<1> DEFINE high == Higher(position.high, candle.high)
<1>5. position' = [position EXCEPT !.mark = candle.close, !.high = high,
                                   !.holding = position.holding + 1]
  BY <1>1, <1>2 DEF Marked
<1>6. position.holding + 1 \in Nat /\ high \in Nat
  BY <1>2, <1>4 DEF Positions
<1> HIDE DEF high
<1>7. position' \in Positions
  BY <1>2, <1>3, <1>5, <1>6 DEF Positions
<1>8. /\ position'.quantity = position.quantity
      /\ position'.cost = position.cost /\ position'.fees = position.fees
      /\ position'.high = Higher(position.high, candle.high)
  BY <1>2, <1>5 DEF Positions, high
<1>9. Open' /\ Invested' = Invested
  BY <1>1, <1>8 DEF Open, Invested
<1> QED
  BY <1>1, <1>4, <1>7, <1>8, <1>9 DEF TypeOK

\* A decision on a held position keeps the books.
LEMMA HoldDecides ==
    ASSUME BooksInv, Hold, NEW signal \in {NoSignal, Close} \cup Entries, Decide(signal),
           trailing' \in Nat, streak' \in Nat
    PROVE  BooksInv'
<1>1. phase = "evaluate" /\ phase' = "next" /\ pending' = signal
  BY DEF Decide
<1>2. /\ UNCHANGED <<confirm, maxHolding, policy, index, candle, balance, realized, buys>>
  BY DEF Decide, config
<1>3. position' \in Positions /\ Invested' = Invested /\ age' \in Nat /\ dcaLevel' = dcaLevel
  BY <1>1, HoldKeepsBooks DEF BooksInv
<1>5. candle' \in Candles
  BY <1>1, <1>2, CurrentCandle DEF BooksInv
<1>4. TypeOK'
  BY <1>1, <1>2, <1>3 DEF BooksInv, TypeOK
<1> QED
  BY <1>1, <1>2, <1>3, <1>4, <1>5
  DEF BooksInv, WaitsBetweenCandles, HeldOnCandle, CashNeverNegative, LedgerBalances

LEMMA SignalTypes ==
    /\ \A level \in 0 .. MaxDcaLevel, quantity \in Quantities, stop \in Nat, take \in Nat :
          Entry(level, quantity, stop, take) \in Entries
    /\ Absent \in Nat
BY DEF Entry, Entries, Absent

\* Where the trailing high moves to.
LEMMA TrailingTypes ==
    ASSUME TypeOK, phase = "evaluate", Trailed
    PROVE  trailing' \in Nat /\ (trailing' = trailing \/ trailing' = candle.high)
BY CurrentCandle DEF Trailed, High, TrailingHigh, TypeOK

\* Every step of the loop keeps the books balanced and the cash non-negative.
LEMMA BooksStep == BooksInv /\ [Next]_vars => BooksInv'
<1> SUFFICES ASSUME BooksInv, [Next]_vars PROVE BooksInv'
  OBVIOUS
<1>t. TypeOK
  BY DEF BooksInv
<1>s. \A slip \in Slippages : slip \in SlippageRange
  BY BacktestAssumption
<1>1. ASSUME NEW c \in Candles, NothingPending(c) \/ RefuseBuy(c) PROVE BooksInv'
  <2>1. Arrive(c) /\ UNCHANGED <<confirm, maxHolding, policy, portfolio, strategy, history>>
    BY <1>1 DEF NothingPending, RefuseBuy, config
  <2>2. TypeOK'
    BY <1>t, <2>1, Arrives DEF TypeOK, portfolio, strategy, history
  <2>3. Invested' = Invested /\ UNCHANGED <<balance, realized>>
    BY <2>1 DEF Invested, Open, portfolio
  <2> QED
    BY <1>t, <2>1, <2>2, <2>3, Arrives
    DEF BooksInv, WaitsBetweenCandles, HeldOnCandle, CashNeverNegative, LedgerBalances
<1>2. ASSUME NEW c \in Candles, NEW slip \in Slippages, FillBuy(c, slip) PROVE BooksInv'
  <2>1. /\ Arrive(c) /\ OnFill(pending) /\ pending.action = "open_long"
        /\ buys' = buys + 1 /\ UNCHANGED <<confirm, maxHolding, policy, realized, age>>
    BY <1>2 DEF FillBuy, config
  <2>2. /\ balance' \in Int /\ position' \in Positions
        /\ CashNeverNegative' /\ LedgerBalances'
    BY <1>2, BooksBuy
  <2>3. dcaLevel' \in 0 .. MaxDcaLevel /\ trailing' \in Nat /\ streak' = streak
    BY <1>t, <2>1, Fields DEF OnFill, TypeOK, Absent
  <2>4. TypeOK'
    BY <1>t, <2>1, <2>2, <2>3, Arrives DEF TypeOK
  <2> QED
    BY <1>t, <2>1, <2>2, <2>4, Arrives DEF BooksInv, WaitsBetweenCandles, HeldOnCandle
<1>3. ASSUME NEW c \in Candles, NEW slip \in Slippages, FillClose(c, slip) PROVE BooksInv'
  <2>1. /\ Arrive(c) /\ Open /\ ClosePosition(SellPrice(c.open, slip))
        /\ UNCHANGED <<confirm, maxHolding, policy, dcaLevel, trailing, streak>>
    BY <1>3 DEF FillClose, config, strategy
  <2>2. SellPrice(c.open, slip) \in Nat \ {0}
    BY <1>s, CandleFields, SlippedPrices
  <2>3. /\ balance' \in Int /\ realized' \in Int /\ position' = Flat
        /\ buys' = 0 /\ age' = 0 /\ ~Open' /\ CashNeverNegative' /\ LedgerBalances'
    BY <2>1, <2>2, BooksClose
  <2>4. TypeOK'
    BY <1>t, <2>1, <2>3, Arrives DEF TypeOK
  <2> QED
    BY <1>t, <2>1, <2>3, <2>4, Arrives DEF BooksInv, WaitsBetweenCandles, HeldOnCandle
<1>4. ASSUME NEW slip \in Slippages, LevelExit(slip) PROVE BooksInv'
  <2>1. /\ phase = "levels" /\ phase' = "next" /\ Open /\ LevelPrice # Absent
        /\ ClosePosition(SellPrice(LevelPrice, slip))
        /\ UNCHANGED <<confirm, maxHolding, policy, index, candle, pending, dcaLevel, trailing, streak>>
    BY <1>4 DEF LevelExit, config, strategy
  <2>2. LevelPrice \in Nat \ {0}
    BY <1>t, <2>1, Fields, CurrentCandle DEF LevelPrice, Absent
  <2>3. SellPrice(LevelPrice, slip) \in Nat \ {0}
    BY <1>s, <2>2, SlippedPrices
  <2>4. /\ balance' \in Int /\ realized' \in Int /\ position' = Flat
        /\ buys' = 0 /\ age' = 0 /\ ~Open' /\ CashNeverNegative' /\ LedgerBalances'
    BY <2>1, <2>3, BooksClose
  <2>5. TypeOK'
    BY <1>t, <2>1, <2>4 DEF TypeOK
  <2> QED
    BY <2>1, <2>4, <2>5 DEF BooksInv, WaitsBetweenCandles, HeldOnCandle
<1>5. ASSUME NEW slip \in Slippages, Liquidate(slip) PROVE BooksInv'
  <2>1. /\ phase' = "done" /\ Open
        /\ ClosePosition(SellPrice(candle.close, slip))
        /\ UNCHANGED <<confirm, maxHolding, policy, index, candle, pending, dcaLevel, trailing, streak>>
    BY <1>5 DEF Liquidate, Liquidates, config, strategy
  <2>2. candle.close \in Nat \ {0}
    BY <2>1, CandleFields DEF BooksInv, HeldOnCandle
  <2>3. SellPrice(candle.close, slip) \in Nat \ {0}
    BY <1>s, <2>2, SlippedPrices
  <2>4. /\ balance' \in Int /\ realized' \in Int /\ position' = Flat
        /\ buys' = 0 /\ age' = 0 /\ ~Open' /\ CashNeverNegative' /\ LedgerBalances'
    BY <2>1, <2>3, BooksClose
  <2>5. TypeOK'
    BY <1>t, <2>1, <2>4 DEF TypeOK
  <2> QED
    BY <2>1, <2>4, <2>5 DEF BooksInv, WaitsBetweenCandles, HeldOnCandle
<1>6. CASE NoLevelHit \/ Finish \/ UNCHANGED vars
  <2>1. /\ UNCHANGED <<confirm, maxHolding, policy, index, candle, pending, portfolio, strategy, history>>
        /\ (phase = "levels" /\ phase' = "evaluate") \/ phase' = "done" \/ phase' = phase
    BY <1>6 DEF NoLevelHit, Finish, vars, config
  <2>2. TypeOK'
    BY <1>t, <2>1 DEF TypeOK, portfolio, strategy, history
  <2>3. Invested' = Invested /\ Open' = Open /\ UNCHANGED <<balance, realized, candle, pending>>
    BY <2>1 DEF Invested, Open, portfolio
  <2> QED
    BY <2>1, <2>2, <2>3
    DEF BooksInv, WaitsBetweenCandles, HeldOnCandle, CashNeverNegative, LedgerBalances
<1>7. CASE StayOut \/ \E quantity \in Quantities : SignalEntry(quantity)
  <2>1. /\ ~Open /\ phase = "evaluate" /\ phase' = "next"
        /\ \/ pending' = NoSignal
           \/ \E quantity \in Quantities :
                 pending' = Entry(0, quantity, StopLoss(candle.close), TakeProfit(candle.close))
        /\ UNCHANGED <<confirm, maxHolding, policy, index, candle, balance, realized, buys,
                       position, dcaLevel, trailing, streak, age>>
    BY <1>7 DEF SignalEntry, StayOut, Decide, config, strategy
  <2>2. candle.close \in Nat
    BY <1>t, <2>1, CurrentCandle
  <2>3. 0 \in 0 .. MaxDcaLevel
    BY DEF MaxDcaLevel
  <2>4. pending' \in {NoSignal} \cup Entries
    BY <2>1, <2>2, <2>3, LevelTypes, SignalTypes
  <2>5. TypeOK'
    BY <1>t, <2>1, <2>4 DEF TypeOK
  <2>6. Invested' = Invested /\ ~Open'
    BY <2>1 DEF Invested, Open
  <2> QED
    BY <2>1, <2>5, <2>6
    DEF BooksInv, WaitsBetweenCandles, HeldOnCandle, CashNeverNegative, LedgerBalances
<1>8. CASE ExpiryExit \/ \E regime \in Regimes : TrendDownExit(regime) \/ TrailingExit(regime)
  <2>1. Hold /\ Decide(Close) /\ streak' = 0 /\ (trailing' = trailing \/ trailing' = Absent)
    BY <1>8 DEF ExpiryExit, TrendDownExit, TrailingExit, Priced
  <2>2. trailing' \in Nat /\ streak' \in Nat
    BY <1>t, <2>1 DEF TypeOK, Absent
  <2> QED
    BY <2>1, <2>2, HoldDecides
<1>9. ASSUME NEW regime \in Regimes, NEW signal \in {NoSignal, Close} \cup Entries,
             Hold, Decide(signal), Trailed, streak' \in {0, NextStreak(regime, streak)}
      PROVE  BooksInv'
  <2>1. phase = "evaluate"
    BY <1>9 DEF Decide
  <2>2. trailing' \in Nat
    BY <1>t, <1>9, <2>1, TrailingTypes
  <2>3. streak' \in Nat
    BY <1>t, <1>9 DEF NextStreak, TypeOK
  <2> QED
    BY <1>9, <2>2, <2>3, HoldDecides
<1>10. ASSUME NEW regime \in Regimes, ProfitExit(regime) \/ KeepPosition(regime) PROVE BooksInv'
  BY <1>9, <1>10 DEF ProfitExit, KeepPosition, Priced
<1>11. ASSUME NEW regime \in Regimes, NEW quantity \in Quantities, SafetyOrder(regime, quantity)
       PROVE  BooksInv'
  <2>1. dcaLevel + 1 \in 0 .. MaxDcaLevel
    BY <1>t, <1>11 DEF SafetyOrder, SafetyOrderDue, TypeOK, MaxDcaLevel
  <2>2. Entry(dcaLevel + 1, quantity, Absent, Absent) \in Entries
    BY <2>1, SignalTypes
  <2> QED
    BY <1>9, <1>11, <2>2 DEF SafetyOrder, Priced
<1> QED
  BY <1>1, <1>2, <1>3, <1>4, <1>5, <1>6, <1>7, <1>8, <1>10, <1>11 DEF Next

\* The state of BacktestEngine, Portfolio and strategy is well typed: among
\* other things no safety order beyond the third is ever signalled, and a
\* position that is held has a positive quantity.
THEOREM TypeCorrect == Spec => []TypeOK
<1>1. BooksInv => TypeOK
  BY DEF BooksInv
<1> QED
  BY <1>1, BooksInit, BooksStep, PTL DEF Spec

\* No sequence of fills and exits overdraws the cash of Portfolio.
THEOREM CashIsNeverNegative == Spec => []CashNeverNegative
<1>1. BooksInv => CashNeverNegative
  BY DEF BooksInv
<1> QED
  BY <1>1, BooksInit, BooksStep, PTL DEF Spec

\* Portfolio's cash, the cost of its open position and the PnL of its closed
\* trades always add up to the initial balance.
THEOREM LedgerAlwaysBalances == Spec => []LedgerBalances
<1>1. BooksInv => LedgerBalances
  BY DEF BooksInv
<1> QED
  BY <1>1, BooksInit, BooksStep, PTL DEF Spec

-----------------------------------------------------------------------------
(* What the strategy remembers.                                            *)

\* A flat portfolio has no fills to count; the next safety order is numbered
\* after the last one filled.
Numbered ==
    /\ ~Open => buys = 0
    /\ phase = "next" /\ pending.action = "open_long" /\ pending.level > 0 =>
          pending.level = dcaLevel + 1

MemoryInv ==
    BooksInv /\ PendingMatchesPosition /\ Numbered /\ DcaLevelCountsBuys /\ TrailingWithinHigh

LEMMA MemoryInit == Init => MemoryInv
<1> SUFFICES ASSUME Init PROVE MemoryInv
  OBVIOUS
<1>1. ~Open
  BY DEF Init, Open, Flat
<1>2. pending.action = "none"
  BY DEF Init, NoSignal
<1> QED
  BY <1>1, <1>2, BooksInit
  DEF Init, MemoryInv, PendingMatchesPosition, Numbered, DcaLevelCountsBuys, TrailingWithinHigh

\* Nothing waits: only the fill counter and the trailing high are left to check.
LEMMA MemoryIdle ==
    ASSUME BooksInv', pending' \in {NoSignal, Close}, pending' = Close => Open' \/ phase' = "done",
           Open' => buys' = dcaLevel' + 1 /\ trailing' <= position'.high,
           ~Open' => buys' = 0
    PROVE  MemoryInv'
<1>1. pending'.action \in {"none", "close"} /\ (pending'.action = "close" => pending' = Close)
  BY DEF NoSignal, Close
<1> QED
  BY <1>1 DEF MemoryInv, PendingMatchesPosition, Numbered, DcaLevelCountsBuys, TrailingWithinHigh

\* A held candle cannot push the trailing high beyond the high-water mark.
LEMMA TrailingHolds ==
    ASSUME MemoryInv, phase = "evaluate", Hold,
           trailing' \in {Absent, trailing, candle.high}
    PROVE  Open' /\ trailing' <= position'.high
<1>1. /\ Open' /\ position' \in Positions
      /\ position'.high >= position.high /\ position'.high >= candle.high
  BY HoldKeepsBooks DEF MemoryInv, BooksInv
<1>2. Open /\ position.high \in Nat /\ trailing \in Nat /\ trailing <= position.high
  BY Fields DEF Hold, MemoryInv, BooksInv, TypeOK, TrailingWithinHigh
<1>3. candle.high \in Nat
  BY CurrentCandle DEF MemoryInv, BooksInv
<1>4. position'.high \in Nat
  BY <1>1 DEF Positions
<1> QED
  BY <1>1, <1>2, <1>3, <1>4 DEF Absent

LEMMA MemoryStep == MemoryInv /\ [Next]_vars => MemoryInv'
<1> SUFFICES ASSUME MemoryInv, [Next]_vars PROVE MemoryInv'
  OBVIOUS
<1>b. BooksInv'
  BY BooksStep DEF MemoryInv
<1>t. TypeOK /\ BooksInv
  BY DEF MemoryInv, BooksInv
<1>m. /\ Open => buys = dcaLevel + 1 /\ trailing <= position.high
      /\ ~Open => buys = 0
  BY DEF MemoryInv, Numbered, DcaLevelCountsBuys, TrailingWithinHigh
<1>n. NoSignal # Close
  BY DEF NoSignal, Close
<1>1. ASSUME NEW c \in Candles, NothingPending(c) \/ RefuseBuy(c) PROVE MemoryInv'
  <2>1. Arrive(c) /\ UNCHANGED <<position, buys, dcaLevel, trailing>>
    BY <1>1 DEF NothingPending, RefuseBuy, portfolio, strategy, history
  <2>2. pending' = NoSignal /\ Open' = Open
    BY <1>t, <2>1, Arrives DEF Open
  <2> QED
    BY <1>b, <1>m, <1>n, <2>1, <2>2, MemoryIdle
<1>2. ASSUME NEW c \in Candles, NEW slip \in Slippages, FillBuy(c, slip) PROVE MemoryInv'
  <2>1. /\ Arrive(c) /\ phase = "next" /\ pending.action = "open_long" /\ buys' = buys + 1
        /\ dcaLevel' = pending.level
        /\ trailing' = IF pending.level = 0 THEN Absent ELSE trailing
    BY <1>2 DEF FillBuy, OnFill, Arrive
  <2>2. pending' = NoSignal
    BY <1>t, <2>1, Arrives
  <2>3. Open' /\ position' \in Positions /\ (Open => position'.high >= position.high)
    BY <1>2, <1>t, BooksBuy
  <2>4. position'.high \in Nat /\ pending.level \in Nat /\ trailing \in Nat
    BY <1>t, <2>1, <2>3, Fields DEF Positions, TypeOK, MaxDcaLevel
  <2>5. (pending.level > 0 <=> Open) /\ (pending.level > 0 => pending.level = dcaLevel + 1)
    BY <2>1 DEF MemoryInv, PendingMatchesPosition, Numbered
  <2>6. CASE Open
    <3>1. position.high \in Nat
      BY <1>t, <2>6, Fields
    <3>2. buys' = dcaLevel' + 1 /\ trailing' <= position'.high
      BY <1>m, <2>1, <2>3, <2>4, <2>5, <2>6, <3>1
    <3> QED
      BY <1>b, <1>n, <2>2, <2>3, <3>2, MemoryIdle
  <2>7. CASE ~Open
    <3>1. buys' = dcaLevel' + 1 /\ trailing' <= position'.high
      BY <1>m, <2>1, <2>4, <2>5, <2>7 DEF Absent
    <3> QED
      BY <1>b, <1>n, <2>2, <2>3, <3>1, MemoryIdle
  <2> QED
    BY <2>6, <2>7
<1>3. ASSUME NEW slip \in Slippages,
             LevelExit(slip) \/ \E c \in Candles : FillClose(c, slip)
      PROVE  MemoryInv'
  <2>1. position' = Flat /\ buys' = 0
    BY <1>3 DEF LevelExit, FillClose, ClosePosition
  <2>2. pending' = NoSignal
    BY <1>3, <1>t DEF LevelExit, FillClose, Arrive, BooksInv, WaitsBetweenCandles
  <2>3. ~Open'
    BY <2>1 DEF Open, Flat
  <2> QED
    BY <1>b, <1>n, <2>1, <2>2, <2>3, MemoryIdle
<1>4. ASSUME NEW slip \in Slippages, Liquidate(slip) PROVE MemoryInv'
  <2>1. position' = Flat /\ buys' = 0 /\ phase' = "done"
    BY <1>4 DEF Liquidate, ClosePosition
  <2>2. ~Open'
    BY <2>1 DEF Open, Flat
  <2> QED
    BY <1>b, <2>1, <2>2
    DEF MemoryInv, PendingMatchesPosition, Numbered, DcaLevelCountsBuys, TrailingWithinHigh
<1>5. CASE NoLevelHit \/ Finish \/ UNCHANGED vars
  <2>1. /\ UNCHANGED <<pending, position, dcaLevel, trailing, buys>>
        /\ phase' \in {"evaluate", "done", phase}
        /\ phase' = "evaluate" => phase \in {"levels", "evaluate"}
    BY <1>5 DEF NoLevelHit, Finish, vars, portfolio, strategy, history
  <2>2. Open' = Open
    BY <2>1 DEF Open
  <2>3. phase' = "evaluate" => pending = NoSignal
    BY <1>t, <2>1 DEF BooksInv, WaitsBetweenCandles
  <2>4. NoSignal.action = "none"
    BY DEF NoSignal
  <2> QED
    BY <1>b, <2>1, <2>2, <2>3, <2>4
    DEF MemoryInv, PendingMatchesPosition, Numbered, DcaLevelCountsBuys, TrailingWithinHigh
<1>6. CASE StayOut \/ \E quantity \in Quantities : SignalEntry(quantity)
  <2>1. ~Open /\ UNCHANGED <<position, buys>>
    BY <1>6 DEF StayOut, SignalEntry, Decide
  <2>2. ~Open' /\ buys' = 0
    BY <1>m, <2>1 DEF Open
  <2>3. ASSUME StayOut PROVE pending'.action = "none"
    BY <2>3 DEF StayOut, Decide, NoSignal
  <2>4. ASSUME NEW quantity \in Quantities, SignalEntry(quantity)
        PROVE  pending'.action = "open_long" /\ pending'.level = 0
    BY <2>4 DEF SignalEntry, Decide, Entry
  <2>5. CASE StayOut
    BY <1>b, <2>2, <2>3, <2>5
    DEF MemoryInv, PendingMatchesPosition, Numbered, DcaLevelCountsBuys, TrailingWithinHigh
  <2>6. ASSUME NEW quantity \in Quantities, SignalEntry(quantity) PROVE MemoryInv'
    BY <1>b, <2>2, <2>4, <2>6
    DEF MemoryInv, PendingMatchesPosition, Numbered, DcaLevelCountsBuys, TrailingWithinHigh
  <2> QED
    BY <1>6, <2>5, <2>6
<1>7. ASSUME Hold, NEW signal, Decide(signal), Trailed \/ trailing' \in {Absent, trailing}
      PROVE  /\ Open' /\ trailing' <= position'.high
             /\ dcaLevel' = dcaLevel /\ buys' = dcaLevel' + 1 /\ pending' = signal
  <2>1. phase = "evaluate" /\ pending' = signal /\ buys' = buys
    BY <1>7 DEF Decide
  <2>2. trailing' \in {Absent, trailing, candle.high}
    BY <1>7, <1>t, <2>1, TrailingTypes
  <2>3. Open /\ dcaLevel' = dcaLevel
    BY <1>7 DEF Hold
  <2> QED
    BY <1>7, <1>m, <2>1, <2>2, <2>3, TrailingHolds
<1>8. ASSUME NEW regime \in Regimes,
             \/ ExpiryExit \/ TrendDownExit(regime) \/ TrailingExit(regime)
             \/ ProfitExit(regime) \/ KeepPosition(regime)
      PROVE  MemoryInv'
  <2>1. PICK signal \in {NoSignal, Close} :
           Hold /\ Decide(signal) /\ (Trailed \/ trailing' \in {Absent, trailing})
    BY <1>8 DEF ExpiryExit, TrendDownExit, TrailingExit, ProfitExit, KeepPosition, Priced
  <2> QED
    BY <1>b, <1>7, <2>1, MemoryIdle
<1>9. ASSUME NEW regime \in Regimes, NEW quantity \in Quantities, SafetyOrder(regime, quantity)
      PROVE  MemoryInv'
  <2>1. /\ Open' /\ trailing' <= position'.high /\ dcaLevel' = dcaLevel /\ buys' = dcaLevel' + 1
        /\ pending' = Entry(dcaLevel + 1, quantity, Absent, Absent)
    BY <1>7, <1>9 DEF SafetyOrder, Priced
  <2>2. pending'.action = "open_long" /\ pending'.level = dcaLevel + 1
    BY <2>1 DEF Entry
  <2>3. dcaLevel + 1 > 0
    BY <1>t DEF TypeOK, MaxDcaLevel
  <2> QED
    BY <1>b, <2>1, <2>2, <2>3
    DEF MemoryInv, PendingMatchesPosition, Numbered, DcaLevelCountsBuys, TrailingWithinHigh
<1>10. ExpiryExit => \E regime \in Regimes : ExpiryExit
  BY DEF Regimes
<1> QED
  BY <1>1, <1>2, <1>3, <1>4, <1>5, <1>6, <1>8, <1>9, <1>10 DEF Next

\* A queued signal of the strategy meets the position it was computed for.
THEOREM PendingAlwaysMatches == Spec => []PendingMatchesPosition
<1>1. MemoryInv => PendingMatchesPosition
  BY DEF MemoryInv
<1> QED
  BY <1>1, MemoryInit, MemoryStep, PTL DEF Spec

\* dca_levels counts the safety orders of the position that is held.
THEOREM DcaLevelAlwaysCounts == Spec => []DcaLevelCountsBuys
<1>1. MemoryInv => DcaLevelCountsBuys
  BY DEF MemoryInv
<1> QED
  BY <1>1, MemoryInit, MemoryStep, PTL DEF Spec

\* The trailing high belongs to the position that is held.
THEOREM TrailingAlwaysWithinHigh == Spec => []TrailingWithinHigh
<1>1. MemoryInv => TrailingWithinHigh
  BY DEF MemoryInv
<1> QED
  BY <1>1, MemoryInit, MemoryStep, PTL DEF Spec

\* Portfolio stays solvent and balanced over any run of the engine.
THEOREM BooksAlwaysHold == Spec => []BooksHold
<1>1. CashNeverNegative /\ LedgerBalances => BooksHold
  BY DEF BooksHold
<1> QED
  BY <1>1, CashIsNeverNegative, LedgerAlwaysBalances, PTL

\* TrendDCA's level and trailing high describe the position that is held.
THEOREM MemoryAlwaysFollows == Spec => []MemoryFollowsPosition
<1>1. DcaLevelCountsBuys /\ TrailingWithinHigh => MemoryFollowsPosition
  BY DEF MemoryFollowsPosition
<1> QED
  BY <1>1, DcaLevelAlwaysCounts, TrailingAlwaysWithinHigh, PTL

-----------------------------------------------------------------------------
(* The exits that must not be missed.                                      *)

\* The position's own counter runs at least as fast as the candles pass, and while
\* no exit is queued the limit is still ahead: the candle that reaches it queues
\* one, and at the next open that exit is the only signal there is.
WithinLimit ==
    /\ ~Open => age = 0
    /\ Open => age <= position.holding
    /\ Open /\ pending.action # "close" => age < maxHolding
    /\ age <= maxHolding

ExitInv == MemoryInv /\ WithinLimit

LEMMA LimitType ==
    ASSUME TypeOK
    PROVE  maxHolding \in Nat \ {0} /\ age \in Nat
  BY BacktestAssumption DEF TypeOK

LEMMA ExitInit == Init => ExitInv
<1> SUFFICES ASSUME Init PROVE ExitInv
  OBVIOUS
<1>1. MemoryInv
  BY MemoryInit
<1>2. ~Open /\ age = 0
  BY DEF Init, Open, Flat
<1>3. maxHolding \in Nat \ {0}
  BY <1>1, LimitType DEF MemoryInv, BooksInv
<1> QED
  BY <1>1, <1>2, <1>3 DEF ExitInv, WithinLimit

\* A position that was left starts to count from nothing.
LEMMA LimitFlat ==
    ASSUME TypeOK', position' = Flat, age' = 0
    PROVE  WithinLimit'
<1>1. ~Open'
  BY DEF Open, Flat
<1>2. maxHolding' \in Nat \ {0}
  BY BacktestAssumption DEF TypeOK
<1> QED
  BY <1>1, <1>2 DEF WithinLimit

LEMMA ExitStep == ExitInv /\ [Next]_vars => ExitInv'
<1> SUFFICES ASSUME ExitInv, [Next]_vars PROVE ExitInv'
  OBVIOUS
<1>m. MemoryInv /\ MemoryInv' /\ BooksInv /\ TypeOK /\ TypeOK'
  BY MemoryStep DEF ExitInv, MemoryInv, BooksInv
<1>l. maxHolding \in Nat \ {0} /\ age \in Nat
  BY <1>m, LimitType
<1>w. WithinLimit
  BY DEF ExitInv
<1>1. ASSUME NEW c \in Candles, NothingPending(c) \/ RefuseBuy(c) PROVE WithinLimit'
  <2>1. /\ UNCHANGED <<position, age, maxHolding>> /\ pending.action # "close"
    BY <1>1 DEF NothingPending, RefuseBuy, config, portfolio, history, NoSignal
  <2> QED
    BY <1>w, <2>1 DEF WithinLimit, Open
<1>2. ASSUME NEW c \in Candles, NEW slip \in Slippages, FillBuy(c, slip) PROVE WithinLimit'
  <2>1. /\ pending.action = "open_long" /\ UNCHANGED <<age, maxHolding>>
    BY <1>2 DEF FillBuy, config
  <2>2. PICK quantity \in 1 .. pending.quantity :
           position' = Bought(BuyPrice(c.open, slip), pending, quantity)
    BY <1>2 DEF FillBuy
  <2>3. Open'
    BY <1>2, <1>m, BooksBuy
  <2>4. CASE Open
    <3>1. position'.holding = position.holding + 1 /\ position.holding \in Nat
      BY <1>m, <2>2, <2>4, Fields DEF Bought
    <3>2. age < maxHolding /\ age <= position.holding
      BY <1>w, <2>1, <2>4 DEF WithinLimit
    <3> QED
      BY <1>l, <2>1, <2>3, <3>1, <3>2 DEF WithinLimit
  <2>5. CASE ~Open
    <3>1. position'.holding = 0
      BY <2>2, <2>5 DEF Bought
    <3>2. age = 0
      BY <1>w, <2>5 DEF WithinLimit
    <3> QED
      BY <1>l, <2>1, <2>3, <3>1, <3>2 DEF WithinLimit
  <2> QED
    BY <2>4, <2>5
<1>3. ASSUME NEW slip \in Slippages,
             LevelExit(slip) \/ Liquidate(slip) \/ \E c \in Candles : FillClose(c, slip)
      PROVE  WithinLimit'
  <2>1. position' = Flat /\ age' = 0
    BY <1>3 DEF LevelExit, Liquidate, FillClose, ClosePosition
  <2> QED
    BY <1>m, <2>1, LimitFlat
<1>4. ASSUME NoLevelHit \/ Finish \/ UNCHANGED vars PROVE WithinLimit'
  <2>1. UNCHANGED <<position, age, maxHolding, pending>>
    BY <1>4 DEF NoLevelHit, Finish, vars, config, portfolio, history
  <2> QED
    BY <1>w, <2>1 DEF WithinLimit, Open
<1>5. ASSUME StayOut \/ \E quantity \in Quantities : SignalEntry(quantity) PROVE WithinLimit'
  <2>1. ~Open /\ UNCHANGED <<position, age, maxHolding>>
    BY <1>5 DEF StayOut, SignalEntry, Decide, config
  <2> QED
    BY <1>w, <2>1 DEF WithinLimit, Open
<1>6. ASSUME Hold, NEW signal, Decide(signal)
      PROVE  /\ Open' /\ age' = age + 1 /\ maxHolding' = maxHolding /\ pending' = signal
             /\ Marked.holding \in Nat /\ age' <= Marked.holding /\ position' = Marked
             /\ age' <= maxHolding
  <2>1. phase = "evaluate" /\ pending' = signal /\ maxHolding' = maxHolding
    BY <1>6 DEF Decide, config
  <2>2. Open /\ position' = Marked /\ age' = age + 1
    BY <1>6 DEF Hold
  <2>3. Open'
    BY <1>6, <1>m, <2>1, HoldKeepsBooks
  <2>4. Marked.holding = position.holding + 1 /\ position.holding \in Nat
    BY <1>m, <2>2, Fields DEF Marked, Positions
  <2>5. pending.action # "close"
    BY <1>m, <2>1 DEF BooksInv, WaitsBetweenCandles, NoSignal
  <2>6. age < maxHolding /\ age <= position.holding
    BY <1>w, <2>2, <2>5 DEF WithinLimit
  <2> QED
    BY <1>l, <2>1, <2>2, <2>3, <2>4, <2>6
<1>7. ASSUME ExpiryExit PROVE WithinLimit'
  <2>1. Hold /\ Decide(Close)
    BY <1>7 DEF ExpiryExit
  <2>2. Close.action = "close"
    BY DEF Close
  <2> QED
    BY <1>6, <2>1, <2>2 DEF WithinLimit
<1>8. ASSUME NEW regime \in Regimes,
             \/ TrendDownExit(regime) \/ TrailingExit(regime)
             \/ ProfitExit(regime) \/ KeepPosition(regime)
             \/ \E quantity \in Quantities : SafetyOrder(regime, quantity)
      PROVE  WithinLimit'
  <2>1. Hold /\ ~HoldingExpired(Marked, maxHolding)
    BY <1>8 DEF TrendDownExit, TrailingExit, ProfitExit, KeepPosition, SafetyOrder, Priced
  <2>2. PICK signal : Decide(signal)
    BY <1>8 DEF TrendDownExit, TrailingExit, ProfitExit, KeepPosition, SafetyOrder
  <2>3. /\ Open' /\ age' = age + 1 /\ maxHolding' = maxHolding
        /\ Marked.holding \in Nat /\ age' <= Marked.holding /\ position' = Marked
    BY <1>6, <2>1, <2>2
  <2>4. Marked.holding < maxHolding
    BY <1>l, <2>1, <2>3 DEF HoldingExpired
  <2>5. age' < maxHolding' /\ age' <= position'.holding
    BY <1>l, <2>3, <2>4
  <2> QED
    BY <1>l, <2>3, <2>5 DEF WithinLimit
<1>9. WithinLimit'
  BY <1>1, <1>2, <1>3, <1>4, <1>5, <1>7, <1>8 DEF Next
<1> QED
  BY <1>m, <1>9 DEF ExitInv

\* A sale at no more than a bound brings no more than the bound for each unit.
LEMMA SaleBounded ==
    ASSUME NEW price \in Nat \ {0}, NEW slip \in SlippageRange, NEW bound \in Nat, price <= bound,
           NEW q \in Nat \ {0}
    PROVE  SellPrice(price, slip) * q - Commission(SellPrice(price, slip) * q) <= q * bound
<1> DEFINE sold == SellPrice(price, slip)
<1>1. sold \in Nat \ {0} /\ sold <= price
  <2>1. (price * slip) \div 10000 \in Nat
    <3>1. price * slip \in Nat
      BY DEF SlippageRange
    <3> DEFINE n == price * slip
    <3> HIDE DEF n
    <3>2. n \in Nat => n \div 10000 \in Nat
      BY SlippagePart
    <3> QED
      BY <3>1, <3>2 DEF n
  <2> DEFINE part == (price * slip) \div 10000
  <2> HIDE DEF part
  <2>2. part \in Nat /\ sold = price - part
    BY <2>1 DEF part, SellPrice
  <2>3. sold \in Nat \ {0}
    BY SlippedPrices
  <2> QED
    BY <2>2, <2>3
<1> HIDE DEF sold
<1>2. sold * q \in Nat \ {0} /\ sold * q <= bound * q /\ bound * q = q * bound
  <2>1. sold <= bound
    BY <1>1
  <2> QED
    BY <1>1, <2>1
<1> DEFINE value == sold * q
<1>3. Commission(value) \in Nat
  BY <1>2, CommissionBounded
<1> HIDE DEF value
<1>4. value \in Nat /\ value <= q * bound /\ q * bound \in Nat
  BY <1>2 DEF value
<1>5. value - Commission(value) <= q * bound
  BY <1>3, <1>4
<1> QED
  BY <1>5 DEF value, sold

LEMMA StopStep ==
    ASSUME TypeOK, [Next]_vars, phase' # phase, phase = "levels", Open,
           position.stop # Absent, candle.low <= position.stop
    PROVE  /\ position' = Flat
           /\ balance' - balance <= position.quantity * position.stop
           /\ balance' - balance <= position.quantity * candle.open
<1>1. /\ candle.open \in Nat \ {0} /\ position.stop \in Nat \ {0}
      /\ position.quantity \in Nat \ {0} /\ balance \in Int
  BY CurrentCandle, Fields DEF TypeOK, Absent
<1>2. /\ LevelPrice = IF candle.open <= position.stop THEN candle.open ELSE position.stop
  BY DEF LevelPrice
<1>3. /\ LevelPrice \in Nat \ {0} /\ LevelPrice <= candle.open /\ LevelPrice <= position.stop
  BY <1>1, <1>2
<1>4. PICK slip \in Slippages : LevelExit(slip)
  <2>1. ~NoLevelHit
    BY <1>3 DEF NoLevelHit, Absent
  <2> QED
    BY <2>1 DEF Next, NothingPending, RefuseBuy, FillBuy, FillClose, Arrive, Liquidate, Finish,
                SignalEntry, StayOut, ExpiryExit, TrendDownExit, TrailingExit, ProfitExit,
                KeepPosition, SafetyOrder, Decide, vars
<1>5. slip \in SlippageRange
  BY BacktestAssumption
<1> DEFINE value == SellPrice(LevelPrice, slip) * position.quantity
<1>6. position' = Flat /\ balance' = balance + value - Commission(value)
  BY <1>4 DEF LevelExit, ClosePosition
<1>7. value \in Nat \ {0} /\ Commission(value) \in Nat
  <2>1. SellPrice(LevelPrice, slip) \in Nat \ {0}
    BY <1>3, <1>5, SlippedPrices
  <2>2. value \in Nat \ {0}
    BY <1>1, <2>1
  <2> HIDE DEF value
  <2> QED
    BY <2>2, CommissionBounded
<1>8. /\ value - Commission(value) <= position.quantity * position.stop
      /\ value - Commission(value) <= position.quantity * candle.open
  BY <1>1, <1>3, <1>5, SaleBounded
<1> HIDE DEF value
<1>9. balance' - balance = value - Commission(value)
  BY <1>1, <1>6, <1>7
<1> QED
  BY <1>6, <1>8, <1>9

\* No position is held for more candles than max_holding_periods allows.
THEOREM HeldWithinLimit == Spec => []HeldAtMost
<1>1. ExitInv => HeldAtMost
  BY DEF ExitInv, WithinLimit, HeldAtMost
<1> QED
  BY <1>1, ExitInit, ExitStep, PTL DEF Spec

\* The candle that touches the stop of a position is its last, and the sale brings
\* no more than the stop, nor than the open of a candle that gaps below it.
THEOREM StopsAlwaysBind == Spec => StopsBind
<1> DEFINE Bound ==
        phase = "levels" /\ Open /\ position.stop # Absent /\ candle.low <= position.stop =>
          /\ position' = Flat
          /\ balance' - balance <= position.quantity * position.stop
          /\ balance' - balance <= position.quantity * candle.open
<1>1. BooksInv /\ [Next]_vars => Bound \/ UNCHANGED vars
  <2> SUFFICES ASSUME BooksInv, Next PROVE Bound
    BY DEF vars
  <2>1. phase = "levels" => phase' # phase
    BY DEF Next, NothingPending, RefuseBuy, FillBuy, FillClose, Arrive, LevelExit, NoLevelHit,
           Liquidate, Finish, SignalEntry, StayOut, ExpiryExit, TrendDownExit, TrailingExit,
           ProfitExit, KeepPosition, SafetyOrder, Decide
  <2> QED
    BY <2>1, StopStep DEF BooksInv
<1> QED
  BY <1>1, BooksInit, BooksStep, PTL DEF Spec, StopsBind

\* No position outlives its stop or its holding limit, for any candles and any
\* configuration.
THEOREM ExitsAlwaysBind == Spec => ExitsBind
  BY HeldWithinLimit, StopsAlwaysBind, PTL DEF ExitsBind
=============================================================================
