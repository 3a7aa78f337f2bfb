-------------------------- MODULE PaymentOrderProofs --------------------------
(***************************************************************************)
(* Theorems about PaymentOrder: its types, that it implements               *)
(* CreditAccount, and what follows for balances, the cash book and what is  *)
(* believed of the provider.                                                *)
(***************************************************************************)
EXTENDS PaymentOrder, HoldsProofs

USE PaymentAssumption

(* A change of the order table and of balances that both keep their types.  *)
Typed == OrderTypes /\ MoneyTypes

(* TypeOK without the refund numbers, which need an argument of their own.  *)
Shape == Typed /\ ProviderTypes /\ HandlerTypes /\ restarts \in Nat

(* What the reports of the provider do keeps the types.                     *)
LEMMA TypeLearn ==
    ASSUME Typed, NEW o \in Orders, NEW report, Learn(o, report)
    PROVE  Typed'
<1> USE DEF Typed, OrderTypes, MoneyTypes, Statuses, Payable, Credited
<1>1. Buyer[o] \in Users /\ Amount[o] \in Nat
  OBVIOUS
<1>2. CASE Confirm(o)
  BY <1>1, <1>2 DEF Confirm, Pay
<1>3. CASE Rejected(o)
  BY <1>3 DEF Rejected, Move, money
<1>4. CASE UNCHANGED <<orders, money>>
  BY <1>4 DEF orders, money
<1> QED
  BY <1>2, <1>3, <1>4 DEF Learn

(* An order that expires keeps the types.                                   *)
LEMMA TypeExpires ==
    ASSUME Typed, NEW o \in Orders, Expires(o)
    PROVE  Typed'
BY DEF Typed, OrderTypes, MoneyTypes, Statuses, Payable, Expires, Move, money

(* What the reports of a refund do keeps the types.                         *)
LEMMA TypeLearnRefund ==
    ASSUME Typed, NEW o \in Orders, NEW n \in Nat, NEW report, LearnRefund(o, n, report)
    PROVE  Typed'
<1> USE DEF Typed, OrderTypes, MoneyTypes, Statuses, Payable, Credited
<1>1. Buyer[o] \in Users /\ Amount[o] \in Nat
  OBVIOUS
<1>2. CASE Complete(o, n)
  BY <1>2 DEF Complete, Move, money
<1>3. CASE Restore(o)
  BY <1>1, <1>3 DEF Restore, Move, Pay
<1>4. CASE KeepNumber(o, n)
  BY <1>4 DEF KeepNumber, money
<1>5. CASE UNCHANGED <<orders, money>>
  BY <1>5 DEF orders, money
<1> QED
  BY <1>2, <1>3, <1>4, <1>5 DEF LearnRefund

(* Starting a handler on an order keeps its types.                          *)
LEMMA TypeStart ==
    ASSUME Shape, NEW h \in Handlers, NEW o \in Orders, NEW what \in Jobs,
           NEW n \in Nat, Start(h, o, what, n)
    PROVE  HandlerTypes' /\ restarts' \in Nat
BY DEF Shape, HandlerTypes, Start

(* Ending a handler keeps its types and leaves the provider alone.          *)
LEMMA TypeEnd ==
    ASSUME Shape, NEW h \in Handlers, End(h)
    PROVE  HandlerTypes' /\ ProviderTypes' /\ restarts' \in Nat
BY DEF Shape, HandlerTypes, ProviderTypes, End, Jobs, external

(* Every beginning keeps the types.                                         *)
LEMMA TypeBegin ==
    ASSUME Shape, NEW h \in Handlers, Begin(h)
    PROVE  Shape'
<1>1. PICK o \in Orders :
        \/ BeginCreate(h, o) \/ BeginQuery(h, o) \/ BeginCancel(h, o)
        \/ BeginRefund(h, o) \/ BeginFinalize(h, o)
  BY DEF Begin
<1>2. Buyer[o] \in Users /\ Amount[o] \in Nat
  OBVIOUS
<1> USE DEF Shape, Typed
<1>3. \A what \in Jobs, n \in Nat : Start(h, o, what, n) => HandlerTypes' /\ restarts' \in Nat
  BY TypeStart
<1>4. {"create", "query", "cancel", "refund", "finalize"} \subseteq Jobs
  BY DEF Jobs
<1> USE DEF OrderTypes, MoneyTypes, ProviderTypes, Statuses, Payable, Credited,
            orders, money, external
<1>5. CASE BeginCreate(h, o)
  BY <1>3, <1>4, <1>5 DEF BeginCreate, Move
<1>6. CASE BeginQuery(h, o)
  BY <1>3, <1>4, <1>6 DEF BeginQuery
<1>7. CASE BeginCancel(h, o)
  <2>1. (IF tradeNo[o] THEN 1 ELSE 0) \in Nat
    OBVIOUS
  <2>2. HandlerTypes' /\ restarts' \in Nat
    BY <1>3, <1>4, <1>7, <2>1 DEF BeginCancel
  <2> QED
    BY <1>7, <2>2 DEF BeginCancel
<1>8. CASE BeginRefund(h, o)
  BY <1>2, <1>3, <1>4, <1>8 DEF BeginRefund, Pay
<1>9. CASE BeginFinalize(h, o)
  <2>1. HandlerTypes' /\ restarts' \in Nat
    BY <1>3, <1>4, <1>9 DEF BeginFinalize
  <2> QED
    BY <1>9, <2>1 DEF BeginFinalize
<1> QED
  BY <1>1, <1>5, <1>6, <1>7, <1>8, <1>9

(* Every answer of the provider keeps the types.                            *)
LEMMA TypeProvider ==
    ASSUME Shape, NumbersKnown, NEW h \in Handlers, ProviderStep(h)
    PROVE  Shape'
<1> USE DEF Shape, Typed, OrderTypes, MoneyTypes, ProviderTypes, HandlerTypes, Jobs, Reports,
            orders, money, external, Hear
<1>1. CASE ProviderCreates(h)
  <2>1. provider' \in [Orders -> {"none", "open", "closed", "paid", "mispaid"}]
    <3>1. order[h] \in Orders
      BY <1>1 DEF ProviderCreates
    <3>2. CASE provider' = provider
      BY <3>2
    <3>3. CASE provider' = [provider EXCEPT ![order[h]] =
                              IF @ = "none" THEN "open" ELSE @]
      <4>1. (IF provider[order[h]] = "none" THEN "open" ELSE provider[order[h]])
              \in {"none", "open", "closed", "paid", "mispaid"}
        BY <3>1
      <4> QED
        BY <3>3, <4>1
    <3> QED
      BY <1>1, <3>2, <3>3 DEF ProviderCreates
  <2>2. PICK answer \in {"ok", "error"} : Hear(h, "create", answer)
    BY <1>1 DEF ProviderCreates
  <2>3. UNCHANGED <<notices, refunds, asked>>
    BY <1>1 DEF ProviderCreates
  <2> QED
    BY <2>1, <2>2, <2>3
<1>2. CASE ProviderAnswers(h)
  <2>1. order[h] \in Orders
    BY <1>2 DEF ProviderAnswers
  <2>2. Answers(order[h], asked[h]) \subseteq Reports
    BY <2>1 DEF Answers
  <2>3. PICK answer \in Reports : Hear(h, "query", answer)
    BY <1>2, <2>2 DEF ProviderAnswers
  <2> QED
    BY <1>2, <2>3 DEF ProviderAnswers
<1>3. CASE ProviderUnreachable(h)
  BY <1>3 DEF ProviderUnreachable
<1>4. CASE ProviderCancels(h)
  BY <1>4 DEF ProviderCancels
<1>5. CASE ProviderIgnoresCancel(h)
  BY <1>5 DEF ProviderIgnoresCancel
<1>6. ASSUME NEW state \in {"pending", "done"}, ProviderRefunds(h, state) PROVE Shape'
  <2> DEFINE o == order[h]
             n == Len(refunds[o]) + 1
  <2>1. /\ o \in Orders /\ n \in Nat /\ state \in {"pending", "done", "failed"}
        /\ refunds[o] \in Seq({"pending", "done", "failed"})
    BY <1>6 DEF ProviderRefunds
  <2>2. Append(refunds[o], state) \in Seq({"pending", "done", "failed"})
    BY <2>1
  <2>3. /\ refunds' = [refunds EXCEPT ![o] = Append(refunds[o], state)]
        /\ asked' = [asked EXCEPT ![h] = n]
        /\ UNCHANGED <<provider, notices>>
        /\ Hear(h, "refund", state) \/ Hear(h, "refund", "error")
    BY <1>6 DEF ProviderRefunds
  <2>4. PICK answer \in Reports : Hear(h, "refund", answer)
    BY <2>3
  <2> HIDE DEF o, n
  <2> QED
    BY <2>1, <2>2, <2>3, <2>4
<1>7. CASE ProviderRepeats(h)
  <2>1. PICK n \in Live(order[h]) :
          /\ Hear(h, "refund", refunds[order[h]][n])
          /\ asked' = [asked EXCEPT ![h] = n]
    BY <1>7 DEF ProviderRepeats
  <2>2. n \in Nat /\ refunds[order[h]][n] \in {"pending", "done"}
    BY DEF Live
  <2> QED
    BY <1>7, <2>1, <2>2 DEF ProviderRepeats
<1>8. CASE ProviderRejects(h)
  BY <1>8 DEF ProviderRejects
<1>9. CASE ProviderReports(h)
  <2>1. order[h] \in Orders /\ asked[h] \in 1..Len(refunds[order[h]])
    BY <1>9 DEF ProviderReports, NumbersKnown
  <2>2. refunds[order[h]][asked[h]] \in Reports
    BY <2>1
  <2> QED
    BY <1>9, <2>2 DEF ProviderReports
<1> QED
  BY <1>1, <1>2, <1>3, <1>4, <1>5, <1>6, <1>7, <1>8, <1>9 DEF ProviderStep

(* Every application of an answer keeps the types.                          *)
LEMMA TypeApply ==
    ASSUME Shape, NEW h \in Handlers, Apply(h)
    PROVE  Shape'
<1> USE DEF Shape
<1>1. Heard(h, job[h]) /\ job[h] # "none" /\ End(h)
  BY DEF Apply, ApplyCreate, ApplyQuery, ApplyCancel, ApplyRefund, ApplyFinalize, Heard
<1>2. order[h] \in Orders /\ asked[h] \in Nat
  BY <1>1 DEF HandlerTypes
<1>3. HandlerTypes' /\ ProviderTypes' /\ restarts' \in Nat
  BY <1>1, TypeEnd
<1>4. CASE ApplyCreate(h)
  <2> USE DEF Typed, OrderTypes, MoneyTypes, Statuses, Payable
  <2> QED
    BY <1>2, <1>3, <1>4 DEF ApplyCreate, Move, money
<1>5. CASE ApplyQuery(h)
  <2>1. Expires(order[h]) \/ Learn(order[h], reply[h])
    BY <1>5 DEF ApplyQuery
  <2> QED
    BY <1>2, <1>3, <2>1, TypeExpires, TypeLearn
<1>6. CASE ApplyCancel(h)
  <2> USE DEF Typed, OrderTypes, MoneyTypes, Statuses, Payable
  <2> QED
    BY <1>2, <1>3, <1>6 DEF ApplyCancel, Move, money
<1>7. CASE ApplyRefund(h)
  BY <1>2, <1>3, <1>7, TypeLearnRefund DEF ApplyRefund
<1>8. CASE ApplyFinalize(h)
  <2>1. CASE LearnRefund(order[h], asked[h], reply[h])
    BY <1>2, <1>3, <2>1, TypeLearnRefund
  <2>2. CASE UNCHANGED <<orders, money>>
    BY <1>3, <2>2 DEF orders, money, Typed, OrderTypes, MoneyTypes
  <2> QED
    BY <1>8, <2>1, <2>2 DEF ApplyFinalize
<1> QED
  BY <1>4, <1>5, <1>6, <1>7, <1>8 DEF Apply

(* Payers, callbacks, clocks, calls and crashes keep the types.             *)
LEMMA TypeWorld ==
    ASSUME Shape, World
    PROVE  Shape'
<1> USE DEF Shape
<1>1. ASSUME NEW o \in Orders, NEW kind \in PayerActs, Attempt(o, kind) PROVE Shape'
  <2>1. kind \in {"paid", "mispaid", "failed"}
    OBVIOUS
  <2>2. ProviderTypes'
    BY <1>1, <2>1 DEF Attempt, ProviderTypes
  <2> QED
    BY <1>1, <2>2 DEF Attempt, Typed, OrderTypes, MoneyTypes, HandlerTypes,
                      orders, money, locals
<1>2. ASSUME NEW o \in Orders, NEW kind \in PayerActs, Webhook(o, kind) PROVE Shape'
  <2>1. Typed'
    BY <1>2, TypeLearn DEF Webhook
  <2> QED
    BY <1>2, <2>1 DEF Webhook, ProviderTypes, HandlerTypes, external, locals
<1>3. ASSUME NEW o \in Orders, Expire(o) PROVE Shape'
  <2>1. Typed'
    BY <1>3, TypeExpires DEF Expire
  <2> QED
    BY <1>3, <2>1 DEF Expire, ProviderTypes, HandlerTypes, external, locals
<1> USE DEF Typed, OrderTypes, MoneyTypes, ProviderTypes, HandlerTypes, orders, money,
            external, locals
<1>4. ASSUME NEW o \in Orders, RequestRefund(o) PROVE Shape'
  BY <1>4 DEF RequestRefund, Move, Statuses, Credited
<1>5. ASSUME NEW o \in Orders, TimePasses(o) PROVE Shape'
  BY <1>5 DEF TimePasses
<1>6. ASSUME NEW o \in Orders, NEW n, NEW state \in {"done", "failed"},
             RefundSettles(o, n, state)
      PROVE  Shape'
  <2>1. [refunds[o] EXCEPT ![n] = state] \in Seq({"pending", "done", "failed"})
    <3>1. refunds[o] \in Seq({"pending", "done", "failed"}) /\ n \in 1..Len(refunds[o])
      BY <1>6 DEF RefundSettles
    <3> QED
      BY <3>1
  <2>2. refunds' \in [Orders -> Seq({"pending", "done", "failed"})]
    BY <1>6, <2>1 DEF RefundSettles
  <2> QED
    BY <1>6, <2>2 DEF RefundSettles
<1>7. ASSUME NEW u \in Users, Spend(u) PROVE Shape'
  BY <1>7 DEF Spend
<1>8. CASE Restart
  BY <1>8 DEF Restart, Jobs
<1>9. CASE \E o \in Orders :
               \/ \E kind \in PayerActs : Attempt(o, kind) \/ Webhook(o, kind)
               \/ Expire(o) \/ RequestRefund(o) \/ TimePasses(o)
               \/ \E n \in 1..MaxRefunds, state \in {"done", "failed"} :
                     RefundSettles(o, n, state)
  <2> HIDE DEF Shape, Typed, OrderTypes, MoneyTypes, ProviderTypes, HandlerTypes, orders,
               money, external, locals
  <2> QED
    BY <1>9, <1>1, <1>2, <1>3, <1>4, <1>5, <1>6
<1> QED
  BY <1>7, <1>8, <1>9 DEF World

(* A refund number is only ever stored or asked about after the provider     *)
(* gave it, and the provider forgets no refund.                             *)
LEMMA NumbersStep ==
    ASSUME Shape, NumbersKnown, [Next]_vars
    PROVE  NumbersKnown'
<1> USE DEF NumbersKnown
<1>1. ASSUME NEW h \in Handlers, Begin(h) PROVE NumbersKnown'
  <2>1. PICK o \in Orders :
          \/ BeginCreate(h, o) \/ BeginQuery(h, o) \/ BeginCancel(h, o)
          \/ BeginRefund(h, o) \/ BeginFinalize(h, o)
    BY <1>1 DEF Begin
  <2>2. refunds' = refunds /\ refundNo' = refundNo
    BY <2>1 DEF BeginCreate, BeginQuery, BeginCancel, BeginRefund, BeginFinalize,
                orders, external
  <2>3. /\ job[h] = "none" /\ reply' = reply /\ order' = [order EXCEPT ![h] = o]
        /\ \/ \E what \in Jobs \ {"finalize"} :
                 job' = [job EXCEPT ![h] = what]
           \/ job' = [job EXCEPT ![h] = "finalize"] /\ asked'[h] = refundNo[o]
                 /\ refundNo[o] # 0
        /\ \A k \in Handlers \ {h} : asked'[k] = asked[k]
    BY <2>1 DEF BeginCreate, BeginQuery, BeginCancel, BeginRefund, BeginFinalize,
                Start, Jobs, Shape, HandlerTypes
  <2> QED
    BY <2>2, <2>3 DEF Shape, Typed, OrderTypes, HandlerTypes, ProviderTypes
<1>2. ASSUME NEW h \in Handlers, ProviderStep(h) PROVE NumbersKnown'
  <2>1. job' = job /\ order' = order /\ refundNo' = refundNo
    BY <1>2 DEF ProviderStep, ProviderCreates, ProviderAnswers, ProviderUnreachable,
          ProviderCancels, ProviderIgnoresCancel, ProviderRefunds, ProviderRepeats,
          ProviderRejects, ProviderReports, Hear, orders
  <2>2. CASE /\ UNCHANGED <<refunds, asked>> /\ \A k \in Handlers \ {h} : reply'[k] = reply[k]
             /\ job[h] = "refund" => reply'[h] = "error"
    BY <2>1, <2>2
  <2>3. ASSUME NEW state \in {"pending", "done"}, ProviderRefunds(h, state)
        PROVE  NumbersKnown'
    <3> DEFINE o == order[h]
               n == Len(refunds[o]) + 1
    <3>1. /\ o \in Orders /\ job[h] = "refund"
          /\ refunds[o] \in Seq({"pending", "done", "failed"})
      BY <2>3 DEF ProviderRefunds, Shape, HandlerTypes, ProviderTypes
    <3>2. /\ refunds' = [refunds EXCEPT ![o] = Append(refunds[o], state)]
          /\ asked' = [asked EXCEPT ![h] = n]
          /\ \A k \in Handlers \ {h} : reply'[k] = reply[k]
      BY <2>3 DEF ProviderRefunds, Hear, Shape, HandlerTypes
    <3>3. Len(Append(refunds[o], state)) = Len(refunds[o]) + 1 /\ Len(refunds[o]) \in Nat
      BY <3>1
    <3>4. \A q \in Orders : /\ Len(refunds[q]) \in Nat /\ Len(refunds'[q]) \in Nat
                            /\ Len(refunds[q]) <= Len(refunds'[q])
      BY <3>1, <3>2, <3>3 DEF Shape, ProviderTypes
    <3>5. asked'[h] = n /\ Len(refunds'[o]) = n /\ n \in 1..n
      BY <3>1, <3>2, <3>3 DEF Shape, HandlerTypes, ProviderTypes
    <3>6. \A k \in Handlers : /\ k # h => asked'[k] = asked[k]
                              /\ asked[k] \in Nat /\ refundNo \in [Orders -> Nat]
                              /\ job[k] # "none" => order[k] \in Orders
      BY <3>2 DEF Shape, Typed, OrderTypes, HandlerTypes
    <3>7. ASSUME NEW q \in Orders PROVE refundNo'[q] <= Len(refunds'[q])
      <4>1. refundNo'[q] = refundNo[q] /\ refundNo[q] \in Nat
        BY <2>1 DEF Shape, Typed, OrderTypes
      <4>2. refundNo[q] <= Len(refunds[q])
        OBVIOUS
      <4> HIDE DEF NumbersKnown
      <4> QED
        BY <3>4, <4>1, <4>2
    <3> HIDE DEF n, o
    <3>8. ASSUME NEW k \in Handlers,
                 job'[k] = "finalize" \/ (job'[k] = "refund" /\ reply'[k] \in {"pending", "done"})
          PROVE  asked'[k] \in 1..Len(refunds'[order'[k]])
      <4>1. CASE k = h
        BY <2>1, <3>5, <4>1 DEF o
      <4>2. CASE k # h
        <5>1. /\ asked[k] \in 1..Len(refunds[order[k]]) /\ order[k] \in Orders
          BY <2>1, <3>2, <3>6, <3>8, <4>2
        <5> QED
          BY <2>1, <3>4, <3>6, <4>2, <5>1
      <4> QED
        BY <4>1, <4>2
    <3> QED
      BY <3>7, <3>8
  <2>4. CASE ProviderRepeats(h)
    <3>1. PICK n \in Live(order[h]) :
            /\ Hear(h, "refund", refunds[order[h]][n])
            /\ asked' = [asked EXCEPT ![h] = n]
      BY <2>4 DEF ProviderRepeats
    <3>2. /\ n \in 1..Len(refunds[order[h]]) /\ refunds' = refunds
          /\ \A k \in Handlers \ {h} : reply'[k] = reply[k]
      BY <2>4, <3>1 DEF ProviderRepeats, Live, external, Hear, Shape, HandlerTypes
    <3> QED
      BY <2>1, <3>1, <3>2 DEF Shape, HandlerTypes
  <2>5. CASE ProviderReports(h)
    <3>1. /\ job[h] = "finalize" /\ UNCHANGED <<refunds, asked>>
          /\ \A k \in Handlers \ {h} : reply'[k] = reply[k]
      BY <2>5 DEF ProviderReports, Hear, external, Shape, HandlerTypes
    <3> QED
      BY <2>1, <3>1
  <2>6. CASE ProviderCreates(h) \/ ProviderAnswers(h) \/ ProviderUnreachable(h)
                \/ ProviderCancels(h) \/ ProviderIgnoresCancel(h) \/ ProviderRejects(h)
    <3>1. /\ UNCHANGED <<refunds, asked>> /\ \A k \in Handlers \ {h} : reply'[k] = reply[k]
          /\ job[h] = "refund" => reply'[h] = "error"
      BY <2>6 DEF ProviderCreates, ProviderAnswers, ProviderUnreachable, ProviderCancels,
            ProviderIgnoresCancel, ProviderRejects, Hear, external, Shape, HandlerTypes
    <3> QED
      BY <2>2, <3>1
  <2> QED
    BY <1>2, <2>3, <2>4, <2>5, <2>6 DEF ProviderStep
<1>3. ASSUME NEW h \in Handlers, Apply(h) PROVE NumbersKnown'
  <2>1. End(h) /\ refunds' = refunds
    BY <1>3 DEF Apply, ApplyCreate, ApplyQuery, ApplyCancel, ApplyRefund, ApplyFinalize,
                End, external
  <2>2. \A k \in Handlers : /\ k # h => /\ job'[k] = job[k] /\ order'[k] = order[k]
                                        /\ reply'[k] = reply[k] /\ asked'[k] = asked[k]
                            /\ job'[h] = "none"
    BY <2>1 DEF End, Shape, HandlerTypes
  <2>3. \/ refundNo' = refundNo
        \/ /\ refundNo' = [refundNo EXCEPT ![order[h]] = asked[h]]
           /\ asked[h] \in 1..Len(refunds[order[h]])
    <3>1. CASE ApplyCreate(h) \/ ApplyCancel(h)
      BY <3>1 DEF ApplyCreate, ApplyCancel
    <3>2. CASE ApplyQuery(h)
      BY <3>2 DEF ApplyQuery, Expires, Learn, Confirm, Rejected, orders
    <3>3. CASE ApplyRefund(h)
      BY <3>3 DEF ApplyRefund, Heard, LearnRefund, Complete, Restore, KeepNumber, orders
    <3>4. CASE ApplyFinalize(h)
      BY <3>4 DEF ApplyFinalize, Heard, LearnRefund, Complete, Restore, KeepNumber, orders
    <3> QED
      BY <1>3, <3>1, <3>2, <3>3, <3>4 DEF Apply
  <2>4. ASSUME NEW o \in Orders PROVE refundNo'[o] <= Len(refunds'[o])
    <3>1. refundNo \in [Orders -> Nat] /\ refundNo[o] <= Len(refunds[o])
      BY DEF Shape, Typed, OrderTypes
    <3>2. Len(refunds[o]) \in Nat
      BY DEF Shape, ProviderTypes
    <3>3. CASE refundNo'[o] = refundNo[o]
      BY <2>1, <3>1, <3>3
    <3>4. CASE refundNo'[o] # refundNo[o]
      <4>1. o = order[h] /\ refundNo'[o] = asked[h] /\ asked[h] \in 1..Len(refunds[o])
        BY <2>3, <3>1, <3>4
      <4> QED
        BY <2>1, <3>2, <4>1
    <3> QED
      BY <3>3, <3>4
  <2>5. ASSUME NEW k \in Handlers,
               job'[k] = "finalize" \/ (job'[k] = "refund" /\ reply'[k] \in {"pending", "done"})
        PROVE  asked'[k] \in 1..Len(refunds'[order'[k]])
    BY <2>1, <2>2, <2>5
  <2> QED
    BY <2>4, <2>5
<1>4. CASE World
  <2>1. refundNo' = refundNo
    BY <1>4 DEF World, Attempt, Webhook, Expire, Expires, RequestRefund, RefundSettles,
          Spend, TimePasses, Restart, Learn, Confirm, Rejected, orders
  <2>2. CASE Restart
    BY <2>1, <2>2 DEF Restart, external
  <2>3. CASE ~Restart
    <3>1. UNCHANGED locals
      BY <1>4, <2>3 DEF World, Attempt, Webhook, Expire, Expires, RequestRefund,
            RefundSettles, Spend, TimePasses
    <3>2. refunds' = refunds \/ \E o \in Orders, n \in 1..MaxRefunds, state \in {"done", "failed"} :
                                 RefundSettles(o, n, state)
      BY <1>4, <2>3 DEF World, Attempt, Webhook, Expire, Expires, RequestRefund,
            Spend, TimePasses, external
    <3>3. \A q \in Orders : Len(refunds'[q]) = Len(refunds[q])
      <4>1. CASE refunds' = refunds
        BY <4>1
      <4>2. ASSUME NEW o \in Orders, NEW n \in 1..MaxRefunds,
                   NEW state \in {"done", "failed"}, RefundSettles(o, n, state)
            PROVE  \A q \in Orders : Len(refunds'[q]) = Len(refunds[q])
        <5>1. /\ refunds' = [refunds EXCEPT ![o] = [refunds[o] EXCEPT ![n] = state]]
              /\ refunds \in [Orders -> Seq({"pending", "done", "failed"})]
          BY <4>2 DEF RefundSettles, Shape, ProviderTypes
        <5>2. Len([refunds[o] EXCEPT ![n] = state]) = Len(refunds[o])
          BY <5>1
        <5> QED
          BY <5>1, <5>2
      <4> QED
        BY <3>2, <4>1, <4>2
    <3> QED
      BY <2>1, <3>1, <3>3 DEF locals, Shape, HandlerTypes
  <2> QED
    BY <2>2, <2>3
<1>5. CASE UNCHANGED vars
  BY <1>5 DEF vars, orders, external, locals
<1> QED
  BY <1>1, <1>2, <1>3, <1>4, <1>5 DEF Next

(* The initial state has its types.                                         *)
LEMMA TypeInit == Init => TypeOK
BY DEF Init, TypeOK, OrderTypes, MoneyTypes, ProviderTypes, HandlerTypes, NumbersKnown,
       Statuses, Jobs

(* Every step keeps the types.                                              *)
LEMMA TypeStep == TypeOK /\ [Next]_vars => TypeOK'
<1> SUFFICES ASSUME TypeOK, [Next]_vars PROVE TypeOK'
  OBVIOUS
<1>1. Shape /\ NumbersKnown
  BY DEF TypeOK, Shape, Typed
<1>2. NumbersKnown'
  BY <1>1, NumbersStep
<1>3. ASSUME UNCHANGED vars PROVE Shape'
  BY <1>1, <1>3 DEF vars, orders, money, external, locals, Shape, Typed, OrderTypes,
                    MoneyTypes, ProviderTypes, HandlerTypes
<1>4. Shape'
  BY <1>1, <1>3, TypeBegin, TypeProvider, TypeApply, TypeWorld DEF Next
<1> QED
  BY <1>2, <1>4 DEF TypeOK, Shape, Typed

(* In every execution no balance is negative, handlers in flight are         *)
(* consistent, and every refund number in use is one the provider gave.     *)
THEOREM TypeCorrect == Spec => []TypeOK
BY TypeInit, TypeStep, PTL DEF Spec

-----------------------------------------------------------------------------
(* When one order changes its status, its phase changes with it, and no      *)
(* other.                                                                   *)
LEMMA PhaseMoves ==
    ASSUME OrderTypes, NEW o \in Orders, NEW s \in Statuses,
           status' = [status EXCEPT ![o] = s]
    PROVE  Phase' = [Phase EXCEPT ![o] = PhaseOf(s)]
BY DEF OrderTypes, Phase

(* The phases of the account are read off the status column alone.          *)
LEMMA PhaseStays == status' = status => Phase' = Phase
BY DEF Phase

(* A status that stays in its class leaves the account's phases alone.      *)
LEMMA PhaseInvisible ==
    ASSUME OrderTypes, NEW o \in Orders, NEW s \in Statuses,
           status' = [status EXCEPT ![o] = s], PhaseOf(s) = PhaseOf(status[o])
    PROVE  Phase' = Phase
<1>1. Phase' = [Phase EXCEPT ![o] = PhaseOf(s)]
  BY PhaseMoves
<1> QED
  BY <1>1 DEF Phase

(* A step of the account, or none that it can see.                          *)
AccountMoves == Account!Next \/ UNCHANGED Account!account

(* A step that changes no phase and no money is invisible in the account.   *)
LEMMA QuietInAccount ==
    ASSUME Phase' = Phase, UNCHANGED money
    PROVE  AccountMoves
BY DEF AccountMoves, Account!account, money

(* A report about a payment credits the account or is invisible in it.      *)
LEMMA LearnInAccount ==
    ASSUME TypeOK, NEW o \in Orders, NEW report, Learn(o, report) \/ Expires(o)
    PROVE  AccountMoves
<1>0. OrderTypes
  BY DEF TypeOK
<1>1. CASE Confirm(o)
  <2>1. /\ status[o] \in Payable /\ status' = [status EXCEPT ![o] = "COMPLETED"]
        /\ balance' = [balance EXCEPT ![Buyer[o]] = @ + Amount[o]] /\ UNCHANGED spent
    BY <1>1 DEF Confirm, Pay
  <2>2. Phase' = [Phase EXCEPT ![o] = PhaseOf("COMPLETED")]
    BY <1>0, <2>1, PhaseMoves DEF Statuses, Credited
  <2>3. Phase[o] = "unpaid" /\ PhaseOf("COMPLETED") = "credited"
    BY <2>1 DEF Phase, PhaseOf, Payable, Credited
  <2>4. Account!Credit(o)
    BY <2>1, <2>2, <2>3 DEF Account!Credit, Account!Become
  <2> QED
    BY <2>4 DEF AccountMoves, Account!Next
<1>2. CASE Rejected(o) \/ Expires(o)
  <2>1. PICK s \in {"FAILED", "EXPIRED"} :
          status[o] = "PENDING" /\ status' = [status EXCEPT ![o] = s] /\ UNCHANGED money
    BY <1>2 DEF Rejected, Expires, Move
  <2>2. s \in Statuses /\ PhaseOf(s) = PhaseOf(status[o])
    BY <2>1 DEF Statuses, Payable, PhaseOf, Credited
  <2>3. Phase' = Phase
    BY <1>0, <2>1, <2>2, PhaseInvisible
  <2> QED
    BY <2>1, <2>3, QuietInAccount
<1>3. CASE UNCHANGED <<orders, money>>
  BY <1>3, PhaseStays, QuietInAccount DEF orders
<1> QED
  BY <1>1, <1>2, <1>3 DEF Learn

(* A report about a refund repays the held credit, gives it back, or is     *)
(* invisible in the account.                                                *)
LEMMA LearnRefundInAccount ==
    ASSUME TypeOK, NEW o \in Orders, NEW n, NEW report, LearnRefund(o, n, report)
    PROVE  AccountMoves
<1>0. OrderTypes
  BY DEF TypeOK
<1>1. CASE Complete(o, n)
  <2>1. /\ status[o] = "REFUNDING" /\ status' = [status EXCEPT ![o] = "REFUNDED"]
        /\ UNCHANGED money
    BY <1>1 DEF Complete, Move
  <2>2. Phase' = [Phase EXCEPT ![o] = PhaseOf("REFUNDED")]
    BY <1>0, <2>1, PhaseMoves DEF Statuses
  <2>3. Phase[o] = "held" /\ PhaseOf("REFUNDED") = "repaid"
    BY <2>1 DEF Phase, PhaseOf, Credited
  <2>4. Account!Repay(o)
    BY <2>1, <2>2, <2>3 DEF Account!Repay, Account!Become, money
  <2> QED
    BY <2>4 DEF AccountMoves, Account!Next
<1>2. CASE Restore(o)
  <2>1. /\ status[o] = "REFUNDING" /\ status' = [status EXCEPT ![o] = "COMPLETED"]
        /\ balance' = [balance EXCEPT ![Buyer[o]] = @ + Amount[o]] /\ UNCHANGED spent
    BY <1>2 DEF Restore, Move, Pay
  <2>2. Phase' = [Phase EXCEPT ![o] = PhaseOf("COMPLETED")]
    BY <1>0, <2>1, PhaseMoves DEF Statuses, Credited
  <2>3. Phase[o] = "held" /\ PhaseOf("COMPLETED") = "credited"
    BY <2>1 DEF Phase, PhaseOf, Credited
  <2>4. Account!GiveBack(o)
    BY <2>1, <2>2, <2>3 DEF Account!GiveBack, Account!Become
  <2> QED
    BY <2>4 DEF AccountMoves, Account!Next
<1>3. CASE KeepNumber(o, n) \/ UNCHANGED <<orders, money>>
  <2>1. status' = status /\ UNCHANGED money
    BY <1>3 DEF KeepNumber, orders, money
  <2> QED
    BY <2>1, PhaseStays, QuietInAccount
<1> QED
  BY <1>1, <1>2, <1>3 DEF LearnRefund

(* Every step of the service is a step of the account or invisible in it.   *)
LEMMA ImplementsStep == TypeOK /\ [Next]_vars => AccountMoves
<1> SUFFICES ASSUME TypeOK, [Next]_vars PROVE AccountMoves
  OBVIOUS
<1>0. OrderTypes /\ HandlerTypes
  BY DEF TypeOK
<1>1. ASSUME NEW h \in Handlers, Begin(h) PROVE AccountMoves
  <2>1. PICK o \in Orders :
          \/ BeginCreate(h, o) \/ BeginQuery(h, o) \/ BeginCancel(h, o)
          \/ BeginRefund(h, o) \/ BeginFinalize(h, o)
    BY <1>1 DEF Begin
  <2>2. CASE BeginCreate(h, o)
    <3>1. /\ status[o] = "NONE" /\ status' = [status EXCEPT ![o] = "PENDING"]
          /\ UNCHANGED money
      BY <2>2 DEF BeginCreate, Move
    <3>2. "PENDING" \in Statuses /\ PhaseOf("PENDING") = PhaseOf(status[o])
      BY <3>1 DEF Statuses, Payable, PhaseOf, Credited
    <3> QED
      BY <1>0, <3>1, <3>2, PhaseInvisible, QuietInAccount
  <2>3. CASE BeginRefund(h, o)
    <3>1. /\ status[o] \in Credited /\ status' = [status EXCEPT ![o] = "REFUNDING"]
          /\ balance[Buyer[o]] >= Amount[o]
          /\ balance' = [balance EXCEPT ![Buyer[o]] = @ + (-Amount[o])] /\ UNCHANGED spent
      BY <2>3 DEF BeginRefund, Pay
    <3>2. Phase' = [Phase EXCEPT ![o] = PhaseOf("REFUNDING")]
      BY <1>0, <3>1, PhaseMoves DEF Statuses
    <3>3. Phase[o] = "credited" /\ PhaseOf("REFUNDING") = "held"
      BY <3>1 DEF Phase, PhaseOf, Credited
    <3>4. balance' = [balance EXCEPT ![Buyer[o]] = @ - Amount[o]]
      <4>1. Buyer[o] \in Users /\ Amount[o] \in Nat /\ balance[Buyer[o]] \in Nat
        BY DEF TypeOK, MoneyTypes
      <4>2. balance[Buyer[o]] + (-Amount[o]) = balance[Buyer[o]] - Amount[o]
        BY <4>1
      <4> QED
        BY <3>1, <4>2
    <3>5. Account!Hold(o)
      BY <3>1, <3>2, <3>3, <3>4 DEF Account!Hold, Account!Become
    <3> QED
      BY <3>5 DEF AccountMoves, Account!Next
  <2>4. CASE BeginQuery(h, o) \/ BeginCancel(h, o) \/ BeginFinalize(h, o)
    <3>1. status' = status /\ UNCHANGED money
      BY <2>4 DEF BeginQuery, BeginCancel, BeginFinalize, orders
    <3> QED
      BY <3>1, PhaseStays, QuietInAccount
  <2> QED
    BY <2>1, <2>2, <2>3, <2>4
<1>2. ASSUME NEW h \in Handlers, ProviderStep(h) PROVE AccountMoves
  <2>1. status' = status /\ UNCHANGED money
    BY <1>2 DEF ProviderStep, ProviderCreates, ProviderAnswers, ProviderUnreachable,
          ProviderCancels, ProviderIgnoresCancel, ProviderRefunds, ProviderRepeats,
          ProviderRejects, ProviderReports, Hear, orders
  <2> QED
    BY <2>1, PhaseStays, QuietInAccount
<1>3. ASSUME NEW h \in Handlers, Apply(h) PROVE AccountMoves
  <2>1. order[h] \in Orders
    BY <1>0, <1>3 DEF Apply, ApplyCreate, ApplyQuery, ApplyCancel, ApplyRefund,
                     ApplyFinalize, Heard, HandlerTypes
  <2>2. CASE ApplyCreate(h) \/ ApplyCancel(h)
    <3>1. /\ UNCHANGED money
          /\ \/ status' = status
             \/ \E s \in {"FAILED", "CANCELLED"} :
                   /\ status[order[h]] = "PENDING"
                   /\ status' = [status EXCEPT ![order[h]] = s]
      BY <2>2 DEF ApplyCreate, ApplyCancel, Move
    <3>2. CASE status' = status
      BY <3>1, <3>2, PhaseStays, QuietInAccount
    <3>3. ASSUME NEW s \in {"FAILED", "CANCELLED"}, status[order[h]] = "PENDING",
                 status' = [status EXCEPT ![order[h]] = s]
          PROVE  AccountMoves
      <4>1. s \in Statuses /\ PhaseOf(s) = PhaseOf(status[order[h]])
        BY <3>3 DEF Statuses, Payable, PhaseOf, Credited
      <4> QED
        BY <1>0, <2>1, <3>1, <3>3, <4>1, PhaseInvisible, QuietInAccount
    <3> QED
      BY <3>1, <3>2, <3>3
  <2>3. CASE ApplyQuery(h)
    BY <2>1, <2>3, LearnInAccount DEF ApplyQuery
  <2>4. CASE ApplyRefund(h)
    BY <2>1, <2>4, LearnRefundInAccount DEF ApplyRefund
  <2>5. CASE ApplyFinalize(h)
    <3>1. CASE LearnRefund(order[h], asked[h], reply[h])
      BY <2>1, <3>1, LearnRefundInAccount
    <3>2. CASE UNCHANGED <<orders, money>>
      BY <3>2, PhaseStays, QuietInAccount DEF orders
    <3> QED
      BY <2>5, <3>1, <3>2 DEF ApplyFinalize
  <2> QED
    BY <1>3, <2>2, <2>3, <2>4, <2>5 DEF Apply
<1>4. ASSUME NEW o \in Orders, NEW kind, Webhook(o, kind) \/ Expire(o) PROVE AccountMoves
  BY <1>4, LearnInAccount DEF Webhook, Expire
<1>5. ASSUME NEW o \in Orders, RequestRefund(o) PROVE AccountMoves
  <2>1. /\ status[o] = "COMPLETED" /\ status' = [status EXCEPT ![o] = "REFUND_REQUESTED"]
        /\ UNCHANGED money
    BY <1>5 DEF RequestRefund, Move
  <2>2. "REFUND_REQUESTED" \in Statuses /\ PhaseOf("REFUND_REQUESTED") = PhaseOf(status[o])
    BY <2>1 DEF Statuses, Credited, PhaseOf
  <2> QED
    BY <1>0, <2>1, <2>2, PhaseInvisible, QuietInAccount
<1>6. ASSUME NEW u \in Users, Spend(u) PROVE AccountMoves
  <2>1. Phase' = Phase
    BY <1>6, PhaseStays DEF Spend, orders
  <2>2. Account!Spend(u)
    BY <1>6, <2>1 DEF Spend, Account!Spend
  <2> QED
    BY <2>2 DEF AccountMoves, Account!Next
<1>7. CASE status' = status /\ UNCHANGED money
  BY <1>7, PhaseStays, QuietInAccount
<1>8. CASE World
  <2>1. \/ \E o \in Orders :
             \/ \E kind \in PayerActs : Webhook(o, kind)
             \/ Expire(o) \/ RequestRefund(o)
        \/ \E u \in Users : Spend(u)
        \/ status' = status /\ UNCHANGED money
    BY <1>8 DEF World, Attempt, TimePasses, RefundSettles, Restart, orders
  <2> QED
    BY <2>1, <1>4, <1>5, <1>6, <1>7
<1>9. CASE UNCHANGED vars
  BY <1>7, <1>9 DEF vars, orders
<1> QED
  BY <1>1, <1>2, <1>3, <1>8, <1>9 DEF Next

(* The service implements the account: whatever happens between handlers,    *)
(* callbacks, the provider and crashes, an order's credit enters the balance *)
(* at most once, is held at most once at a time, and never returns after    *)
(* the refund was completed.                                                *)
THEOREM Implements == Spec => ImplementsAccount
<1>1. Init => Account!Init
  BY DEF Init, Account!Init, Phase, PhaseOf, Credited
<1>2. TypeOK /\ [Next]_vars => [Account!Next]_Account!account
  BY ImplementsStep DEF AccountMoves
<1> QED
  BY <1>1, <1>2, TypeInit, TypeStep, PTL DEF Spec, Account!Spec, ImplementsAccount

-----------------------------------------------------------------------------
(* The account keeps its promise: balances and spending are backed by       *)
(* credited orders.  A step changes the phase of one order and the balance  *)
(* of its buyer by that order's amount, so one term of one sum moves.       *)
Backed == Account!AccountTypes /\ BalanceExact
AccountMove(o) ==
    Account!Credit(o) \/ Account!Hold(o) \/ Account!GiveBack(o) \/ Account!Repay(o)

(* The orders whose credit is in a user's hands are those of the account.   *)
LEMMA CreditedIn ==
    ASSUME NEW u \in Users
    PROVE  /\ CreditedTo(u) = {o \in Orders : Buyer[o] = u /\ Phase[o] = "credited"}
           /\ CreditedTo(u)' = {o \in Orders : Buyer[o] = u /\ Phase'[o] = "credited"}
<1>1. ASSUME NEW o \in Orders
      PROVE  /\ Phase[o] = "credited" <=> status[o] \in Credited
             /\ Phase'[o] = "credited" <=> status'[o] \in Credited
  BY DEF Phase, PhaseOf, Credited
<1> QED
  BY <1>1 DEF CreditedTo

(* At first nothing is credited and every balance is empty.                 *)
LEMMA AccountInit ==
    ASSUME Account!Init
    PROVE  Backed
<1>1. Account!AccountTypes
  BY DEF Account!Init, Account!AccountTypes, Account!Phases
<1>2. ASSUME NEW u \in Users
      PROVE  balance[u] + spent[u] = Total(Part(Amount, CreditedTo(u)))
  <2>1. CreditedTo(u) = {}
    BY CreditedIn DEF Account!Init
  <2>2. /\ Part(Amount, {}) \in [Orders -> Nat]
        /\ \A o \in Orders : Part(Amount, {})[o] = 0
    BY PartType
  <2>3. Total(Part(Amount, {})) = 0
    BY <2>2, TotalZero
  <2> QED
    BY <2>1, <2>3 DEF Account!Init
<1> QED
  BY <1>1, <1>2 DEF Backed, BalanceExact

(* One order moves in or out of what is credited to its buyer, and nobody    *)
(* else's sum changes.                                                      *)
LEMMA CreditedChange ==
    ASSUME Account!AccountTypes, NEW o \in Orders, NEW p \in Account!Phases,
           Phase' = [Phase EXCEPT ![o] = p]
    PROVE  /\ \A u \in Users : Total(Part(Amount, CreditedTo(u))) \in Nat
           /\ \A u \in Users : u # Buyer[o] =>
                 Total(Part(Amount, CreditedTo(u)')) = Total(Part(Amount, CreditedTo(u)))
           /\ Total(Part(Amount, CreditedTo(Buyer[o])'))
                = Total(Part(Amount, CreditedTo(Buyer[o])))
                    - (IF Phase[o] = "credited" THEN Amount[o] ELSE 0)
                    + (IF p = "credited" THEN Amount[o] ELSE 0)
<1>1. Amount \in [Orders -> Nat]
  OBVIOUS
<1>2. ASSUME NEW u \in Users
      PROVE  /\ Total(Part(Amount, CreditedTo(u))) \in Nat
             /\ Total(Part(Amount, CreditedTo(u)')) =
                  Total(Part(Amount, CreditedTo(u)))
                    - (IF o \in CreditedTo(u) THEN Amount[o] ELSE 0)
                    + (IF o \in CreditedTo(u)' THEN Amount[o] ELSE 0)
  <2>1. \A q \in Orders \ {o} :
            Amount[q] = Amount[q] /\ (q \in CreditedTo(u)' <=> q \in CreditedTo(u))
    BY CreditedIn DEF Account!AccountTypes
  <2> QED
    BY <1>1, <2>1, PartChange
<1>3. ASSUME NEW u \in Users
      PROVE  /\ o \in CreditedTo(u) <=> Buyer[o] = u /\ Phase[o] = "credited"
             /\ o \in CreditedTo(u)' <=> Buyer[o] = u /\ p = "credited"
  BY CreditedIn DEF Account!AccountTypes
<1>4. Buyer[o] \in Users /\ Amount[o] \in Nat
  OBVIOUS
<1>5. ASSUME NEW u \in Users, u # Buyer[o]
      PROVE  Total(Part(Amount, CreditedTo(u)')) = Total(Part(Amount, CreditedTo(u)))
  <2>1. o \notin CreditedTo(u) /\ o \notin CreditedTo(u)'
    BY <1>3, <1>5
  <2> QED
    BY <1>2, <2>1
<1>6. /\ o \in CreditedTo(Buyer[o]) <=> Phase[o] = "credited"
      /\ o \in CreditedTo(Buyer[o])' <=> p = "credited"
  BY <1>3, <1>4
<1> QED
  BY <1>2, <1>4, <1>5, <1>6

(* Every step of the account keeps it backed.                       *)
LEMMA AccountStep ==
    ASSUME Backed, [Account!Next]_Account!account
    PROVE  Backed'
<1> USE DEF Backed
<1>1. Account!AccountTypes'
  <2> USE DEF Account!AccountTypes, Account!Phases
  <2>1. ASSUME NEW o \in Orders, AccountMove(o)
        PROVE  Account!AccountTypes'
    <3>1. Buyer[o] \in Users /\ Amount[o] \in Nat
      OBVIOUS
    <3>2. CASE Account!Credit(o)
      BY <3>1, <3>2 DEF Account!Credit, Account!Become
    <3>3. CASE Account!Hold(o)
      BY <3>1, <3>3 DEF Account!Hold, Account!Become
    <3>4. CASE Account!GiveBack(o)
      BY <3>1, <3>4 DEF Account!GiveBack, Account!Become
    <3>5. CASE Account!Repay(o)
      BY <3>5 DEF Account!Repay, Account!Become
    <3> QED
      BY <2>1, <3>2, <3>3, <3>4, <3>5 DEF AccountMove
  <2>2. ASSUME NEW u \in Users, Account!Spend(u) PROVE Account!AccountTypes'
    BY <2>2 DEF Account!Spend
  <2>3. CASE UNCHANGED Account!account
    BY <2>3 DEF Account!account
  <2> QED
    BY <2>1, <2>2, <2>3 DEF Account!Next, AccountMove
<1>2. ASSUME NEW o \in Orders, AccountMove(o)
      PROVE  BalanceExact'
  <2> DEFINE b == Buyer[o]
             sum(u) == Total(Part(Amount, CreditedTo(u)))
  <2>1. b \in Users /\ Amount[o] \in Nat
    OBVIOUS
  <2>2. ASSUME NEW p \in Account!Phases, Phase' = [Phase EXCEPT ![o] = p], spent' = spent,
               NEW n, balance' = [balance EXCEPT ![b] = n],
               n = balance[b] - (IF Phase[o] = "credited" THEN Amount[o] ELSE 0)
                              + (IF p = "credited" THEN Amount[o] ELSE 0)
        PROVE  BalanceExact'
    <3>1. /\ \A u \in Users : u # b => sum(u)' = sum(u)
          /\ sum(b)' = sum(b) - (IF Phase[o] = "credited" THEN Amount[o] ELSE 0)
                              + (IF p = "credited" THEN Amount[o] ELSE 0)
          /\ \A u \in Users : sum(u) \in Nat
      BY <2>2, CreditedChange
    <3>2. \A u \in Users : balance[u] + spent[u] = sum(u)
      BY DEF BalanceExact
    <3>3. \A u \in Users : balance'[u] + spent'[u] = sum(u)'
      <4> HIDE DEF sum
      <4> SUFFICES ASSUME NEW u \in Users PROVE balance'[u] + spent'[u] = sum(u)'
        OBVIOUS
      <4>1. balance[u] \in Nat /\ spent[u] \in Nat /\ sum(u) \in Nat
        BY <3>1 DEF Account!AccountTypes
      <4>2. /\ balance'[u] = IF u = b THEN n ELSE balance[u]
            /\ spent'[u] = spent[u]
        BY <2>2 DEF Account!AccountTypes
      <4>3. CASE u = b
        BY <2>1, <2>2, <3>1, <3>2, <4>1, <4>2, <4>3
      <4>4. CASE u # b
        BY <3>1, <3>2, <4>1, <4>2, <4>4
      <4> QED
        BY <4>3, <4>4
    <3> QED
      BY <3>3 DEF BalanceExact
  <2>3. "credited" \in Account!Phases /\ "held" \in Account!Phases /\ "repaid" \in Account!Phases
    BY DEF Account!Phases
  <2>4. balance[b] \in Nat
    BY <2>1 DEF Account!AccountTypes
  <2>5. CASE Account!Credit(o)
    <3>1. balance[b] + Amount[o] = balance[b] - 0 + Amount[o]
      BY <2>1, <2>4
    <3>2. /\ Phase[o] = "unpaid" /\ Phase' = [Phase EXCEPT ![o] = "credited"]
          /\ balance' = [balance EXCEPT ![b] = balance[b] + Amount[o]] /\ spent' = spent
      BY <2>5 DEF Account!Credit, Account!Become
    <3> QED
      BY <2>2, <2>3, <3>1, <3>2
  <2>6. CASE Account!Hold(o)
    <3>1. balance[b] - Amount[o] = balance[b] - Amount[o] + 0
      BY <2>1, <2>4
    <3>2. /\ Phase[o] = "credited" /\ Phase' = [Phase EXCEPT ![o] = "held"]
          /\ balance' = [balance EXCEPT ![b] = balance[b] - Amount[o]] /\ spent' = spent
      BY <2>6 DEF Account!Hold, Account!Become
    <3> QED
      BY <2>2, <2>3, <3>1, <3>2
  <2>7. CASE Account!GiveBack(o)
    <3>1. balance[b] + Amount[o] = balance[b] - 0 + Amount[o]
      BY <2>1, <2>4
    <3>2. /\ Phase[o] = "held" /\ Phase' = [Phase EXCEPT ![o] = "credited"]
          /\ balance' = [balance EXCEPT ![b] = balance[b] + Amount[o]] /\ spent' = spent
      BY <2>7 DEF Account!GiveBack, Account!Become
    <3> QED
      BY <2>2, <2>3, <3>1, <3>2
  <2>8. CASE Account!Repay(o)
    <3>1. balance[b] = balance[b] - 0 + 0
      BY <2>4
    <3>2. /\ Phase[o] = "held" /\ Phase' = [Phase EXCEPT ![o] = "repaid"]
          /\ balance' = [balance EXCEPT ![b] = balance[b]] /\ spent' = spent
      BY <2>8, <2>1 DEF Account!Repay, Account!Become, Account!AccountTypes
    <3> QED
      BY <2>2, <2>3, <3>1, <3>2
  <2> QED
    BY <1>2, <2>5, <2>6, <2>7, <2>8 DEF AccountMove
<1>3. ASSUME NEW u \in Users, Account!Spend(u) PROVE BalanceExact'
  <2>1. \A v \in Users : CreditedTo(v)' = CreditedTo(v)
    BY <1>3, CreditedIn DEF Account!Spend
  <2>2. \A v \in Users : balance'[v] + spent'[v] = balance[v] + spent[v]
    BY <1>3 DEF Account!Spend, Account!AccountTypes
  <2> QED
    BY <2>1, <2>2 DEF BalanceExact
<1>4. CASE UNCHANGED Account!account
  <2>1. \A u \in Users : CreditedTo(u)' = CreditedTo(u)
    BY <1>4, CreditedIn DEF Account!account
  <2>2. balance' = balance /\ spent' = spent
    BY <1>4 DEF Account!account
  <2>3. \A u \in Users : balance[u] + spent[u] = Total(Part(Amount, CreditedTo(u)))
    BY DEF BalanceExact
  <2>4. BalanceExact'
          <=> \A u \in Users :
                balance'[u] + spent'[u] = Total(Part(Amount, CreditedTo(u)'))
    BY DEF BalanceExact
  <2> QED
    BY <1>1, <2>1, <2>2, <2>3, <2>4
<1> QED
  BY <1>1, <1>2, <1>3, <1>4 DEF Account!Next, AccountMove

(* Whatever implements the account, in whatever order credit comes, is held, *)
(* returned and spent: no balance comes from nothing.                       *)
THEOREM AccountBacked == Account!Spec => []BalanceExact
<1>1. Account!Init => Backed
  BY AccountInit
<1>2. Backed /\ [Account!Next]_Account!account => Backed'
  BY AccountStep
<1>3. Backed => BalanceExact
  BY DEF Backed
<1> QED
  BY <1>1, <1>2, <1>3, PTL DEF Account!Spec

(* No interleaving credits an order twice or returns a hold twice: every     *)
(* balance is what the credited orders brought less what was spent.         *)
THEOREM BalancesExact == Spec => []BalanceExact
<1> QED
  BY Implements, AccountBacked, PTL DEF ImplementsAccount

-----------------------------------------------------------------------------
(* The cash book follows the status, one conditional update at a time.      *)
LEMMA LedgerLearn ==
    ASSUME OrderTypes, LedgerExact, NEW o \in Orders, NEW report,
           Learn(o, report) \/ Expires(o)
    PROVE  LedgerExact'
<1> USE DEF LedgerExact, OrderTypes, Settled, Credited, Payable
<1>1. CASE Confirm(o)
  BY <1>1 DEF Confirm
<1>2. CASE Rejected(o) \/ Expires(o)
  BY <1>2 DEF Rejected, Expires, Move
<1>3. CASE UNCHANGED <<orders, money>>
  BY <1>3 DEF orders
<1> QED
  BY <1>1, <1>2, <1>3 DEF Learn

(* completeRefund books the expense with the status; giving the hold back   *)
(* books nothing.                                                           *)
LEMMA LedgerLearnRefund ==
    ASSUME OrderTypes, LedgerExact, NEW o \in Orders, NEW n, NEW report,
           LearnRefund(o, n, report)
    PROVE  LedgerExact'
<1> USE DEF LedgerExact, OrderTypes, Settled, Credited
<1>1. CASE Complete(o, n)
  BY <1>1 DEF Complete, Move
<1>2. CASE Restore(o)
  BY <1>2 DEF Restore, Move
<1>3. CASE KeepNumber(o, n) \/ UNCHANGED <<orders, money>>
  BY <1>3 DEF KeepNumber, orders
<1> QED
  BY <1>1, <1>2, <1>3 DEF LearnRefund

(* Every step keeps the cash book exact.                                    *)
LEMMA LedgerStep == TypeOK /\ LedgerExact /\ [Next]_vars => LedgerExact'
<1> SUFFICES ASSUME TypeOK, LedgerExact, [Next]_vars PROVE LedgerExact'
  OBVIOUS
<1>0. OrderTypes /\ HandlerTypes
  BY DEF TypeOK
<1>1. ASSUME status' = status, ledger' = ledger PROVE LedgerExact'
  BY <1>1 DEF LedgerExact
<1>2. ASSUME NEW o \in Orders, NEW s, ledger' = ledger, status' = [status EXCEPT ![o] = s],
             status[o] \in Settled <=> s \in Settled, status[o] # "REFUNDED", s # "REFUNDED"
      PROVE  LedgerExact'
  BY <1>0, <1>2 DEF LedgerExact, OrderTypes
<1>3. ASSUME NEW h \in Handlers, Begin(h) PROVE LedgerExact'
  <2>1. PICK o \in Orders :
          \/ BeginCreate(h, o) \/ BeginQuery(h, o) \/ BeginCancel(h, o)
          \/ BeginRefund(h, o) \/ BeginFinalize(h, o)
    BY <1>3 DEF Begin
  <2>2. CASE BeginCreate(h, o)
    BY <1>2, <2>2 DEF BeginCreate, Move, Settled, Credited
  <2>3. CASE BeginRefund(h, o)
    BY <1>2, <2>3 DEF BeginRefund, Settled, Credited
  <2>4. CASE BeginQuery(h, o) \/ BeginCancel(h, o) \/ BeginFinalize(h, o)
    BY <1>1, <2>4 DEF BeginQuery, BeginCancel, BeginFinalize, orders
  <2> QED
    BY <2>1, <2>2, <2>3, <2>4
<1>4. ASSUME NEW h \in Handlers, ProviderStep(h) PROVE LedgerExact'
  <2>1. UNCHANGED orders
    BY <1>4 DEF ProviderStep, ProviderCreates, ProviderAnswers, ProviderUnreachable,
          ProviderCancels, ProviderIgnoresCancel, ProviderRefunds, ProviderRepeats,
          ProviderRejects, ProviderReports, Hear
  <2> QED
    BY <1>1, <2>1 DEF orders
<1>5. ASSUME NEW h \in Handlers, Apply(h) PROVE LedgerExact'
  <2>1. order[h] \in Orders
    BY <1>0, <1>5 DEF Apply, ApplyCreate, ApplyQuery, ApplyCancel, ApplyRefund,
                     ApplyFinalize, Heard, HandlerTypes
  <2>2. CASE ApplyCreate(h) \/ ApplyCancel(h)
    <3>1. /\ ledger' = ledger
          /\ \/ status' = status
             \/ \E s \in {"FAILED", "CANCELLED"} :
                   /\ status[order[h]] = "PENDING"
                   /\ status' = [status EXCEPT ![order[h]] = s]
      BY <2>2 DEF ApplyCreate, ApplyCancel, Move
    <3>2. ASSUME NEW s \in {"FAILED", "CANCELLED"}, status[order[h]] = "PENDING",
                 status' = [status EXCEPT ![order[h]] = s]
          PROVE  LedgerExact'
      BY <1>2, <2>1, <3>1, <3>2 DEF Settled, Credited
    <3> QED
      BY <1>1, <3>1, <3>2
  <2>3. CASE ApplyQuery(h)
    BY <1>0, <2>1, <2>3, LedgerLearn DEF ApplyQuery
  <2>4. CASE ApplyRefund(h)
    BY <1>0, <2>1, <2>4, LedgerLearnRefund DEF ApplyRefund
  <2>5. CASE ApplyFinalize(h)
    <3>1. CASE LearnRefund(order[h], asked[h], reply[h])
      BY <1>0, <2>1, <3>1, LedgerLearnRefund
    <3>2. CASE UNCHANGED <<orders, money>>
      BY <1>1, <3>2 DEF orders
    <3> QED
      BY <2>5, <3>1, <3>2 DEF ApplyFinalize
  <2> QED
    BY <1>5, <2>2, <2>3, <2>4, <2>5 DEF Apply
<1>6. ASSUME NEW o \in Orders, NEW kind, Webhook(o, kind) \/ Expire(o) PROVE LedgerExact'
  BY <1>0, <1>6, LedgerLearn DEF Webhook, Expire
<1>7. ASSUME NEW o \in Orders, RequestRefund(o) PROVE LedgerExact'
  BY <1>2, <1>7 DEF RequestRefund, Move, Settled, Credited
<1>8. CASE World
  <2>1. \/ \E o \in Orders :
             \/ \E kind \in PayerActs : Webhook(o, kind)
             \/ Expire(o) \/ RequestRefund(o)
        \/ status' = status /\ ledger' = ledger
    BY <1>8 DEF World, Attempt, TimePasses, RefundSettles, Restart, Spend, orders
  <2> QED
    BY <1>1, <1>6, <1>7, <2>1
<1>9. CASE UNCHANGED vars
  BY <1>1, <1>9 DEF vars, orders
<1> QED
  BY <1>3, <1>4, <1>5, <1>8, <1>9 DEF Next

(* The cash book has exactly one income entry for every order ever credited  *)
(* and one expense entry for every order refunded.                          *)
THEOREM LedgerAgrees == Spec => []LedgerExact
<1>1. Init => LedgerExact
  BY DEF Init, LedgerExact, Settled, Credited
<1> QED
  BY <1>1, TypeInit, TypeStep, LedgerStep, PTL DEF Spec

(* Balances and cash book, written by different statements, always agree    *)
(* with the orders and so with each other.                                  *)
THEOREM AccountsAgree == Spec => []AccountsExact
<1>1. LedgerExact /\ BalanceExact => AccountsExact
  BY DEF AccountsExact
<1> QED
  BY <1>1, LedgerAgrees, BalancesExact, PTL

-----------------------------------------------------------------------------
(* What the service believes of the provider stays true however long it     *)
(* takes to act on it, because the provider neither takes a payment back     *)
(* nor undoes a refund.                                                     *)
Evidence ==
    /\ \A o \in Orders : <<o, "paid">> \in notices => provider[o] = "paid"
    /\ \A h \in Handlers :
          /\ job[h] = "query" /\ reply[h] = "paid" => provider[order[h]] = "paid"
          /\ job[h] \in {"refund", "finalize"} /\ reply[h] = "done"
                => refunds[order[h]][asked[h]] = "done"

(* The provider takes no payment back and undoes no refund.                 *)
LEMMA ProviderMonotone ==
    ASSUME TypeOK, [Next]_vars
    PROVE  /\ \A o \in Orders : provider[o] = "paid" => provider'[o] = "paid"
           /\ \A o \in Orders, n \in Nat :
                 n \in 1..Len(refunds[o]) /\ refunds[o][n] = "done" => refunds'[o][n] = "done"
<1>0. ProviderTypes /\ HandlerTypes
  BY DEF TypeOK
<1>1. ASSUME UNCHANGED external
      PROVE  /\ \A o \in Orders : provider[o] = "paid" => provider'[o] = "paid"
             /\ \A o \in Orders, n \in Nat :
                   n \in 1..Len(refunds[o]) /\ refunds[o][n] = "done" => refunds'[o][n] = "done"
  BY <1>1 DEF external
<1>2. ASSUME NEW h \in Handlers, NEW state \in {"pending", "done"}, ProviderRefunds(h, state)
      PROVE  /\ provider' = provider
             /\ \A o \in Orders, n \in Nat :
                   n \in 1..Len(refunds[o]) /\ refunds[o][n] = "done" => refunds'[o][n] = "done"
  <2>1. /\ order[h] \in Orders /\ provider' = provider
        /\ refunds' = [refunds EXCEPT ![order[h]] = Append(refunds[order[h]], state)]
    BY <1>0, <1>2 DEF ProviderRefunds, HandlerTypes
  <2>2. refunds \in [Orders -> Seq({"pending", "done", "failed"})]
    BY <1>0 DEF ProviderTypes
  <2>3. \A n \in 1..Len(refunds[order[h]]) :
            Append(refunds[order[h]], state)[n] = refunds[order[h]][n]
    BY <2>1, <2>2
  <2> QED
    BY <2>1, <2>2, <2>3
<1>3. ASSUME NEW o \in Orders, NEW n, NEW state \in {"done", "failed"},
             RefundSettles(o, n, state)
      PROVE  /\ provider' = provider
             /\ \A q \in Orders, m \in Nat :
                   m \in 1..Len(refunds[q]) /\ refunds[q][m] = "done" => refunds'[q][m] = "done"
  <2>1. /\ refunds \in [Orders -> Seq({"pending", "done", "failed"})] /\ provider' = provider
        /\ refunds[o][n] = "pending" /\ n \in 1..Len(refunds[o])
        /\ refunds' = [refunds EXCEPT ![o] = [refunds[o] EXCEPT ![n] = state]]
    BY <1>0, <1>3 DEF RefundSettles, ProviderTypes
  <2>2. \A m \in 1..Len(refunds[o]) : m # n =>
            [refunds[o] EXCEPT ![n] = state][m] = refunds[o][m]
    BY <2>1
  <2> QED
    BY <2>1, <2>2
<1>4. ASSUME NEW o \in Orders, NEW kind, Attempt(o, kind)
      PROVE  refunds' = refunds /\ \A q \in Orders : provider[q] = "paid" => provider'[q] = "paid"
  BY <1>0, <1>4 DEF Attempt, ProviderTypes
<1>5. ASSUME NEW h \in Handlers, ProviderCreates(h) \/ ProviderCancels(h)
      PROVE  refunds' = refunds /\ \A q \in Orders : provider[q] = "paid" => provider'[q] = "paid"
  <2>1. refunds' = refunds /\ order[h] \in Orders
    BY <1>0, <1>5 DEF ProviderCreates, ProviderCancels, Hear, HandlerTypes
  <2>2. CASE provider' = provider
    BY <2>1, <2>2
  <2>3. CASE provider' = [provider EXCEPT ![order[h]] = IF @ = "none" THEN "open" ELSE @]
    BY <1>0, <2>1, <2>3 DEF ProviderTypes
  <2>4. CASE provider' = [provider EXCEPT ![order[h]] =
                            IF @ = "open" /\ asked[h] = 1 THEN "closed" ELSE @]
    BY <1>0, <2>1, <2>4 DEF ProviderTypes
  <2> QED
    BY <1>5, <2>2, <2>3, <2>4 DEF ProviderCreates, ProviderCancels
<1>6. ASSUME NEW h \in Handlers, ProviderStep(h)
      PROVE  \/ ProviderCreates(h) \/ ProviderCancels(h)
             \/ \E state \in {"pending", "done"} : ProviderRefunds(h, state)
             \/ UNCHANGED external
  BY <1>6 DEF ProviderStep, ProviderAnswers, ProviderUnreachable, ProviderIgnoresCancel,
              ProviderRepeats, ProviderRejects, ProviderReports
<1>7. ASSUME NEW h \in Handlers, Begin(h) \/ Apply(h) PROVE UNCHANGED external
  BY <1>7 DEF Begin, BeginCreate, BeginQuery, BeginCancel, BeginRefund, BeginFinalize, Apply,
              ApplyCreate, ApplyQuery, ApplyCancel, ApplyRefund, ApplyFinalize, End
<1>8. ASSUME World
      PROVE  \/ \E o \in Orders, kind \in PayerActs : Attempt(o, kind)
             \/ \E o \in Orders, n \in 1..MaxRefunds, state \in {"done", "failed"} :
                   RefundSettles(o, n, state)
             \/ UNCHANGED external
  BY <1>8 DEF World, Webhook, Expire, RequestRefund, TimePasses, Spend, Restart
<1>9. CASE \E h \in Handlers : ProviderStep(h)
  BY <1>1, <1>2, <1>5, <1>6, <1>9
<1>10. CASE World
  BY <1>1, <1>3, <1>4, <1>8, <1>10
<1>11. CASE UNCHANGED vars
  BY <1>1, <1>11 DEF vars, external
<1>12. CASE \E h \in Handlers : Begin(h) \/ Apply(h)
  BY <1>1, <1>7, <1>12
<1> QED
  BY <1>9, <1>10, <1>11, <1>12 DEF Next

(* One handler's belief.                                                    *)
Believes(h) ==
    /\ job[h] = "query" /\ reply[h] = "paid" => provider[order[h]] = "paid"
    /\ job[h] \in {"refund", "finalize"} /\ reply[h] = "done"
          => refunds[order[h]][asked[h]] = "done"

(* A belief outlives the steps of others.                                   *)
LEMMA BeliefStays ==
    ASSUME TypeOK, [Next]_vars, NEW h \in Handlers, Believes(h),
           job'[h] = job[h], order'[h] = order[h], reply'[h] = reply[h], asked'[h] = asked[h]
    PROVE  Believes(h)'
<1>1. job[h] # "none" => order[h] \in Orders
  BY DEF TypeOK, HandlerTypes
<1>2. job[h] \in {"refund", "finalize"} /\ reply[h] = "done"
         => asked[h] \in 1..Len(refunds[order[h]]) /\ asked[h] \in Nat
  BY DEF TypeOK, NumbersKnown, HandlerTypes
<1> QED
  BY <1>1, <1>2, ProviderMonotone DEF Believes

(* The provider's answers are true when they are given.                     *)
LEMMA AnswersTrue ==
    ASSUME TypeOK, NEW h \in Handlers, ProviderStep(h)
    PROVE  Believes(h)'
<1>0. HandlerTypes /\ ProviderTypes /\ NumbersKnown
  BY DEF TypeOK
<1>1. CASE ProviderAnswers(h)
  <2>1. PICK answer \in Answers(order[h], asked[h]) : Hear(h, "query", answer)
    BY <1>1 DEF ProviderAnswers
  <2>2. job'[h] = "query" /\ order' = order /\ reply'[h] = answer /\ provider' = provider
    BY <1>0, <1>1, <2>1 DEF ProviderAnswers, Hear, HandlerTypes, external
  <2>3. answer = "paid" => provider[order[h]] = "paid"
    BY <2>1 DEF Answers
  <2> QED
    BY <2>2, <2>3 DEF Believes
<1>2. ASSUME NEW state \in {"pending", "done"}, ProviderRefunds(h, state) PROVE Believes(h)'
  <2> DEFINE o == order[h]
             n == Len(refunds[o]) + 1
  <2>1. /\ o \in Orders /\ refunds[o] \in Seq({"pending", "done", "failed"})
        /\ refunds' = [refunds EXCEPT ![o] = Append(refunds[o], state)]
        /\ asked'[h] = n /\ order' = order /\ job'[h] = "refund"
        /\ reply'[h] \in {state, "error"}
    BY <1>0, <1>2 DEF ProviderRefunds, Hear, HandlerTypes, ProviderTypes
  <2>2. Append(refunds[o], state)[n] = state
    BY <2>1
  <2>3. refunds'[o] = Append(refunds[o], state)
    BY <1>0, <2>1 DEF ProviderTypes
  <2> HIDE DEF n, o
  <2> QED
    BY <2>1, <2>2, <2>3 DEF Believes, o
<1>3. CASE ProviderRepeats(h)
  <2>1. PICK n \in Live(order[h]) :
          /\ Hear(h, "refund", refunds[order[h]][n])
          /\ asked' = [asked EXCEPT ![h] = n]
    BY <1>3 DEF ProviderRepeats
  <2>2. /\ job'[h] = "refund" /\ order' = order /\ reply'[h] = refunds[order[h]][n]
        /\ asked'[h] = n /\ refunds' = refunds
    BY <1>0, <1>3, <2>1 DEF ProviderRepeats, Hear, HandlerTypes, external
  <2> QED
    BY <2>2 DEF Believes
<1>4. CASE ProviderReports(h)
  BY <1>0, <1>4 DEF ProviderReports, Hear, HandlerTypes, external, Believes
<1>5. CASE ProviderCreates(h) \/ ProviderCancels(h) \/ ProviderIgnoresCancel(h)
  BY <1>0, <1>5 DEF ProviderCreates, ProviderCancels, ProviderIgnoresCancel, Hear,
                   HandlerTypes, Believes
<1>6. CASE ProviderUnreachable(h) \/ ProviderRejects(h)
  BY <1>0, <1>6 DEF ProviderUnreachable, ProviderRejects, Hear, HandlerTypes, Believes
<1> QED
  BY <1>1, <1>2, <1>3, <1>4, <1>5, <1>6 DEF ProviderStep

(* Every step keeps the evidence true.                                      *)
LEMMA EvidenceStep == TypeOK /\ Evidence /\ [Next]_vars => Evidence'
<1> SUFFICES ASSUME TypeOK, Evidence, [Next]_vars PROVE Evidence'
  OBVIOUS
<1>0. HandlerTypes
  BY DEF TypeOK
<1>1. \A h \in Handlers : Believes(h)
  BY DEF Evidence, Believes
<1>2. ASSUME NEW h \in Handlers PROVE Believes(h)'
  <2>1. CASE /\ job'[h] = job[h] /\ order'[h] = order[h]
             /\ reply'[h] = reply[h] /\ asked'[h] = asked[h]
    BY <1>1, <2>1, BeliefStays
  <2>2. CASE reply'[h] = "waiting"
    BY <2>2 DEF Believes
  <2>3. CASE ProviderStep(h)
    BY <2>3, AnswersTrue
  <2>4. ASSUME NEW k \in Handlers, k # h, Begin(k) \/ ProviderStep(k) \/ Apply(k)
        PROVE  /\ job'[h] = job[h] /\ order'[h] = order[h]
               /\ reply'[h] = reply[h] /\ asked'[h] = asked[h]
    <3>1. CASE Begin(k)
      <4>1. \E o, what, n : Start(k, o, what, n)
        BY <3>1 DEF Begin, BeginCreate, BeginQuery, BeginCancel, BeginRefund, BeginFinalize
      <4> QED
        BY <1>0, <2>4, <4>1 DEF Start, HandlerTypes
    <3>2. CASE ProviderStep(k)
      <4>1. /\ \E what, answer : Hear(k, what, answer)
            /\ asked' = asked \/ \E n : asked' = [asked EXCEPT ![k] = n]
        BY <3>2 DEF ProviderStep, ProviderCreates, ProviderAnswers, ProviderUnreachable,
              ProviderCancels, ProviderIgnoresCancel, ProviderRefunds, ProviderRepeats,
              ProviderRejects, ProviderReports
      <4> QED
        BY <1>0, <2>4, <4>1 DEF Hear, HandlerTypes
    <3>3. CASE Apply(k)
      <4>1. End(k)
        BY <3>3 DEF Apply, ApplyCreate, ApplyQuery, ApplyCancel, ApplyRefund, ApplyFinalize
      <4> QED
        BY <1>0, <2>4, <4>1 DEF End, HandlerTypes
    <3> QED
      BY <2>4, <3>1, <3>2, <3>3
  <2>5. CASE Begin(h)
    <3>1. \E o, what, n : Start(h, o, what, n)
      BY <2>5 DEF Begin, BeginCreate, BeginQuery, BeginCancel, BeginRefund, BeginFinalize
    <3>2. reply'[h] = "waiting"
      BY <1>0, <3>1 DEF Start, HandlerTypes
    <3> QED
      BY <2>2, <3>2
  <2>6. CASE Apply(h)
    <3>1. End(h)
      BY <2>6 DEF Apply, ApplyCreate, ApplyQuery, ApplyCancel, ApplyRefund, ApplyFinalize
    <3>2. reply'[h] = "waiting"
      BY <1>0, <3>1 DEF End, HandlerTypes
    <3> QED
      BY <2>2, <3>2
  <2>7. CASE World
    <3>1. UNCHANGED locals \/ reply'[h] = "waiting"
      BY <2>7 DEF World, Attempt, Webhook, Expire, RequestRefund, TimePasses, RefundSettles,
                  Spend, Restart
    <3> QED
      BY <2>1, <2>2, <3>1 DEF locals
  <2>8. CASE UNCHANGED vars
    BY <2>1, <2>8 DEF vars, locals
  <2> QED
    BY <2>1, <2>3, <2>4, <2>5, <2>6, <2>7, <2>8 DEF Next
<1>3. ASSUME NEW o \in Orders, <<o, "paid">> \in notices' PROVE provider'[o] = "paid"
  <2>1. CASE <<o, "paid">> \in notices
    BY <2>1, ProviderMonotone DEF Evidence
  <2>2. CASE <<o, "paid">> \notin notices
    <3>1. \E q \in Orders, kind \in PayerActs : Attempt(q, kind)
      BY <1>3, <2>2 DEF Next, Begin, BeginCreate, BeginQuery, BeginCancel, BeginRefund,
            BeginFinalize, ProviderStep, ProviderCreates, ProviderAnswers,
            ProviderUnreachable, ProviderCancels, ProviderIgnoresCancel, ProviderRefunds,
            ProviderRepeats, ProviderRejects, ProviderReports, Apply, ApplyCreate,
            ApplyQuery, ApplyCancel, ApplyRefund, ApplyFinalize, End, World, Webhook,
            Expire, RequestRefund, TimePasses, RefundSettles, Spend, Restart, vars, external
    <3>2. Attempt(o, "paid")
      <4>1. PICK q \in Orders, kind \in PayerActs : Attempt(q, kind)
        BY <3>1
      <4>2. notices' = notices \cup {<<q, kind>>}
        BY <4>1 DEF Attempt
      <4>3. q = o /\ kind = "paid"
        BY <1>3, <2>2, <4>2
      <4> QED
        BY <4>1, <4>3
    <3> QED
      BY <3>2 DEF Attempt, TypeOK, ProviderTypes
  <2> QED
    BY <2>1, <2>2
<1> QED
  BY <1>2, <1>3 DEF Evidence, Believes

(* What the service learns of a payment only credits paid orders.           *)
LEMMA BackedLearn ==
    ASSUME TypeOK, CreditBacked, [Next]_vars, NEW o \in Orders, NEW report,
           report = "paid" => provider[o] = "paid",
           Learn(o, report) \/ Expires(o), UNCHANGED external
    PROVE  CreditBacked'
<1>0. OrderTypes /\ provider' = provider /\ refunds' = refunds
  BY DEF TypeOK, external
<1> USE DEF CreditBacked, OrderTypes, Settled, Credited, Payable
<1>1. CASE Matches(report) /\ Confirm(o)
  BY <1>0, <1>1 DEF Matches, Confirm
<1>2. CASE Rejected(o) \/ Expires(o)
  BY <1>0, <1>2 DEF Rejected, Expires, Move
<1>3. CASE UNCHANGED <<orders, money>>
  BY <1>0, <1>3 DEF orders
<1> QED
  BY <1>1, <1>2, <1>3 DEF Learn

(* What it learns of a refund only completes refunds that were done.        *)
LEMMA BackedLearnRefund ==
    ASSUME TypeOK, CreditBacked, NEW o \in Orders, NEW n, NEW report,
           report = "done" => n \in 1..Len(refunds[o]) /\ refunds[o][n] = "done",
           LearnRefund(o, n, report), UNCHANGED external
    PROVE  CreditBacked'
<1>0. OrderTypes /\ provider' = provider /\ refunds' = refunds
  BY DEF TypeOK, external
<1> USE DEF CreditBacked, OrderTypes, Settled, Credited
<1>1. CASE report = "done" /\ Complete(o, n)
  BY <1>0, <1>1 DEF Complete, Move
<1>2. CASE Restore(o)
  BY <1>0, <1>2 DEF Restore, Move
<1>3. CASE KeepNumber(o, n)
  BY <1>0, <1>3 DEF KeepNumber
<1>4. CASE UNCHANGED <<orders, money>>
  BY <1>0, <1>4 DEF orders
<1> QED
  BY <1>1, <1>2, <1>3, <1>4 DEF LearnRefund

(* Every step keeps credits and refunds backed by the provider.             *)
LEMMA BackedStep == TypeOK /\ Evidence /\ CreditBacked /\ [Next]_vars => CreditBacked'
<1> SUFFICES ASSUME TypeOK, Evidence, CreditBacked, [Next]_vars PROVE CreditBacked'
  OBVIOUS
<1>0. OrderTypes /\ HandlerTypes /\ ProviderTypes /\ NumbersKnown
  BY DEF TypeOK
<1>1. ASSUME UNCHANGED <<status, refundNo>> PROVE CreditBacked'
  <2>1. ASSUME NEW o \in Orders, status[o] = "REFUNDED"
        PROVE  refundNo[o] \in 1..Len(refunds'[o]) /\ refunds'[o][refundNo[o]] = "done"
    <3>1. refundNo[o] \in 1..Len(refunds[o]) /\ refunds[o][refundNo[o]] = "done"
      BY <2>1 DEF CreditBacked
    <3>2. refunds'[o][refundNo[o]] = "done" /\ refundNo[o] \in Nat
      BY <1>0, <3>1, ProviderMonotone DEF OrderTypes
    <3>3. refundNo'[o] <= Len(refunds'[o]) /\ Len(refunds'[o]) \in Nat
      BY TypeStep DEF TypeOK, NumbersKnown, ProviderTypes
    <3> QED
      BY <1>1, <3>1, <3>2, <3>3
  <2> QED
    BY <1>1, <2>1, ProviderMonotone DEF CreditBacked
<1>2. ASSUME NEW o \in Orders, NEW s, status' = [status EXCEPT ![o] = s],
             UNCHANGED <<refundNo, external>>, s \in Settled => status[o] \in Settled,
             s # "REFUNDED"
      PROVE  CreditBacked'
  BY <1>0, <1>2 DEF CreditBacked, OrderTypes, external
<1>3. ASSUME NEW h \in Handlers, Begin(h) PROVE CreditBacked'
  <2>1. PICK o \in Orders :
          \/ BeginCreate(h, o) \/ BeginQuery(h, o) \/ BeginCancel(h, o)
          \/ BeginRefund(h, o) \/ BeginFinalize(h, o)
    BY <1>3 DEF Begin
  <2>2. CASE BeginCreate(h, o)
    BY <1>2, <2>2 DEF BeginCreate, Move, Settled, Credited
  <2>3. CASE BeginRefund(h, o)
    BY <1>2, <2>3 DEF BeginRefund, Settled, Credited
  <2>4. CASE BeginQuery(h, o) \/ BeginCancel(h, o) \/ BeginFinalize(h, o)
    BY <1>1, <2>4 DEF BeginQuery, BeginCancel, BeginFinalize, orders
  <2> QED
    BY <2>1, <2>2, <2>3, <2>4
<1>4. ASSUME NEW h \in Handlers, ProviderStep(h) PROVE CreditBacked'
  <2>1. UNCHANGED orders
    BY <1>4 DEF ProviderStep, ProviderCreates, ProviderAnswers, ProviderUnreachable,
          ProviderCancels, ProviderIgnoresCancel, ProviderRefunds, ProviderRepeats,
          ProviderRejects, ProviderReports, Hear
  <2> QED
    BY <1>1, <2>1 DEF orders
<1>5. ASSUME NEW h \in Handlers, Apply(h) PROVE CreditBacked'
  <2>1. order[h] \in Orders /\ UNCHANGED external
    BY <1>0, <1>5 DEF Apply, ApplyCreate, ApplyQuery, ApplyCancel, ApplyRefund,
                     ApplyFinalize, Heard, HandlerTypes, End
  <2>2. CASE ApplyCreate(h) \/ ApplyCancel(h)
    <3>1. /\ refundNo' = refundNo
          /\ \/ status' = status
             \/ \E s \in {"FAILED", "CANCELLED"} : status' = [status EXCEPT ![order[h]] = s]
      BY <2>2 DEF ApplyCreate, ApplyCancel, Move
    <3>2. ASSUME NEW s \in {"FAILED", "CANCELLED"}, status' = [status EXCEPT ![order[h]] = s]
          PROVE  CreditBacked'
      BY <1>2, <2>1, <3>1, <3>2 DEF Settled, Credited
    <3> QED
      BY <1>1, <3>1, <3>2
  <2>3. CASE ApplyQuery(h)
    <3>1. reply[h] = "paid" => provider[order[h]] = "paid"
      BY <2>3 DEF ApplyQuery, Heard, Evidence
    <3>2. Learn(order[h], reply[h]) \/ Expires(order[h])
      BY <2>3 DEF ApplyQuery
    <3> QED
      BY <2>1, <3>1, <3>2, BackedLearn
  <2>4. CASE ApplyRefund(h) \/ ApplyFinalize(h)
    <3>1. reply[h] = "done" => /\ asked[h] \in 1..Len(refunds[order[h]])
                              /\ refunds[order[h]][asked[h]] = "done"
      BY <1>0, <2>4 DEF ApplyRefund, ApplyFinalize, Heard, Evidence, NumbersKnown
    <3>2. CASE LearnRefund(order[h], asked[h], reply[h])
      BY <2>1, <3>1, <3>2, BackedLearnRefund
    <3>3. CASE UNCHANGED <<orders, money>>
      BY <1>1, <3>3 DEF orders
    <3> QED
      BY <2>4, <3>2, <3>3 DEF ApplyRefund, ApplyFinalize
  <2> QED
    BY <1>5, <2>2, <2>3, <2>4 DEF Apply
<1>6. ASSUME NEW o \in Orders, NEW kind, Webhook(o, kind) PROVE CreditBacked'
  <2>1. kind = "paid" => provider[o] = "paid"
    BY <1>6 DEF Webhook, Evidence
  <2> QED
    BY <1>6, <2>1, BackedLearn DEF Webhook
<1>7. ASSUME NEW o \in Orders, Expire(o) PROVE CreditBacked'
  BY <1>2, <1>7 DEF Expire, Expires, Move, Settled, Credited
<1>8. ASSUME NEW o \in Orders, RequestRefund(o) PROVE CreditBacked'
  BY <1>2, <1>8 DEF RequestRefund, Move, Settled, Credited
<1>9. CASE World
  <2>1. \/ \E o \in Orders :
             \/ \E kind \in PayerActs : Webhook(o, kind)
             \/ Expire(o) \/ RequestRefund(o)
        \/ UNCHANGED <<status, refundNo>>
    BY <1>9 DEF World, Attempt, TimePasses, RefundSettles, Restart, Spend, orders
  <2> QED
    BY <1>1, <1>6, <1>7, <1>8, <2>1
<1>10. CASE UNCHANGED vars
  BY <1>1, <1>10 DEF vars, orders
<1> QED
  BY <1>3, <1>4, <1>5, <1>9, <1>10 DEF Next

(* Credit is only ever given for a payment the provider took in full, and a  *)
(* refund is only booked when the refund on record was done.                *)
THEOREM CreditsBacked == Spec => []CreditBacked
<1>1. Init => Evidence /\ CreditBacked
  BY DEF Init, Evidence, CreditBacked, Settled, Credited
<1> QED
  BY <1>1, TypeInit, TypeStep, EvidenceStep, BackedStep, PTL DEF Spec

-----------------------------------------------------------------------------
(* Only a checkout makes an order pending.                                  *)
LEMMA OnlyCheckoutOpens ==
    ASSUME TypeOK, [Next]_vars
    PROVE  \/ \E h \in Handlers, o \in Orders : BeginCreate(h, o)
           \/ \A o \in Orders : status'[o] = "PENDING" => status[o] = "PENDING"
<1>0. OrderTypes
  BY DEF TypeOK
<1>1. ASSUME NEW o, NEW s, s # "PENDING", status' = [status EXCEPT ![o] = s]
      PROVE  \A q \in Orders : status'[q] = "PENDING" => status[q] = "PENDING"
  BY <1>0, <1>1 DEF OrderTypes
<1>2. ASSUME NEW o, NEW report, Learn(o, report) \/ Expires(o)
      PROVE  \A q \in Orders : status'[q] = "PENDING" => status[q] = "PENDING"
  BY <1>1, <1>2 DEF Learn, Confirm, Rejected, Expires, Move, orders
<1>3. ASSUME NEW o, NEW n, NEW report, LearnRefund(o, n, report)
      PROVE  \A q \in Orders : status'[q] = "PENDING" => status[q] = "PENDING"
  BY <1>1, <1>3 DEF LearnRefund, Complete, Restore, KeepNumber, Move, orders
<1>4. ASSUME NEW h \in Handlers, Begin(h)
      PROVE  \/ \E o \in Orders : BeginCreate(h, o)
             \/ \A q \in Orders : status'[q] = "PENDING" => status[q] = "PENDING"
  BY <1>1, <1>4 DEF Begin, BeginQuery, BeginCancel, BeginRefund, BeginFinalize, orders
<1>5. ASSUME NEW h \in Handlers, ProviderStep(h) PROVE UNCHANGED orders
  BY <1>5 DEF ProviderStep, ProviderCreates, ProviderAnswers, ProviderUnreachable,
        ProviderCancels, ProviderIgnoresCancel, ProviderRefunds, ProviderRepeats,
        ProviderRejects, ProviderReports, Hear
<1>6. ASSUME NEW h \in Handlers, Apply(h)
      PROVE  \A q \in Orders : status'[q] = "PENDING" => status[q] = "PENDING"
  <2>1. CASE ApplyCreate(h) \/ ApplyCancel(h)
    BY <1>1, <2>1 DEF ApplyCreate, ApplyCancel, Move
  <2>2. CASE ApplyQuery(h)
    BY <1>2, <2>2 DEF ApplyQuery
  <2>3. CASE ApplyRefund(h) \/ ApplyFinalize(h)
    BY <1>3, <2>3 DEF ApplyRefund, ApplyFinalize, orders
  <2> QED
    BY <1>6, <2>1, <2>2, <2>3 DEF Apply
<1>7. CASE World
  <2>1. \/ \E o \in Orders : \/ \E kind \in PayerActs : Webhook(o, kind)
                             \/ Expire(o) \/ RequestRefund(o)
        \/ status' = status
    BY <1>7 DEF World, Attempt, TimePasses, RefundSettles, Restart, Spend, orders
  <2> QED
    BY <1>1, <1>2, <2>1 DEF Webhook, Expire, RequestRefund, Move
<1> QED
  BY <1>4, <1>5, <1>6, <1>7 DEF Next, vars, orders

(* Every step keeps the limits on a user's open orders.                     *)
LEMMA PendingStep == TypeOK /\ PendingBounded /\ [Next]_vars => PendingBounded'
<1> SUFFICES ASSUME TypeOK, PendingBounded, [Next]_vars, NEW u \in Users
             PROVE  /\ Cardinality(PendingOf(u))' <= MaxPending
                    /\ DailyLimit > 0 => Total(Part(Amount, PendingOf(u)))' <= DailyLimit
  BY DEF PendingBounded
<1> DEFINE before == PendingOf(u)
           after == {o \in Orders : Buyer[o] = u /\ status'[o] = "PENDING"}
<1>0. PendingOf(u)' = after
  BY DEF PendingOf
<1>1. /\ before \subseteq Orders /\ IsFiniteSet(before) /\ IsFiniteSet(after)
      /\ Cardinality(before) \in Nat /\ Cardinality(after) \in Nat
  BY FS_Subset, FS_CardinalityType DEF PendingOf
<1>2. /\ Cardinality(before) <= MaxPending
      /\ DailyLimit > 0 => Total(Part(Amount, before)) <= DailyLimit
  BY DEF PendingBounded
<1>3. Amount \in [Orders -> Nat] /\ MaxPending \in Nat /\ DailyLimit \in Nat
  OBVIOUS
<1> HIDE DEF before, after
<1>4. CASE after \subseteq before
  <2>1. Cardinality(after) <= Cardinality(before)
    BY <1>1, <1>4, FS_Subset
  <2>2. /\ Total(Part(Amount, after)) \in Nat /\ Total(Part(Amount, before)) \in Nat
        /\ Total(Part(Amount, after)) <= Total(Part(Amount, before))
    BY <1>3, <1>4, PartSubset
  <2>3. Cardinality(after) <= MaxPending
    BY <1>1, <1>2, <1>3, <2>1
  <2>4. DailyLimit > 0 => Total(Part(Amount, after)) <= DailyLimit
    BY <1>2, <1>3, <2>2
  <2> QED
    BY <1>0, <2>3, <2>4
<1>5. ASSUME NEW h \in Handlers, NEW o \in Orders, BeginCreate(h, o), Buyer[o] = u
      PROVE  /\ Cardinality(after) <= MaxPending
             /\ DailyLimit > 0 => Total(Part(Amount, after)) <= DailyLimit
  <2>1. after = before \cup {o} /\ o \notin before /\ o \in after
    BY <1>5 DEF BeginCreate, Move, PendingOf, TypeOK, OrderTypes, before, after
  <2>2. Cardinality(after) = Cardinality(before) + 1
    BY <1>1, <2>1, FS_AddElement
  <2>3. Cardinality(before) < MaxPending
    BY <1>5 DEF BeginCreate, MayCreate, before
  <2>4. ASSUME DailyLimit > 0 PROVE Total(Part(Amount, after)) <= DailyLimit
    <3>1. Total(Part(Amount, OfToday(u))) + Amount[o] <= DailyLimit
      BY <1>3, <1>5, <2>4 DEF BeginCreate, MayCreate
    <3>2. before \in SUBSET OfToday(u)
      BY DEF before, PendingOf, OfToday
    <3>3. /\ Total(Part(Amount, before)) \in Nat /\ Total(Part(Amount, OfToday(u))) \in Nat
          /\ Total(Part(Amount, before)) <= Total(Part(Amount, OfToday(u)))
      BY <1>3, <3>2, PartSubset
    <3>4. \A q \in Orders \ {o} : Amount[q] = Amount[q] /\ (q \in after <=> q \in before)
      BY <2>1
    <3>5. Total(Part(Amount, after)) = Total(Part(Amount, before))
              - (IF o \in before THEN Amount[o] ELSE 0) + (IF o \in after THEN Amount[o] ELSE 0)
      BY <1>3, <3>4, PartChange
    <3>6. Total(Part(Amount, after)) = Total(Part(Amount, before)) + Amount[o]
      BY <1>3, <2>1, <3>3, <3>5
    <3> QED
      BY <1>3, <3>1, <3>3, <3>6
  <2> QED
    BY <1>1, <1>3, <2>2, <2>3, <2>4
<1>6. ASSUME NEW h \in Handlers, NEW o \in Orders, BeginCreate(h, o), Buyer[o] # u
      PROVE  after \subseteq before
  BY <1>6 DEF BeginCreate, Move, PendingOf, TypeOK, OrderTypes, before, after
<1>7. CASE \A o \in Orders : status'[o] = "PENDING" => status[o] = "PENDING"
  BY <1>4, <1>7 DEF PendingOf, before, after
<1> QED
  BY <1>0, <1>4, <1>5, <1>6, <1>7, OnlyCheckoutOpens

(* Concurrent checkouts of a user together respect the limits on open       *)
(* orders, however many orders and handlers there are.                      *)
THEOREM PendingWithinLimits == Spec => []PendingBounded
<1>1. Init => PendingBounded
  <2> SUFFICES ASSUME Init, NEW u \in Users
               PROVE  /\ Cardinality(PendingOf(u)) <= MaxPending
                      /\ DailyLimit > 0 => Total(Part(Amount, PendingOf(u))) <= DailyLimit
    BY DEF PendingBounded
  <2>1. PendingOf(u) = {}
    BY DEF Init, PendingOf
  <2>2. Cardinality(PendingOf(u)) = 0
    BY <2>1, FS_EmptySet
  <2>3. Amount \in [Orders -> Nat] /\ Part(Amount, {}) \in [Orders -> Nat]
        /\ \A o \in Orders : Part(Amount, {})[o] = 0
    BY PartType
  <2>4. Total(Part(Amount, PendingOf(u))) = 0
    BY <2>1, <2>3, TotalZero
  <2> QED
    BY <2>2, <2>4
<1> QED
  BY <1>1, TypeInit, TypeStep, PendingStep, PTL DEF Spec

-----------------------------------------------------------------------------
(* What a refund leaves to the credit.  The hold of an order is withdrawn   *)
(* from a refund that stands; a handler acts astray when it hears that its  *)
(* refund failed, when it calls the provider although its hold went back    *)
(* meanwhile, or when it was told about an earlier refund that failed.      *)
Repaying == {"REFUNDING", "REFUNDED"}
Processes(h, o) == job[h] = "refund" /\ order[h] = o
Withdrawn(o) == Live(o) # {} => status[o] \in Repaying
Astray(h, o) ==
    /\ order[h] = o
    /\ \/ job[h] = "refund" /\ reply[h] = "error"
       \/ job[h] = "refund" /\ reply[h] = "waiting" /\ status[o] # "REFUNDING"
       \/ job[h] = "finalize" /\ reply[h] = "failed" /\ \A n \in Live(o) : asked[h] < n
ActsAstray(o) == \E h \in Handlers : Astray(h, o) /\ reply'[h] # reply[h]

(* What handlers may have heard: nothing that was true of a refund that     *)
(* failed is true of another, and only the last refund of an order stands.  *)
LastStands(o) == \A n \in Live(o) : n = Len(refunds[o])
Told(h) ==
    /\ job[h] = "refund" => reply[h] \in {"waiting", "pending", "done", "error"}
    /\ job[h] = "finalize" =>
          /\ reply[h] \in {"waiting", "pending", "done", "failed"}
          /\ reply[h] = "failed" => refunds[order[h]][asked[h]] = "failed"
RefundsTold == (\A o \in Orders : LastStands(o)) /\ \A h \in Handlers : Told(h)

(* Reports about payments leave an order that is repaid alone.              *)
LEMMA RepayingKept ==
    ASSUME OrderTypes, NEW o, NEW report,
           Learn(o, report) \/ Expires(o) \/ Move(o, "COMPLETED", "REFUND_REQUESTED")
               \/ Move(o, "NONE", "PENDING") \/ Move(o, "PENDING", "FAILED")
               \/ Move(o, "PENDING", "CANCELLED") \/ status' = status
    PROVE  \A q \in Orders : status[q] \in Repaying => status'[q] = status[q]
BY DEF OrderTypes, Learn, Confirm, Rejected, Expires, Move, Repaying, Payable, orders

(* The provider's list of an order's refunds grows at its end, by one that   *)
(* is opened when no other stands, and what failed stays failed.            *)
LEMMA RefundsGrow ==
    ASSUME TypeOK, [Next]_vars, NEW o \in Orders
    PROVE  \/ refunds'[o] = refunds[o]
           \/ \E h \in Handlers, state \in {"pending", "done"} :
                 /\ job[h] = "refund" /\ reply[h] = "waiting" /\ order[h] = o
                 /\ reply'[h] # "waiting" /\ status' = status /\ Live(o) = {}
                 /\ refunds'[o] = Append(refunds[o], state)
           \/ \E n \in 1..Len(refunds[o]), state \in {"done", "failed"} :
                 /\ refunds[o][n] = "pending" /\ UNCHANGED <<status, locals>>
                 /\ refunds'[o] = [refunds[o] EXCEPT ![n] = state]
<1>0. HandlerTypes /\ ProviderTypes
  BY DEF TypeOK
<1>1. ASSUME NEW h \in Handlers, NEW state \in {"pending", "done"}, ProviderRefunds(h, state)
      PROVE  \/ refunds'[o] = refunds[o]
             \/ /\ job[h] = "refund" /\ reply[h] = "waiting" /\ order[h] = o
                /\ reply'[h] # "waiting" /\ status' = status /\ Live(o) = {}
                /\ refunds'[o] = Append(refunds[o], state)
  <2>1. /\ job[h] = "refund" /\ Live(order[h]) = {}
        /\ refunds' = [refunds EXCEPT ![order[h]] = Append(refunds[order[h]], state)]
        /\ Hear(h, "refund", state) \/ Hear(h, "refund", "error")
    BY <1>1 DEF ProviderRefunds
  <2>2. reply[h] = "waiting" /\ reply'[h] # "waiting" /\ status' = status
    BY <1>0, <2>1 DEF Hear, HandlerTypes, orders
  <2> QED
    BY <1>0, <2>1, <2>2 DEF ProviderTypes
<1>2. ASSUME NEW q \in Orders, NEW n, NEW state \in {"done", "failed"}, RefundSettles(q, n, state)
      PROVE  \/ refunds'[o] = refunds[o]
             \/ /\ n \in 1..Len(refunds[o]) /\ refunds[o][n] = "pending"
                /\ UNCHANGED <<status, locals>>
                /\ refunds'[o] = [refunds[o] EXCEPT ![n] = state]
  BY <1>0, <1>2 DEF RefundSettles, ProviderTypes, orders
<1>3. ASSUME NEW h \in Handlers, ProviderStep(h)
      PROVE  \/ \E state \in {"pending", "done"} : ProviderRefunds(h, state)
             \/ refunds' = refunds
  BY <1>3 DEF ProviderStep, ProviderCreates, ProviderCancels, ProviderAnswers,
              ProviderUnreachable, ProviderIgnoresCancel, ProviderRepeats, ProviderRejects,
              ProviderReports, external
<1>4. ASSUME NEW h \in Handlers, Begin(h) \/ Apply(h) PROVE refunds' = refunds
  BY <1>4 DEF Begin, BeginCreate, BeginQuery, BeginCancel, BeginRefund, BeginFinalize, Apply,
              ApplyCreate, ApplyQuery, ApplyCancel, ApplyRefund, ApplyFinalize, End, external
<1>5. ASSUME World
      PROVE  \/ \E q \in Orders, n \in 1..MaxRefunds, state \in {"done", "failed"} :
                   RefundSettles(q, n, state)
             \/ refunds' = refunds
  BY <1>5 DEF World, Attempt, Webhook, Expire, RequestRefund, TimePasses, Spend, Restart, external
<1>6. \/ \E h \in Handlers, state \in {"pending", "done"} : ProviderRefunds(h, state)
      \/ \E q \in Orders, n \in 1..MaxRefunds, state \in {"done", "failed"} :
            RefundSettles(q, n, state)
      \/ refunds' = refunds
  <2>1. ASSUME NEW h \in Handlers, Begin(h) \/ ProviderStep(h) \/ Apply(h)
        PROVE  \/ \E state \in {"pending", "done"} : ProviderRefunds(h, state)
               \/ refunds' = refunds
    BY <1>3, <1>4, <2>1, Zenon
  <2>2. UNCHANGED vars => refunds' = refunds
    BY DEF vars, external
  <2> QED
    BY <1>5, <2>1, <2>2, Zenon DEF Next
<1>7. CASE \E h \in Handlers, state \in {"pending", "done"} : ProviderRefunds(h, state)
  BY <1>1, <1>7
<1>8. CASE \E q \in Orders, n \in 1..MaxRefunds, state \in {"done", "failed"} :
               RefundSettles(q, n, state)
  <2>1. PICK q \in Orders, n \in 1..MaxRefunds, state \in {"done", "failed"} :
                RefundSettles(q, n, state)
    BY <1>8
  <2> QED
    BY <1>2, <2>1
<1> QED
  BY <1>6, <1>7, <1>8

LEMMA RefundsGrown ==
    ASSUME TypeOK, [Next]_vars, NEW o \in Orders
    PROVE  \/ refunds'[o] = refunds[o]
           \/ \E state : Live(o) = {} /\ refunds'[o] = Append(refunds[o], state)
           \/ \E n \in 1..Len(refunds[o]) : \E state :
                 refunds[o][n] = "pending" /\ refunds'[o] = [refunds[o] EXCEPT ![n] = state]
<1>1. CASE \E h \in Handlers, state \in {"pending", "done"} :
                 /\ job[h] = "refund" /\ reply[h] = "waiting" /\ order[h] = o
                 /\ reply'[h] # "waiting" /\ status' = status /\ Live(o) = {}
                 /\ refunds'[o] = Append(refunds[o], state)
  BY <1>1, Zenon
<1>2. CASE \E n \in 1..Len(refunds[o]), state \in {"done", "failed"} :
                 /\ refunds[o][n] = "pending" /\ UNCHANGED <<status, locals>>
                 /\ refunds'[o] = [refunds[o] EXCEPT ![n] = state]
  BY <1>2, Zenon
<1> QED
  BY <1>1, <1>2, RefundsGrow, Zenon

(* So what stands is the last refund, whatever is opened or settles.        *)
LEMMA LastStandsStep ==
    ASSUME TypeOK, [Next]_vars, NEW o \in Orders, LastStands(o)
    PROVE  LastStands(o)'
<1>1. refunds[o] \in Seq({"pending", "done", "failed"}) /\ Len(refunds[o]) \in Nat
  BY DEF TypeOK, ProviderTypes
<1>2. CASE refunds'[o] = refunds[o]
  BY <1>2 DEF LastStands, Live
<1>3. ASSUME NEW state, Live(o) = {}, refunds'[o] = Append(refunds[o], state)
      PROVE  LastStands(o)'
  <2>1. /\ Len(refunds'[o]) = Len(refunds[o]) + 1
        /\ \A m \in 1..Len(refunds[o]) : refunds'[o][m] = refunds[o][m]
    BY <1>1, <1>3
  <2>2. \A m \in 1..Len(refunds[o]) : refunds[o][m] \notin {"pending", "done"}
    BY <1>3 DEF Live
  <2>3. \A m \in 1..Len(refunds'[o]) : m = Len(refunds'[o]) \/ m \in 1..Len(refunds[o])
    BY <1>1, <2>1
  <2> QED
    BY <2>1, <2>2, <2>3 DEF LastStands, Live
<1>4. ASSUME NEW n \in 1..Len(refunds[o]), NEW state, refunds[o][n] = "pending",
             refunds'[o] = [refunds[o] EXCEPT ![n] = state]
      PROVE  LastStands(o)'
  <2>0. n \in Live(o) /\ n = Len(refunds[o])
    BY <1>4 DEF LastStands, Live
  <2>1. /\ Len(refunds'[o]) = Len(refunds[o])
        /\ \A m \in 1..Len(refunds[o]) : m # n => refunds'[o][m] = refunds[o][m]
    BY <1>1, <1>4
  <2> QED
    BY <2>0, <2>1 DEF LastStands, Live
<1>5. CASE \E state : Live(o) = {} /\ refunds'[o] = Append(refunds[o], state)
  BY <1>3, <1>5, Zenon
<1>6. CASE \E n \in 1..Len(refunds[o]) : \E state :
              refunds[o][n] = "pending" /\ refunds'[o] = [refunds[o] EXCEPT ![n] = state]
  BY <1>4, <1>6, Zenon
<1> QED
  BY <1>2, <1>5, <1>6, RefundsGrown, Zenon

(* What a handler was told stays true: a refund that failed is not undone.  *)
LEMMA FailedStays ==
    ASSUME TypeOK, [Next]_vars, NEW o \in Orders, NEW n \in 1..Len(refunds[o]),
           refunds[o][n] = "failed"
    PROVE  refunds'[o][n] = "failed"
<1>1. refunds[o] \in Seq({"pending", "done", "failed"})
  BY DEF TypeOK, ProviderTypes
<1>2. ASSUME NEW state, refunds'[o] = Append(refunds[o], state) PROVE refunds'[o][n] = "failed"
  BY <1>1, <1>2
<1>3. ASSUME NEW m \in 1..Len(refunds[o]), NEW state, refunds[o][m] = "pending",
             refunds'[o] = [refunds[o] EXCEPT ![m] = state]
      PROVE  refunds'[o][n] = "failed"
  BY <1>1, <1>3
<1>4. CASE refunds'[o] = refunds[o]
  BY <1>4
<1>5. CASE \E state : Live(o) = {} /\ refunds'[o] = Append(refunds[o], state)
  BY <1>2, <1>5, Zenon
<1>6. CASE \E m \in 1..Len(refunds[o]) : \E state :
              refunds[o][m] = "pending" /\ refunds'[o] = [refunds[o] EXCEPT ![m] = state]
  BY <1>3, <1>6, Zenon
<1> QED
  BY <1>4, <1>5, <1>6, RefundsGrown, Zenon

LEMMA ToldStays ==
    ASSUME TypeOK, [Next]_vars, NEW h \in Handlers, Told(h),
           job'[h] = job[h], order'[h] = order[h], reply'[h] = reply[h], asked'[h] = asked[h]
    PROVE  Told(h)'
<1>1. job[h] # "none" => order[h] \in Orders
  BY DEF TypeOK, HandlerTypes
<1>2. job[h] = "finalize" => asked[h] \in 1..Len(refunds[order[h]])
  BY DEF TypeOK, NumbersKnown
<1> QED
  BY <1>1, <1>2, FailedStays DEF Told

(* A handler is told what is so when it asks.                               *)
LEMMA ToldTruth ==
    ASSUME TypeOK, NEW h \in Handlers, Told(h), ProviderStep(h)
    PROVE  Told(h)'
<1>0. HandlerTypes /\ ProviderTypes /\ NumbersKnown
  BY DEF TypeOK
<1>1. job' = job /\ order' = order
  BY DEF ProviderStep, ProviderCreates, ProviderAnswers, ProviderUnreachable, ProviderCancels,
         ProviderIgnoresCancel, ProviderRefunds, ProviderRepeats, ProviderRejects,
         ProviderReports, Hear
<1>2. CASE job[h] \notin {"refund", "finalize"}
  BY <1>1, <1>2 DEF Told
<1>3. CASE job[h] = "refund"
  <2>1. ASSUME NEW state \in {"pending", "done"}, ProviderRefunds(h, state)
        PROVE  reply'[h] \in {"pending", "done", "error"}
    BY <1>0, <2>1 DEF ProviderRefunds, Hear, HandlerTypes
  <2>2. ASSUME ProviderRepeats(h) PROVE reply'[h] \in {"pending", "done"}
    BY <1>0, <2>2 DEF ProviderRepeats, Hear, Live, HandlerTypes
  <2>3. ASSUME ProviderRejects(h) PROVE reply'[h] = "error"
    BY <1>0, <2>3 DEF ProviderRejects, Hear, HandlerTypes
  <2>4. (\E state \in {"pending", "done"} : ProviderRefunds(h, state))
            \/ ProviderRepeats(h) \/ ProviderRejects(h)
    BY <1>3 DEF ProviderStep, ProviderCreates, ProviderAnswers, ProviderUnreachable,
                ProviderCancels, ProviderIgnoresCancel, ProviderReports, Hear
  <2> QED
    BY <1>1, <1>3, <2>1, <2>2, <2>3, <2>4 DEF Told
<1>4. CASE job[h] = "finalize"
  <2>1. ProviderReports(h)
    BY <1>4 DEF ProviderStep, ProviderCreates, ProviderAnswers, ProviderUnreachable,
                ProviderCancels, ProviderIgnoresCancel, ProviderRefunds, ProviderRepeats,
                ProviderRejects, Hear
  <2>2. /\ reply'[h] = refunds[order[h]][asked[h]] /\ asked' = asked /\ refunds' = refunds
    BY <1>0, <2>1 DEF ProviderReports, Hear, HandlerTypes, external
  <2>3. refunds[order[h]][asked[h]] \in {"pending", "done", "failed"}
    BY <1>0, <1>4 DEF NumbersKnown, ProviderTypes, HandlerTypes
  <2> QED
    BY <1>1, <1>4, <2>2, <2>3 DEF Told
<1> QED
  BY <1>2, <1>3, <1>4

LEMMA RefundsToldStep == TypeOK /\ RefundsTold /\ [Next]_vars => RefundsTold'
<1> SUFFICES ASSUME TypeOK, RefundsTold, [Next]_vars PROVE RefundsTold'
  OBVIOUS
<1>0. HandlerTypes
  BY DEF TypeOK
<1>1. \A o \in Orders : LastStands(o)'
  BY LastStandsStep DEF RefundsTold
<1>2. ASSUME NEW h \in Handlers PROVE Told(h)'
  <2>1. CASE UNCHANGED vars
    BY <2>1, ToldStays DEF RefundsTold, vars, locals
  <2>2. ASSUME NEW k \in Handlers, Begin(k) PROVE Told(h)'
    <3>1. /\ reply' = reply /\ job[k] = "none"
          /\ \A m \in Handlers \ {k} : /\ job'[m] = job[m] /\ order'[m] = order[m]
                                       /\ asked'[m] = asked[m]
      BY <1>0, <2>2 DEF Begin, BeginCreate, BeginQuery, BeginCancel, BeginRefund, BeginFinalize,
                        Start, HandlerTypes
    <3>2. reply[k] = "waiting"
      BY <1>0, <3>1 DEF HandlerTypes
    <3>3. CASE h = k
      BY <3>1, <3>2, <3>3 DEF Told
    <3> QED
      BY <3>1, <3>3, ToldStays DEF RefundsTold
  <2>3. ASSUME NEW k \in Handlers, ProviderStep(k) PROVE Told(h)'
    <3>1. CASE h = k
      BY <2>3, <3>1, ToldTruth DEF RefundsTold
    <3>2. \A m \in Handlers \ {k} : /\ job'[m] = job[m] /\ order'[m] = order[m]
                                    /\ reply'[m] = reply[m] /\ asked'[m] = asked[m]
      BY <1>0, <2>3 DEF ProviderStep, ProviderCreates, ProviderAnswers, ProviderUnreachable,
                        ProviderCancels, ProviderIgnoresCancel, ProviderRefunds,
                        ProviderRepeats, ProviderRejects, ProviderReports, Hear, HandlerTypes
    <3> QED
      BY <3>1, <3>2, ToldStays DEF RefundsTold
  <2>4. ASSUME NEW k \in Handlers, Apply(k) PROVE Told(h)'
    <3>1. End(k)
      BY <2>4 DEF Apply, ApplyCreate, ApplyQuery, ApplyCancel, ApplyRefund, ApplyFinalize
    <3>2. CASE h = k
      BY <1>0, <3>1, <3>2 DEF End, Told, HandlerTypes
    <3>3. \A m \in Handlers \ {k} : /\ job'[m] = job[m] /\ order'[m] = order[m]
                                    /\ reply'[m] = reply[m] /\ asked'[m] = asked[m]
      BY <1>0, <3>1 DEF End, HandlerTypes
    <3> QED
      BY <3>2, <3>3, ToldStays DEF RefundsTold
  <2>5. CASE World
    <3>1. CASE Restart
      BY <3>1 DEF Restart, Told
    <3>2. CASE UNCHANGED locals
      BY <3>2, ToldStays DEF RefundsTold, locals
    <3> QED
      BY <2>5, <3>1, <3>2 DEF World, Attempt, Webhook, Expire, RequestRefund, TimePasses,
                              RefundSettles, Spend
  <2> QED
    BY <2>1, <2>2, <2>3, <2>4, <2>5 DEF Next
<1> QED
  BY <1>1, <1>2 DEF RefundsTold

(* Only an answer that a refund failed takes an order out of its refund.    *)
LEMMA HoldGoesBack ==
    ASSUME TypeOK, [Next]_vars, NEW o \in Orders, status[o] \in Repaying, status'[o] \notin Repaying
    PROVE  \E h \in Handlers : /\ order[h] = o /\ job[h] \in {"refund", "finalize"}
                               /\ reply[h] \in {"failed", "error"} /\ reply'[h] = "waiting"
<1>0. OrderTypes /\ HandlerTypes
  BY DEF TypeOK
<1>1. status'[o] # status[o]
  OBVIOUS
<1>2. ASSUME NEW h \in Handlers, Apply(h), job[h] \in {"refund", "finalize"},
             LearnRefund(order[h], asked[h], reply[h])
      PROVE  order[h] = o /\ reply[h] \in {"failed", "error"} /\ reply'[h] = "waiting"
  <2>1. End(h)
    BY <1>2 DEF Apply, ApplyCreate, ApplyQuery, ApplyCancel, ApplyRefund, ApplyFinalize
  <2>2. reply'[h] = "waiting"
    BY <1>0, <2>1 DEF End, HandlerTypes
  <2>3. order[h] \in Orders
    BY <1>0, <1>2 DEF HandlerTypes
  <2> QED
    BY <1>0, <1>1, <1>2, <2>2, <2>3 DEF LearnRefund, Complete, Restore, KeepNumber, Move, orders,
                                        OrderTypes, Repaying
<1>3. ASSUME NEW h \in Handlers, Apply(h)
      PROVE  job[h] \in {"refund", "finalize"} /\ LearnRefund(order[h], asked[h], reply[h])
  <2>1. ~ (ApplyCreate(h) \/ ApplyQuery(h) \/ ApplyCancel(h))
    BY <1>0, <1>1, RepayingKept DEF ApplyCreate, ApplyQuery, ApplyCancel
  <2> QED
    BY <1>1, <1>3, <2>1 DEF Apply, ApplyRefund, ApplyFinalize, Heard, orders
<1>4. \A h \in Handlers : ~ ProviderStep(h)
  BY <1>1 DEF ProviderStep, ProviderCreates, ProviderAnswers, ProviderUnreachable,
              ProviderCancels, ProviderIgnoresCancel, ProviderRefunds, ProviderRepeats,
              ProviderRejects, ProviderReports, Hear, orders
<1>5. ASSUME NEW h \in Handlers PROVE ~ Begin(h)
  <2>1. \A q \in Orders : ~ (BeginCreate(h, q) \/ BeginQuery(h, q) \/ BeginCancel(h, q)
                                \/ BeginFinalize(h, q))
    BY <1>0, <1>1, RepayingKept DEF BeginCreate, BeginQuery, BeginCancel, BeginFinalize, orders
  <2>2. \A q \in Orders : ~ BeginRefund(h, q)
    BY <1>0, <1>1 DEF BeginRefund, OrderTypes, Repaying
  <2> QED
    BY <2>1, <2>2 DEF Begin
<1>6. ~ World /\ ~ UNCHANGED vars
  <2>1. ASSUME NEW q \in Orders, NEW kind
        PROVE  ~ (Webhook(q, kind) \/ Expire(q) \/ RequestRefund(q))
    BY <1>0, <1>1, RepayingKept DEF Webhook, Expire, RequestRefund
  <2> QED
    BY <1>1, <2>1 DEF World, Attempt, TimePasses, RefundSettles, Spend, Restart, orders, vars
<1> QED
  BY <1>2, <1>3, <1>4, <1>5, <1>6 DEF Next

(* The credit of an order becomes spendable while the provider returns, or  *)
(* has returned, the money in three ways only, and each is the act of a     *)
(* handler that goes by an old answer: it takes its own call for failed, it *)
(* calls the provider after its hold went back, or it applies the failure   *)
(* of an earlier refund.  No callback, expiry, cancellation, settlement or  *)
(* crash does it, for any number of orders, handlers and refunds, uncertain *)
(* ones included.                                                           *)
OnlyAstray == [][\A o \in Orders : Withdrawn(o) /\ ~ Withdrawn(o)' => ActsAstray(o)]_vars
THEOREM RefundsLostAstray == Spec => OnlyAstray
<1> DEFINE Lost == \A o \in Orders : Withdrawn(o) /\ ~ Withdrawn(o)' => ActsAstray(o)
<1>1. Init => RefundsTold
  BY DEF Init, RefundsTold, LastStands, Live, Told
<1>2. TypeOK /\ RefundsTold /\ [Next]_vars => [Lost]_vars
  <2> SUFFICES ASSUME TypeOK, RefundsTold, [Next]_vars, NEW o \in Orders,
                      Withdrawn(o), ~ Withdrawn(o)'
               PROVE  ActsAstray(o)
    OBVIOUS
  <2>1. status'[o] \notin Repaying /\ Live(o)' # {}
    BY DEF Withdrawn
  <2>2. CASE refunds'[o] = refunds[o]
    <3>1. status[o] \in Repaying
      BY <2>1, <2>2 DEF Withdrawn, Live
    <3>2. PICK h \in Handlers : /\ order[h] = o /\ job[h] \in {"refund", "finalize"}
                                /\ reply[h] \in {"failed", "error"} /\ reply'[h] = "waiting"
      BY <2>1, <3>1, HoldGoesBack
    <3>3. Told(h) /\ LastStands(o)
      BY DEF RefundsTold
    <3>4. ASSUME job[h] = "finalize", NEW n \in Live(o) PROVE asked[h] < n
      <4>1. refunds[o][asked[h]] = "failed" /\ n = Len(refunds[o])
        BY <3>2, <3>3, <3>4 DEF Told, LastStands
      <4>2. asked[h] \in 1..Len(refunds[o]) /\ Len(refunds[o]) \in Nat
        BY <3>2, <3>4 DEF TypeOK, NumbersKnown, ProviderTypes
      <4>3. asked[h] # n
        BY <4>1 DEF Live
      <4> QED
        BY <4>1, <4>2, <4>3
    <3>5. reply'[h] # reply[h]
      BY <3>2
    <3> QED
      BY <3>2, <3>3, <3>4, <3>5 DEF Told, Astray, ActsAstray
  <2>3. ASSUME NEW h \in Handlers, job[h] = "refund", reply[h] = "waiting", order[h] = o,
               reply'[h] # "waiting", status' = status
        PROVE  ActsAstray(o)
    BY <2>1, <2>3 DEF Astray, ActsAstray, Repaying
  <2>4. ASSUME NEW n \in 1..Len(refunds[o]), refunds[o][n] = "pending", status' = status
        PROVE  FALSE
    BY <2>1, <2>4 DEF Withdrawn, Live
  <2> QED
    BY <2>2, <2>3, <2>4, RefundsGrow
<1> HIDE DEF Lost
<1>3. Spec => [][Lost]_vars
  BY <1>1, <1>2, TypeInit, TypeStep, RefundsToldStep, PTL DEF Spec
<1> QED
  BY <1>3 DEF Lost, OnlyAstray

-----------------------------------------------------------------------------
(* What RefundReachable says of one order.                                  *)
Reachable(o) ==
    status[o] = "REFUNDING" /\ refundNo[o] = 0 /\ restarts = 0
        => \E h \in Clients : Processes(h, o)

(* An order is not put into the state that needs its request, and a request *)
(* that processes it goes on.                                               *)
LEMMA ReachableKept ==
    ASSUME NEW o \in Orders, Reachable(o), restarts' = restarts,
           status'[o] = "REFUNDING" /\ refundNo'[o] = 0
               => status[o] = "REFUNDING" /\ refundNo[o] = 0,
           \A h \in Clients : Processes(h, o) => Processes(h, o)'
    PROVE  Reachable(o)'
BY DEF Reachable

(* Reports about payments neither start a refund nor forget its number.     *)
LEMMA ReachableLearn ==
    ASSUME OrderTypes, NEW o \in Orders, NEW report, Learn(o, report) \/ Expires(o)
    PROVE  \A q \in Orders : status'[q] = "REFUNDING" /\ refundNo'[q] = 0
                                => status[q] = "REFUNDING" /\ refundNo[q] = 0
<1>1. CASE Confirm(o)
  BY <1>1 DEF Confirm, OrderTypes
<1>2. CASE Rejected(o) \/ Expires(o)
  BY <1>2 DEF Rejected, Expires, Move, OrderTypes
<1>3. CASE UNCHANGED <<orders, money>>
  BY <1>3 DEF orders
<1> QED
  BY <1>1, <1>2, <1>3 DEF Learn

(* A request that applies the answer about its refund leaves an order that  *)
(* is refunded, credited again, or has the number to ask about.             *)
LEMMA ReachableApplied ==
    ASSUME OrderTypes, NEW o \in Orders, NEW n, NEW report, LearnRefund(o, n, report),
           report = "pending" => n # 0
    PROVE  /\ ~ (status'[o] = "REFUNDING" /\ refundNo'[o] = 0)
           /\ \A q \in Orders \ {o} : status'[q] = status[q] /\ refundNo'[q] = refundNo[q]
<1> USE DEF OrderTypes
<1>1. CASE report = "done" /\ Complete(o, n)
  BY <1>1 DEF Complete, Move
<1>2. CASE Restore(o)
  BY <1>2 DEF Restore, Move
<1>3. CASE report = "pending" /\ KeepNumber(o, n)
  BY <1>3 DEF KeepNumber
<1>4. CASE status[o] # "REFUNDING" /\ UNCHANGED <<orders, money>>
  BY <1>4 DEF orders
<1> QED
  BY <1>1, <1>2, <1>3, <1>4 DEF LearnRefund

LEMMA ReachableStep == TypeOK /\ RefundReachable /\ [Next]_vars => RefundReachable'
<1> SUFFICES ASSUME TypeOK, RefundReachable, [Next]_vars, NEW o \in Orders PROVE Reachable(o)'
  BY DEF RefundReachable, Reachable, Processes
<1>0. OrderTypes /\ HandlerTypes /\ Reachable(o) /\ restarts \in Nat
  BY DEF TypeOK, RefundReachable, Reachable, Processes
<1> DEFINE Awaits == status[o] = "REFUNDING" /\ refundNo[o] = 0
<1>1. ASSUME NEW h \in Handlers, Begin(h) PROVE Reachable(o)'
  <2>1. PICK q \in Orders :
          \/ BeginCreate(h, q) \/ BeginQuery(h, q) \/ BeginCancel(h, q)
          \/ BeginRefund(h, q) \/ BeginFinalize(h, q)
    BY <1>1 DEF Begin
  <2>2. \A k \in Clients : Processes(k, o) => Processes(k, o)'
    <3>1. PICK what, number : Start(h, q, what, number)
      BY <2>1 DEF BeginCreate, BeginQuery, BeginCancel, BeginRefund, BeginFinalize
    <3>2. /\ job[h] = "none"
          /\ \A k \in Clients \ {h} : job'[k] = job[k] /\ order'[k] = order[k]
      BY <1>0, <3>1 DEF Start, HandlerTypes, Handlers
    <3> QED
      BY <3>2 DEF Processes
  <2>3. CASE BeginRefund(h, q) /\ q = o
    BY <1>0, <2>3 DEF BeginRefund, Start, Processes, Reachable, HandlerTypes
  <2>4. CASE ~ (BeginRefund(h, q) /\ q = o)
    <3>1. Awaits' => Awaits
      BY <1>0, <2>1, <2>4 DEF BeginCreate, BeginQuery, BeginCancel, BeginRefund, BeginFinalize,
                              Move, OrderTypes, orders
    <3>2. restarts' = restarts
      BY <2>1 DEF BeginCreate, BeginQuery, BeginCancel, BeginRefund, BeginFinalize, Start
    <3> QED
      BY <1>0, <2>2, <3>1, <3>2, ReachableKept
  <2> QED
    BY <2>3, <2>4
<1>2. ASSUME NEW h \in Handlers, ProviderStep(h) PROVE Reachable(o)'
  <2>1. UNCHANGED <<orders, job, order, restarts>>
    BY <1>2 DEF ProviderStep, ProviderCreates, ProviderAnswers, ProviderUnreachable,
          ProviderCancels, ProviderIgnoresCancel, ProviderRefunds, ProviderRepeats,
          ProviderRejects, ProviderReports, Hear
  <2> QED
    BY <1>0, <2>1 DEF Reachable, Processes, orders
<1>3. ASSUME NEW h \in Handlers, Apply(h) PROVE Reachable(o)'
  <2>1. order[h] \in Orders
    BY <1>0, <1>3 DEF Apply, ApplyCreate, ApplyQuery, ApplyCancel, ApplyRefund,
                     ApplyFinalize, Heard, HandlerTypes
  <2>2. restarts' = restarts /\ End(h)
    BY <1>3 DEF Apply, ApplyCreate, ApplyQuery, ApplyCancel, ApplyRefund, ApplyFinalize, End
  <2>3. ASSUME ~ Processes(h, o) PROVE \A k \in Clients : Processes(k, o) => Processes(k, o)'
    BY <1>0, <2>2, <2>3 DEF End, Processes, HandlerTypes
  <2>4. CASE ApplyCreate(h) \/ ApplyCancel(h) \/ ApplyQuery(h)
    <3>1. Awaits' => Awaits
      <4>1. CASE ApplyCreate(h) \/ ApplyCancel(h)
        BY <1>0, <2>1, <4>1 DEF ApplyCreate, ApplyCancel, Move, OrderTypes
      <4>2. CASE ApplyQuery(h)
        <5>1. Learn(order[h], reply[h]) \/ Expires(order[h])
          BY <4>2 DEF ApplyQuery
        <5>2. PICK q, report : q \in Orders /\ q = order[h] /\ report = reply[h]
          BY <2>1
        <5> QED
          BY <1>0, <5>1, <5>2, ReachableLearn
      <4> QED
        BY <2>4, <4>1, <4>2
    <3>2. ~ Processes(h, o)
      BY <2>4 DEF ApplyCreate, ApplyCancel, ApplyQuery, Heard, Processes
    <3> QED
      BY <1>0, <2>2, <2>3, <3>1, <3>2, ReachableKept
  <2>5. CASE ApplyRefund(h) \/ (ApplyFinalize(h) /\ reply[h] # "pending")
    <3>1. PICK q \in Orders : q = order[h]
      BY <2>1
    <3>2. PICK n : n = asked[h]
      OBVIOUS
    <3>3. PICK report : report = reply[h]
      OBVIOUS
    <3>4. LearnRefund(q, n, report)
      BY <2>5, <3>1, <3>2, <3>3 DEF ApplyRefund, ApplyFinalize
    <3>5. report = "pending" => n # 0
      <4> SUFFICES ASSUME reply[h] = "pending" PROVE asked[h] # 0
        BY <3>2, <3>3
      <4>1. asked[h] \in 1..Len(refunds[order[h]])
        BY <2>5 DEF ApplyRefund, Heard, TypeOK, NumbersKnown
      <4> QED
        BY <4>1
    <3>6. /\ ~ (status'[q] = "REFUNDING" /\ refundNo'[q] = 0)
          /\ q # o => status'[o] = status[o] /\ refundNo'[o] = refundNo[o]
      BY <1>0, <3>4, <3>5, ReachableApplied
    <3>7. CASE q = o
      BY <3>6, <3>7 DEF Reachable
    <3>8. CASE q # o
      <4>1. ~ Processes(h, o)
        BY <3>1, <3>8 DEF Processes
      <4> QED
        BY <1>0, <2>2, <2>3, <3>6, <3>8, <4>1, ReachableKept
    <3> QED
      BY <3>7, <3>8
  <2>6. CASE ApplyFinalize(h) /\ reply[h] = "pending"
    <3>1. UNCHANGED orders /\ ~ Processes(h, o)
      BY <2>6 DEF ApplyFinalize, Heard, Processes
    <3> QED
      BY <1>0, <2>2, <2>3, <3>1, ReachableKept DEF orders
  <2> QED
    BY <1>3, <2>4, <2>5, <2>6 DEF Apply
<1>4. CASE World
  <2>1. CASE \E q \in Orders : (\E kind \in PayerActs : Webhook(q, kind)) \/ Expire(q)
    <3>1. PICK q, report : q \in Orders /\ (Learn(q, report) \/ Expires(q))
      BY <2>1 DEF Webhook, Expire
    <3>2. UNCHANGED <<job, order, restarts>>
      BY <2>1 DEF Webhook, Expire, locals
    <3>3. Awaits' => Awaits
      BY <1>0, <3>1, ReachableLearn
    <3> QED
      BY <1>0, <3>2, <3>3, ReachableKept DEF Processes
  <2>2. CASE Restart
    BY <1>0, <2>2 DEF Restart, Reachable
  <2>3. CASE \E q \in Orders : RequestRefund(q)
    BY <1>0, <2>3, ReachableKept DEF RequestRefund, Move, Processes, OrderTypes, locals
  <2>4. CASE \/ \E q \in Orders :
                   \/ \E kind \in PayerActs : Attempt(q, kind)
                   \/ TimePasses(q)
                   \/ \E n \in 1..MaxRefunds, state \in {"done", "failed"} :
                         RefundSettles(q, n, state)
             \/ \E u \in Users : Spend(u)
    <3>1. UNCHANGED <<status, refundNo, job, order, restarts>>
      BY <2>4 DEF Attempt, TimePasses, RefundSettles, Spend, orders, locals
    <3> QED
      BY <1>0, <3>1 DEF Reachable, Processes
  <2> QED
    BY <1>4, <2>1, <2>2, <2>3, <2>4 DEF World
<1>5. CASE UNCHANGED vars
  BY <1>0, <1>5 DEF vars, orders, locals, Reachable, Processes
<1> QED
  BY <1>1, <1>2, <1>3, <1>4, <1>5 DEF Next

(* FinalizeRefund needs the number that only ProcessRefund stores: until    *)
(* the process dies, a held order without one has a request that still      *)
(* processes it, so that its hold is not stuck.                             *)
THEOREM RefundsReachable == Spec => []RefundReachable
<1>1. Init => RefundReachable
  BY DEF Init, RefundReachable
<1> QED
  BY <1>1, TypeInit, TypeStep, ReachableStep, PTL DEF Spec
=============================================================================
