--------------------------- MODULE CardLimitsProofs ---------------------------
(***************************************************************************)
(* Theorems of CardLimits, for every number of withdrawals and requests of  *)
(* the owner, and every amount, limit and bound.  daily_spent is compared   *)
(* with the claims it should count from both sides: it never exceeds those  *)
(* that stand in the card's window, and it falls short of them only by what *)
(* a claim from before the window took off it.                              *)
(***************************************************************************)
EXTENDS CardLimits, SumTheorems

CardRows == [status : {"ACTIVE", "DISABLED"}, balance : Nat, limit : {NoLimit} \cup Limits,
             spent : Nat, window : Windows, over : BOOLEAN]
Claims == [state : {"none", "held", "restored"}, window : Windows, into : Windows]
Requests == [read : BOOLEAN, new : Nat, add : Int, raced : BOOLEAN]

Claimed == {q \in Spends : claim[q].state # "none"}

(* No claim is of a window that was not opened yet. *)
ClaimsInv == \A q \in Spends : claim[q].window <= opened /\ claim[q].into <= opened

(* What a request read still holds, unless another write overtook it. *)
RequestsInv == \A o \in Owners :
    request[o].read /\ ~request[o].raced => request[o].new = card.balance + request[o].add

CountInv ==
    /\ card.spent <= Total(SpentIn(card.window))
    /\ Total(SpentIn(card.window)) <= card.spent + Total(CrossedInto(card.window))

IInv == /\ TypeOK /\ IsFiniteSet(Claimed)
        /\ ClaimsInv /\ RequestsInv /\ BalanceIsExact /\ CountInv

-------------------------------------------------------------------------------
(* Sums of amounts. *)

LEMMA AmountType == \A q \in Spends : Amount[q] \in Nat /\ Amount[q] > 0
BY CardLimitsAssumption

LEMMA TotalIsSum ==
  ASSUME NEW S
  PROVE  Total(S) = SumFunctionOnSet(Amount, S)
BY DEF Total, MapThenSumSet, SumFunctionOnSet, FoldFunctionOnSet, MapThenFoldSet

LEMMA TotalType ==
  ASSUME NEW S, IsFiniteSet(S), S \subseteq Spends
  PROVE  Total(S) \in Nat
<1>1. \A q \in S : Amount[q] \in Nat
  BY AmountType
<1>2. S \in SUBSET S
  OBVIOUS
<1>3. SumFunctionOnSet(Amount, S) \in Nat
  BY <1>1, <1>2, SumGrows
<1>. QED
  BY <1>3, TotalIsSum

LEMMA TotalAdd ==
  ASSUME NEW S, IsFiniteSet(S), S \subseteq Spends, NEW q \in Spends, q \notin S
  PROVE  Total(S \cup {q}) = Total(S) + Amount[q]
<1>1. \A r \in S \cup {q} : Amount[r] \in Int
  BY AmountType
<1>2. Total(S \cup {q}) = Amount[q] + Total(S)
  BY <1>1, SumAdd, TotalIsSum
<1>. QED
  BY <1>1, <1>2, TotalType

LEMMA TotalRemove ==
  ASSUME NEW S, IsFiniteSet(S), S \subseteq Spends, NEW q \in S
  PROVE  Total(S \ {q}) = Total(S) - Amount[q] /\ Total(S \ {q}) \in Nat
<1>1. \A r \in S : Amount[r] \in Int
  BY AmountType
<1>2. Total(S) = Amount[q] + Total(S \ {q})
  BY <1>1, SumRemove, TotalIsSum
<1>3. Total(S \ {q}) \in Nat
  BY FS_Subset, TotalType
<1>4. Amount[q] \in Int
  BY <1>1
<1>. QED
  BY <1>2, <1>3, <1>4

LEMMA TotalOne ==
  ASSUME NEW q \in Spends
  PROVE  Total({q}) = Amount[q] /\ Total({}) = 0
<1>1. Total({}) = 0
  BY SumEmpty, TotalIsSum
<1>2. Total({} \cup {q}) = Total({}) + Amount[q]
  BY FS_EmptySet, TotalAdd
<1>3. {} \cup {q} = {q} /\ Amount[q] \in Nat
  BY AmountType
<1>. QED
  BY <1>1, <1>2, <1>3

(* The sets the sums are over. *)
LEMMA SetsAreFinite ==
  ASSUME IsFiniteSet(Claimed)
  PROVE  /\ IsFiniteSet(Standing) /\ Standing \subseteq Spends
         /\ \A w : IsFiniteSet(SpentIn(w)) /\ SpentIn(w) \subseteq Spends
         /\ \A w : IsFiniteSet(CrossedInto(w)) /\ CrossedInto(w) \subseteq Spends
<1>1. Standing \in SUBSET Claimed /\ Claimed \subseteq Spends
  BY DEF Standing, Claimed
<1>2. \A w : SpentIn(w) \in SUBSET Claimed /\ CrossedInto(w) \in SUBSET Claimed
  BY DEF SpentIn, CrossedInto, Standing, Claimed
<1>. QED
  BY <1>1, <1>2, FS_Subset

LEMMA TotalsAreNat ==
  ASSUME IsFiniteSet(Claimed)
  PROVE  /\ Total(Standing) \in Nat
         /\ \A w : Total(SpentIn(w)) \in Nat /\ Total(CrossedInto(w)) \in Nat
BY SetsAreFinite, TotalType

LEMMA TotalsStayNat ==
  ASSUME IsFiniteSet(Claimed)'
  PROVE  Total(SpentIn(card.window))' \in Nat /\ Total(CrossedInto(card.window))' \in Nat
<1> DEFINE S == SpentIn(card.window)'
           C == CrossedInto(card.window)'
<1>1. S \in SUBSET Claimed' /\ C \in SUBSET Claimed' /\ Claimed' \subseteq Spends
  BY DEF SpentIn, CrossedInto, Standing, Claimed
<1>2. IsFiniteSet(Claimed')
  OBVIOUS
<1>. HIDE DEF S, C
<1>3. IsFiniteSet(S) /\ IsFiniteSet(C)
  BY <1>1, <1>2, FS_Subset
<1>4. Total(S) \in Nat /\ Total(C) \in Nat
  BY <1>1, <1>3, TotalType
<1>. QED
  BY <1>4 DEF S, C

-------------------------------------------------------------------------------
(* Every write of the balance overtakes the requests that have read it. *)

LEMMA OvertakenType ==
  ASSUME request \in [Owners -> Requests]
  PROVE  /\ Overtaken \in [Owners -> Requests]
         /\ \A o \in Owners : Overtaken[o].read => Overtaken[o].raced
<1>1. \A o \in Owners : /\ [request[o] EXCEPT !.raced = request[o].read] \in Requests
                        /\ [request[o] EXCEPT !.raced = request[o].read].read = request[o].read
                        /\ [request[o] EXCEPT !.raced = request[o].read].raced = request[o].read
  BY DEF Requests
<1>. QED
  BY <1>1 DEF Overtaken

(* The claims and the money put on the card stay, and so does the balance.  *)
LEMMA SameBalance ==
  ASSUME IInv, TypeOK', UNCHANGED <<claim, request, granted, erased>>,
         card'.balance = card.balance, opened <= opened', CountInv'
  PROVE  IInv'
<1>1. opened \in Int /\ opened' \in Int
  BY DEF IInv, TypeOK, Windows
<1>2. ClaimsInv'
  <2>1. \A q \in Spends : claim[q].window \in Int /\ claim[q].into \in Int
    BY DEF IInv, TypeOK, Windows
  <2>. QED
    BY <1>1, <2>1 DEF IInv, ClaimsInv
<1>3. RequestsInv'
  BY DEF IInv, RequestsInv
<1>4. BalanceIsExact'
  BY DEF IInv, BalanceIsExact, Standing
<1>5. IsFiniteSet(Claimed)'
  BY DEF IInv, Claimed
<1>. QED
  BY <1>2, <1>3, <1>4, <1>5 DEF IInv

(* The count and the window stay too. *)
LEMMA SameCount ==
  ASSUME CountInv, UNCHANGED claim, card'.spent = card.spent, card'.window = card.window
  PROVE  CountInv'
BY DEF CountInv, SpentIn, CrossedInto, Standing

-------------------------------------------------------------------------------
(* Claims and restores. *)

LEMMA ClaimPreserves ==
  ASSUME IInv, NEW q \in Spends, Claim(q)
  PROVE  /\ IInv'
         /\ card.limit # NoLimit =>
               Total(SpentIn(card.window))' <= card.limit + Total(CrossedInto(card.window))'
<1>1. /\ card \in CardRows /\ claim \in [Spends -> Claims] /\ request \in [Owners -> Requests]
      /\ opened \in Windows /\ card.window \in {NoWindow, opened} /\ granted \in Int
  BY DEF IInv, TypeOK, CardRows, Claims, Requests
<1>2. PICK late \in Clocks :
        /\ Allowed(q, late)
        /\ late => opened < MaxWindow
        /\ opened' = IF late THEN opened + 1 ELSE opened
        /\ card' = [card EXCEPT !.balance = @ - Amount[q],
                                !.spent = Spent(late) + Amount[q],
                                !.window = IF late THEN opened + 1 ELSE @,
                                !.over = @ /\ ~late]
  BY DEF Claim
<1>3. /\ claim[q].state = "none" /\ card.balance >= Amount[q]
      /\ claim' = [claim EXCEPT ![q] = [@ EXCEPT !.state = "held", !.window = card'.window]]
      /\ request' = Overtaken /\ UNCHANGED <<granted, erased>>
  BY DEF Claim, history
<1>4. Amount[q] \in Nat /\ Amount[q] > 0 /\ MaxWindow \in Nat
  BY AmountType, CardLimitsAssumption
<1>5. late \in BOOLEAN /\ (late => card.over)
  BY DEF Clocks
<1>6. /\ card.balance \in Nat /\ card.spent \in Nat /\ card.window \in Windows /\ card.over \in BOOLEAN
      /\ opened \in Nat
  BY <1>1 DEF CardRows, Windows
<1>7. /\ card'.status = card.status /\ card'.limit = card.limit
      /\ card'.balance = card.balance - Amount[q]
      /\ card'.spent = Spent(late) + Amount[q]
      /\ card'.window = IF late THEN opened + 1 ELSE card.window
  BY <1>1, <1>2 DEF CardRows
<1>8. card'.over = (card.over /\ ~late)
  BY <1>1, <1>2 DEF CardRows
<1>9. opened' \in Windows /\ card'.window \in Windows /\ card'.window \in {NoWindow, opened'}
      /\ opened <= opened'
  BY <1>1, <1>2, <1>4, <1>6, <1>7 DEF Windows
<1>10. Spent(late) \in Nat /\ Spent(late) <= card.spent
  BY <1>6 DEF Spent
<1>11. card' \in CardRows
  <2>1. card.balance - Amount[q] \in Nat
    BY <1>3, <1>4, <1>6
  <2>2. Spent(late) + Amount[q] \in Nat
    BY <1>4, <1>10
  <2>3. (card.over /\ ~late) \in BOOLEAN
    OBVIOUS
  <2>4. (IF late THEN opened + 1 ELSE card.window) \in Windows
    BY <1>7, <1>9
  <2>. QED
    BY <1>1, <1>2, <2>1, <2>2, <2>3, <2>4 DEF CardRows
<1>12. card'.over => card'.window # NoWindow
  <2>1. card.over => card.window # NoWindow
    BY DEF IInv, TypeOK
  <2>. QED
    BY <1>7, <1>8, <2>1
<1>13. /\ claim' \in [Spends -> Claims]
       /\ claim'[q].state = "held" /\ claim'[q].window = card'.window
       /\ claim'[q].into = claim[q].into
       /\ \A r \in Spends \ {q} : claim'[r] = claim[r]
  <2>1. [claim[q] EXCEPT !.state = "held", !.window = card'.window] \in Claims
    BY <1>1, <1>9 DEF Claims
  <2>. QED
    BY <1>1, <1>3, <2>1 DEF Claims
<1>14. TypeOK'
  <2>1. request' \in [Owners -> Requests]
    BY <1>1, <1>3, OvertakenType
  <2>. QED
    BY <1>1, <1>3, <1>9, <1>11, <1>12, <1>13, <2>1
       DEF IInv, TypeOK, CardRows, Claims, Requests
<1>15. IsFiniteSet(Claimed)'
  <2>1. Claimed' = Claimed \cup {q}
    BY <1>13 DEF Claimed
  <2>. QED
    BY <2>1, FS_AddElement DEF IInv
<1>16. ClaimsInv'
  <2>1. \A r \in Spends : /\ claim[r].window \in Int /\ claim[r].into \in Int
                          /\ claim[r].window <= opened /\ claim[r].into <= opened
    BY <1>1 DEF IInv, ClaimsInv, Claims, Windows
  <2>2. opened' \in Int /\ card'.window <= opened'
    BY <1>9 DEF Windows, NoWindow
  <2>. QED
    BY <1>6, <1>9, <1>13, <2>1, <2>2 DEF ClaimsInv
<1>17. RequestsInv'
  BY <1>1, <1>3, OvertakenType DEF RequestsInv
<1>18. BalanceIsExact'
  <2>. SUFFICES ASSUME ~erased
                PROVE  card'.balance + Total(Standing)' = granted'
    BY <1>3 DEF BalanceIsExact
  <2>1. Standing' = Standing \cup {q} /\ q \notin Standing
    BY <1>3, <1>13 DEF Standing
  <2>2. Total(Standing \cup {q}) = Total(Standing) + Amount[q] /\ Total(Standing) \in Nat
    BY <2>1, SetsAreFinite, TotalAdd, TotalType DEF IInv
  <2>3. card.balance + Total(Standing) = granted
    BY DEF IInv, BalanceIsExact
  <2>4. Total(Standing)' = Total(Standing) + Amount[q]
    BY <2>1, <2>2
  <2>. QED
    BY <1>3, <1>4, <1>6, <1>7, <2>2, <2>3, <2>4
<1>19. /\ Total(SpentIn(card.window))' \in Nat /\ Total(CrossedInto(card.window))' \in Nat
       /\ CountInv'
  <2> DEFINE w == card'.window
  <2>0. Total(SpentIn(card.window))' \in Nat /\ Total(CrossedInto(card.window))' \in Nat
    BY <1>15, TotalsStayNat
  <2>1. CASE late
    <3>1. SpentIn(card.window)' = {q}
      <4>1. \A r \in Spends : claim[r].window # opened + 1
        BY <1>1, <1>6 DEF IInv, ClaimsInv, Claims, Windows
      <4>. QED
        BY <1>7, <1>13, <2>1, <4>1 DEF SpentIn, Standing
    <3>2. Total(SpentIn(card.window))' = Amount[q]
      BY <3>1, TotalOne
    <3>3. card'.spent = Amount[q]
      BY <1>4, <1>7, <2>1 DEF Spent
    <3>. QED
      BY <1>4, <2>0, <3>2, <3>3 DEF CountInv
  <2>2. CASE ~late
    <3>1. w = card.window /\ q \notin SpentIn(card.window)
      BY <1>3, <1>7, <2>2 DEF SpentIn, Standing
    <3>2. SpentIn(card.window)' = SpentIn(card.window) \cup {q}
      BY <1>13, <3>1 DEF SpentIn, Standing
    <3>3. CrossedInto(card.window)' = CrossedInto(card.window)
      BY <1>3, <1>13, <3>1 DEF CrossedInto
    <3>4. Total(SpentIn(card.window) \cup {q}) = Total(SpentIn(card.window)) + Amount[q]
      BY <3>1, SetsAreFinite, TotalAdd DEF IInv
    <3>5. Total(SpentIn(card.window))' = Total(SpentIn(card.window)) + Amount[q]
      BY <3>2, <3>4
    <3>6. Total(CrossedInto(card.window))' = Total(CrossedInto(card.window))
      BY <3>3
    <3>7. card'.spent = card.spent + Amount[q]
      BY <1>7, <2>2 DEF Spent
    <3>8. Total(SpentIn(card.window)) \in Nat /\ Total(CrossedInto(card.window)) \in Nat
      BY TotalsAreNat DEF IInv
    <3>9. /\ card.spent <= Total(SpentIn(card.window))
          /\ Total(SpentIn(card.window)) <= card.spent + Total(CrossedInto(card.window))
      BY DEF IInv, CountInv
    <3>. QED
      BY <1>4, <1>6, <2>0, <3>5, <3>6, <3>7, <3>8, <3>9 DEF CountInv
  <2>. QED
    BY <1>5, <2>1, <2>2
<1>20. ASSUME card.limit # NoLimit
       PROVE  Total(SpentIn(card.window))' <= card.limit + Total(CrossedInto(card.window))'
  <2>1. Spent(late) + Amount[q] <= card.limit
    BY <1>2, <1>20 DEF Allowed
  <2>2. Total(SpentIn(card.window))' <= card'.spent + Total(CrossedInto(card.window))'
    BY <1>19 DEF CountInv
  <2>3. card.limit \in Nat
    <3>1. card.limit \in {NoLimit} \cup Limits
      BY <1>1 DEF CardRows
    <3>2. Limits \subseteq Nat
      BY CardLimitsAssumption
    <3>. QED
      BY <1>20, <3>1, <3>2
  <2>4. card'.spent <= card.limit /\ card'.spent \in Nat
    BY <1>4, <1>7, <1>10, <2>1
  <2>5. Total(SpentIn(card.window))' \in Nat /\ Total(CrossedInto(card.window))' \in Nat
    BY <1>19
  <2>. QED
    BY <2>2, <2>3, <2>4, <2>5
<1>. QED
  BY <1>14, <1>15, <1>16, <1>17, <1>18, <1>19, <1>20 DEF IInv

LEMMA RestorePreserves ==
  ASSUME IInv, NEW q \in Spends, Restore(q)
  PROVE  IInv'
<1>1. /\ card \in CardRows /\ claim \in [Spends -> Claims] /\ request \in [Owners -> Requests]
      /\ opened \in Windows /\ card.window \in {NoWindow, opened}
  BY DEF IInv, TypeOK, CardRows, Claims, Requests
<1>2. /\ claim[q].state = "held"
      /\ card' = [card EXCEPT !.balance = @ + Amount[q],
                              !.spent = IF CountsHere(q) THEN AtLeast0(@ - Amount[q]) ELSE @]
      /\ claim' = [claim EXCEPT ![q] = [@ EXCEPT !.state = "restored", !.into = card.window]]
      /\ request' = Overtaken /\ UNCHANGED <<opened, granted, erased>>
  BY DEF Restore, Restorable
<1>3. Amount[q] \in Nat /\ Amount[q] > 0
  BY AmountType
<1>4. card.balance \in Nat /\ card.spent \in Nat /\ card.window \in Windows
  BY <1>1 DEF CardRows
<1>5. /\ card'.status = card.status /\ card'.limit = card.limit
      /\ card'.balance = card.balance + Amount[q]
      /\ card'.spent = IF CountsHere(q) THEN AtLeast0(card.spent - Amount[q]) ELSE card.spent
      /\ card'.window = card.window /\ card'.over = card.over
  BY <1>1, <1>2 DEF CardRows
<1>6. card'.spent \in Nat /\ card.spent - Amount[q] <= card'.spent /\ card'.spent <= card.spent
  BY <1>3, <1>4, <1>5 DEF AtLeast0
<1>7. card' \in CardRows
  <2>1. card.balance + Amount[q] \in Nat
    BY <1>3, <1>4
  <2>. QED
    BY <1>1, <1>2, <1>5, <1>6, <2>1 DEF CardRows
<1>8. /\ claim' \in [Spends -> Claims]
      /\ claim'[q].state = "restored" /\ claim'[q].window = claim[q].window
      /\ claim'[q].into = card.window
      /\ \A r \in Spends \ {q} : claim'[r] = claim[r]
  <2>1. [claim[q] EXCEPT !.state = "restored", !.into = card.window] \in Claims
    BY <1>1, <1>4 DEF Claims
  <2>. QED
    BY <1>1, <1>2, <2>1 DEF Claims
<1>9. TypeOK'
  <2>1. request' \in [Owners -> Requests]
    BY <1>1, <1>2, OvertakenType
  <2>. QED
    BY <1>2, <1>5, <1>7, <1>8, <2>1 DEF IInv, TypeOK, CardRows, Claims, Requests
<1>10. IsFiniteSet(Claimed)'
  <2>1. Claimed' = Claimed
    BY <1>2, <1>8 DEF Claimed
  <2>. QED
    BY <2>1 DEF IInv
<1>11. ClaimsInv'
  <2>1. card.window <= opened
    BY <1>1 DEF NoWindow, Windows
  <2>. QED
    BY <1>2, <1>8, <2>1 DEF IInv, ClaimsInv
<1>12. RequestsInv'
  BY <1>1, <1>2, OvertakenType DEF RequestsInv
<1>13. BalanceIsExact'
  <2>. SUFFICES ASSUME ~erased
                PROVE  card'.balance + Total(Standing)' = granted'
    BY <1>2 DEF BalanceIsExact
  <2>1. Standing' = Standing \ {q} /\ q \in Standing
    BY <1>2, <1>8 DEF Standing
  <2>2. Total(Standing \ {q}) = Total(Standing) - Amount[q] /\ Total(Standing) \in Nat
    BY <2>1, SetsAreFinite, TotalRemove, TotalType DEF IInv
  <2>3. card.balance + Total(Standing) = granted
    BY DEF IInv, BalanceIsExact
  <2>4. Total(Standing)' = Total(Standing) - Amount[q]
    BY <2>1, <2>2
  <2>. QED
    BY <1>2, <1>3, <1>4, <1>5, <2>2, <2>3, <2>4
<1>14. CountInv'
  <2>1. /\ card.spent <= Total(SpentIn(card.window))
        /\ Total(SpentIn(card.window)) <= card.spent + Total(CrossedInto(card.window))
    BY DEF IInv, CountInv
  <2>2. Total(SpentIn(card.window)) \in Nat /\ Total(CrossedInto(card.window)) \in Nat
    BY TotalsAreNat DEF IInv
  <2>3. Total(SpentIn(card.window))' \in Nat /\ Total(CrossedInto(card.window))' \in Nat
    BY <1>10, TotalsStayNat
  <2>4. CASE claim[q].window = card.window
    <3>1. SpentIn(card.window)' = SpentIn(card.window) \ {q} /\ q \in SpentIn(card.window)
      BY <1>2, <1>5, <1>8, <2>4 DEF SpentIn, Standing
    <3>2. /\ Total(SpentIn(card.window) \ {q}) = Total(SpentIn(card.window)) - Amount[q]
          /\ Total(SpentIn(card.window) \ {q}) \in Nat
      BY <3>1, SetsAreFinite, TotalRemove DEF IInv
    <3>3. Total(SpentIn(card.window))' = Total(SpentIn(card.window)) - Amount[q]
      BY <3>1, <3>2
    <3>4. CrossedInto(card.window)' = CrossedInto(card.window)
      BY <1>2, <1>5, <1>8, <2>4 DEF CrossedInto
    <3>5. Total(CrossedInto(card.window))' = Total(CrossedInto(card.window))
      BY <3>4
    <3>6. card'.spent = AtLeast0(card.spent - Amount[q])
      BY <1>5, <2>4 DEF CountsHere
    <3>7. card'.spent <= Total(SpentIn(card.window)) - Amount[q]
      BY <1>3, <1>4, <2>1, <2>2, <3>2, <3>6 DEF AtLeast0
    <3>. QED
      BY <1>3, <1>4, <1>6, <2>1, <2>2, <3>3, <3>5, <3>7 DEF CountInv
  <2>5. CASE claim[q].window # card.window
    <3>1. SpentIn(card.window)' = SpentIn(card.window)
      BY <1>2, <1>5, <1>8, <2>5 DEF SpentIn, Standing
    <3>2. Total(SpentIn(card.window))' = Total(SpentIn(card.window))
      BY <3>1
    <3>3. CASE claim[q].window = NoWindow
      <4>1. /\ CrossedInto(card.window)' = CrossedInto(card.window) \cup {q}
            /\ q \notin CrossedInto(card.window)
        BY <1>2, <1>5, <1>8, <2>5, <3>3 DEF CrossedInto
      <4>2. Total(CrossedInto(card.window) \cup {q}) = Total(CrossedInto(card.window)) + Amount[q]
        BY <4>1, SetsAreFinite, TotalAdd DEF IInv
      <4>3. Total(CrossedInto(card.window))' = Total(CrossedInto(card.window)) + Amount[q]
        BY <4>1, <4>2
      <4>. QED
        BY <1>3, <1>4, <1>6, <2>1, <2>2, <3>2, <4>3 DEF CountInv
    <3>4. CASE claim[q].window # NoWindow
      <4>1. CrossedInto(card.window)' = CrossedInto(card.window)
        BY <1>2, <1>5, <1>8, <3>4 DEF CrossedInto
      <4>2. Total(CrossedInto(card.window))' = Total(CrossedInto(card.window))
        BY <4>1
      <4>3. card'.spent = card.spent
        BY <1>5, <2>5, <3>4 DEF CountsHere
      <4>. QED
        BY <2>1, <3>2, <4>2, <4>3 DEF CountInv
    <3>. QED
      BY <3>3, <3>4
  <2>. QED
    BY <2>4, <2>5
<1>. QED
  BY <1>9, <1>10, <1>11, <1>12, <1>13, <1>14 DEF IInv

-------------------------------------------------------------------------------
(* The window and the owner. *)

(* A window that no claim is of yet: nothing is counted in it. *)
LEMMA NewWindowCounts ==
  ASSUME IInv, UNCHANGED claim, card'.window = opened + 1, card'.spent = 0
  PROVE  CountInv'
<1>1. SpentIn(card.window)' = {}
  <2>1. opened \in Int /\ \A q \in Spends : claim[q].window \in Int /\ claim[q].window <= opened
    BY DEF IInv, TypeOK, ClaimsInv, Windows
  <2>. QED
    BY <2>1 DEF SpentIn, Standing
<1>2. IsFiniteSet(Claimed)'
  BY DEF IInv, Claimed
<1>3. Total(CrossedInto(card.window))' \in Nat
  BY <1>2, TotalsStayNat
<1>4. Total(SpentIn(card.window))' = 0
  <2>1. Total({}) = 0
    BY SumEmpty, TotalIsSum
  <2>. QED
    BY <1>1, <2>1
<1>. QED
  BY <1>3, <1>4 DEF CountInv

LEMMA WindowPreserves ==
  ASSUME IInv, WindowEnds \/ ResetDailyLimits \/ ResetDailySpent
  PROVE  IInv'
<1>1. /\ card \in CardRows /\ opened \in Nat /\ opened <= MaxWindow /\ MaxWindow \in Nat
      /\ card.spent \in Nat
  BY CardLimitsAssumption DEF IInv, TypeOK, CardRows, Windows
<1>2. UNCHANGED <<claim, request, granted, erased>>
  BY DEF WindowEnds, ResetDailyLimits, ResetDailySpent, OpenWindow
<1>3. CASE WindowEnds
  <2>1. card' = [card EXCEPT !.over = TRUE] /\ UNCHANGED opened /\ card.window # NoWindow
    BY <1>3 DEF WindowEnds
  <2>2. /\ card' \in CardRows /\ card'.balance = card.balance /\ card'.spent = card.spent
        /\ card'.window = card.window
    BY <1>1, <2>1 DEF CardRows
  <2>3. TypeOK'
    BY <1>2, <2>1, <2>2 DEF IInv, TypeOK, CardRows
  <2>. QED
    BY <1>1, <1>2, <2>1, <2>2, <2>3, SameCount, SameBalance DEF IInv
<1>4. CASE OpenWindow
  <2>1. /\ opened < MaxWindow /\ opened' = opened + 1
        /\ card' = [card EXCEPT !.spent = 0, !.window = opened + 1, !.over = FALSE]
    BY <1>4 DEF OpenWindow
  <2>2. opened + 1 \in Windows
    BY <1>1, <2>1 DEF Windows
  <2>3. /\ card' \in CardRows /\ card'.balance = card.balance /\ card'.spent = 0
        /\ card'.window = opened + 1 /\ card'.over = FALSE
    BY <1>1, <2>1, <2>2 DEF CardRows
  <2>4. TypeOK'
    BY <1>2, <2>1, <2>2, <2>3 DEF IInv, TypeOK, CardRows
  <2>5. CountInv'
    BY <1>2, <2>3, NewWindowCounts
  <2>6. opened <= opened'
    BY <1>1, <2>1
  <2>. QED
    BY <1>2, <2>3, <2>4, <2>5, <2>6, SameBalance
<1>. QED
  BY <1>3, <1>4 DEF ResetDailyLimits, ResetDailySpent

LEMMA SettingsPreserve ==
  ASSUME IInv, SetStatus \/ \E limit \in {NoLimit} \cup Limits : SetLimit(limit)
  PROVE  IInv'
<1>1. UNCHANGED <<claim, request, opened, granted, erased>>
  BY DEF SetStatus, SetLimit
<1>2. card \in CardRows
  BY DEF IInv, TypeOK, CardRows
<1>3. /\ card' \in CardRows /\ card'.balance = card.balance /\ card'.spent = card.spent
      /\ card'.window = card.window /\ card'.over = card.over
  <2>1. CASE SetStatus
    BY <1>2, <2>1 DEF SetStatus, CardRows
  <2>2. ASSUME NEW limit \in {NoLimit} \cup Limits, SetLimit(limit)
        PROVE  /\ card' \in CardRows /\ card'.balance = card.balance /\ card'.spent = card.spent
               /\ card'.window = card.window /\ card'.over = card.over
    BY <1>2, <2>2 DEF SetLimit, CardRows
  <2>. QED
    BY <2>1, <2>2
<1>4. TypeOK'
  BY <1>1, <1>3 DEF IInv, TypeOK, CardRows
<1>5. opened <= opened'
  BY <1>1 DEF IInv, TypeOK, Windows
<1>. QED
  BY <1>1, <1>3, <1>4, <1>5, SameCount, SameBalance DEF IInv

(* A write of the balance, of b sats, that puts n sats on the card. *)
LEMMA BalanceWritten ==
  ASSUME IInv, NEW b \in Nat, NEW n \in Int, card' = [card EXCEPT !.balance = b],
         granted' = granted + n, erased' \in BOOLEAN, UNCHANGED <<claim, opened>>,
         ~erased' => ~erased /\ b = card.balance + n,
         request' \in [Owners -> Requests],
         \A o \in Owners : request'[o].read => request'[o].raced
  PROVE  IInv'
<1>1. card \in CardRows /\ card.balance \in Nat /\ granted \in Int
  BY DEF IInv, TypeOK, CardRows
<1>2. /\ card' \in CardRows /\ card'.balance = b /\ card'.spent = card.spent
      /\ card'.window = card.window /\ card'.over = card.over
  BY <1>1 DEF CardRows
<1>3. TypeOK'
  <2>1. granted' \in Int
    BY <1>1
  <2>. QED
    BY <1>2, <2>1 DEF IInv, TypeOK, CardRows, Requests
<1>4. IsFiniteSet(Claimed)' /\ ClaimsInv' /\ RequestsInv'
  BY DEF IInv, Claimed, ClaimsInv, RequestsInv
<1>5. BalanceIsExact'
  <2>. SUFFICES ASSUME ~erased'
                PROVE  card'.balance + Total(Standing)' = granted'
    BY DEF BalanceIsExact
  <2>1. card.balance + Total(Standing) = granted
    BY DEF IInv, BalanceIsExact
  <2>2. Standing' = Standing
    BY DEF Standing
  <2>3. Total(Standing)' = Total(Standing)
    BY <2>2
  <2>4. Total(Standing) \in Nat
    BY TotalsAreNat DEF IInv
  <2>. QED
    BY <1>1, <1>2, <2>1, <2>3, <2>4
<1>6. CountInv'
  BY <1>2, SameCount DEF IInv
<1>. QED
  BY <1>3, <1>4, <1>5, <1>6 DEF IInv

LEMMA BalancePreserves ==
  ASSUME IInv, \/ \E s \in Sums : TopUp(s)
               \/ \E o \in Owners : ReadBalance(o) \/ WriteBalance(o) \/ WriteFails(o)
  PROVE  IInv'
<1>1. /\ card \in CardRows /\ card.balance \in Nat /\ request \in [Owners -> Requests]
      /\ erased \in BOOLEAN
  BY DEF IInv, TypeOK, CardRows, Requests
<1>2. NoRequest \in Requests /\ NoRequest.read = FALSE
  BY DEF NoRequest, Requests
<1>3. Sums \subseteq Nat
  BY CardLimitsAssumption
<1>4. ASSUME NEW s \in Sums, TopUp(s)
      PROVE  IInv'
  <2>1. /\ card' = [card EXCEPT !.balance = card.balance + s] /\ granted' = granted + s
        /\ request' = Overtaken /\ UNCHANGED <<claim, opened, erased>>
    BY <1>4 DEF TopUp
  <2>2. card.balance + s \in Nat /\ s \in Int
    BY <1>1, <1>3
  <2>. QED
    BY <1>1, <2>1, <2>2, OvertakenType, BalanceWritten
<1>5. ASSUME NEW o \in Owners, WriteBalance(o)
      PROVE  IInv'
  <2>1. /\ request[o].read /\ card' = [card EXCEPT !.balance = request[o].new]
        /\ granted' = granted + request[o].add /\ erased' = (erased \/ request[o].raced)
        /\ request' = [Overtaken EXCEPT ![o] = NoRequest] /\ UNCHANGED <<claim, opened>>
    BY <1>5 DEF WriteBalance
  <2>2. request[o].new \in Nat /\ request[o].add \in Int /\ request[o].raced \in BOOLEAN
    BY <1>1 DEF Requests
  <2>3. ~erased' => ~erased /\ request[o].new = card.balance + request[o].add
    BY <2>1 DEF IInv, RequestsInv
  <2>4. request' \in [Owners -> Requests] /\ \A p \in Owners : request'[p].read => request'[p].raced
    BY <1>1, <1>2, <2>1, OvertakenType
  <2>5. erased' \in BOOLEAN
    BY <1>1, <2>1, <2>2
  <2>. QED
    BY <2>1, <2>2, <2>3, <2>4, <2>5, BalanceWritten
<1>6. ASSUME NEW o \in Owners, ReadBalance(o) \/ WriteFails(o)
      PROVE  IInv'
  <2>1. UNCHANGED <<card, claim, opened, granted, erased>>
    BY <1>6 DEF ReadBalance, WriteFails
  <2>2. /\ request' \in [Owners -> Requests]
        /\ \A p \in Owners \ {o} : request'[p] = request[p]
        /\ request'[o].read => request'[o].new = card.balance + request'[o].add
    <3>1. CASE WriteFails(o)
      BY <1>1, <1>2, <3>1 DEF WriteFails
    <3>2. CASE ReadBalance(o)
      <4>1. PICK new \in Targets :
               request' = [request EXCEPT ![o] = [read |-> TRUE, new |-> new,
                                                  add |-> new - card.balance, raced |-> FALSE]]
        BY <3>2 DEF ReadBalance
      <4>2. new \in Nat
        <5>1. CASE new \in {card.balance + s : s \in Sums}
          <6>1. PICK s \in Sums : new = card.balance + s
            BY <5>1
          <6>. QED
            BY <1>1, <1>3, <6>1
        <5>2. CASE new \in {b \in {card.balance - s : s \in Sums} : b >= 0}
          <6>1. PICK s \in Sums : new = card.balance - s /\ new >= 0
            BY <5>2
          <6>. QED
            BY <1>1, <1>3, <6>1
        <5>3. CASE new \in Sums
          BY <1>3, <5>3
        <5>. QED
          BY <5>1, <5>2, <5>3 DEF Targets
      <4>3. new - card.balance \in Int /\ new = card.balance + (new - card.balance)
        BY <1>1, <4>2
      <4>4. [read |-> TRUE, new |-> new, add |-> new - card.balance, raced |-> FALSE] \in Requests
        BY <4>2, <4>3 DEF Requests
      <4>. QED
        BY <1>1, <4>1, <4>3, <4>4
    <3>. QED
      BY <1>6, <3>1, <3>2
  <2>3. TypeOK'
    BY <2>1, <2>2 DEF IInv, TypeOK, Requests
  <2>4. RequestsInv'
    BY <2>1, <2>2 DEF IInv, RequestsInv
  <2>5. CountInv'
    BY <2>1, SameCount DEF IInv
  <2>. QED
    BY <2>1, <2>3, <2>4, <2>5 DEF IInv, Claimed, ClaimsInv, BalanceIsExact, Standing
<1>. QED
  BY <1>4, <1>5, <1>6

-------------------------------------------------------------------------------
(* Theorems. *)

LEMMA NextPreserves ==
  ASSUME IInv, [Next]_vars
  PROVE  IInv'
<1>1. CASE UNCHANGED vars
  <2>1. TypeOK' /\ UNCHANGED <<card, claim, request, opened, granted, erased>>
    BY <1>1 DEF IInv, TypeOK, vars
  <2>2. CountInv'
    BY <2>1, SameCount DEF IInv
  <2>. QED
    BY <2>1, <2>2 DEF IInv, Claimed, ClaimsInv, RequestsInv, BalanceIsExact, Standing
<1>. QED
  BY <1>1, ClaimPreserves, RestorePreserves, WindowPreserves, SettingsPreserve, BalancePreserves
     DEF Next

(* The columns of the card agree with the claims: balance, daily_spent and  *)
(* window, in every reachable state.                                        *)
THEOREM Invariance == Spec => []IInv
<1>1. Init => IInv
  <2>. SUFFICES ASSUME Init
                PROVE  IInv
    OBVIOUS
  <2>1. PICK limit \in {NoLimit} \cup Limits, s \in {0} \cup Sums :
          /\ card = [status |-> "ACTIVE", balance |-> s, limit |-> limit, spent |-> 0,
                     window |-> IF limit = NoLimit THEN NoWindow ELSE 1, over |-> FALSE]
          /\ opened = card.window
          /\ granted = s
    BY DEF Init
  <2>2. s \in Nat /\ MaxWindow \in Nat /\ MaxWindow > 0
    BY CardLimitsAssumption
  <2>3. card.window \in Windows
    BY <2>1, <2>2 DEF Windows, NoWindow
  <2>4. card \in CardRows
    BY <2>1, <2>2, <2>3 DEF CardRows
  <2>5. claim = [q \in Spends |-> NoClaim] /\ NoClaim \in Claims
        /\ NoClaim.state = "none" /\ NoClaim.window = 0 /\ NoClaim.into = 0
    BY <2>2 DEF Init, NoClaim, Claims, Windows, NoWindow
  <2>6. request = [o \in Owners |-> NoRequest] /\ NoRequest \in Requests /\ ~NoRequest.read
    BY DEF Init, NoRequest, Requests
  <2>7. erased = FALSE /\ card.over = FALSE /\ card.balance = s /\ card.spent = 0
    BY <2>1 DEF Init
  <2>8. TypeOK
    <3>1. card.over => card.window # NoWindow
      BY <2>7
    <3>2. claim \in [Spends -> Claims]
      BY <2>5
    <3>3. request \in [Owners -> Requests]
      BY <2>6
    <3>4. opened \in Windows /\ card.window \in {NoWindow, opened} /\ granted \in Int
      BY <2>1, <2>2, <2>3
    <3>5. erased \in BOOLEAN
      BY <2>7
    <3>. QED
      BY <2>4, <3>1, <3>2, <3>3, <3>4, <3>5 DEF TypeOK, CardRows, Claims, Requests
  <2>9. Claimed = {} /\ Standing = {} /\ SpentIn(card.window) = {}
    BY <2>5 DEF Claimed, SpentIn, Standing
  <2>10. IsFiniteSet(Claimed) /\ Total({}) = 0
    BY <2>9, FS_EmptySet, SumEmpty, TotalIsSum
  <2>11. ClaimsInv
    BY <2>1, <2>3, <2>5 DEF ClaimsInv, Windows
  <2>12. RequestsInv
    BY <2>6 DEF RequestsInv
  <2>13. BalanceIsExact
    BY <2>1, <2>2, <2>7, <2>9, <2>10 DEF BalanceIsExact
  <2>14. CountInv
    <3>1. Total(CrossedInto(card.window)) \in Nat
      BY <2>10, TotalsAreNat
    <3>. QED
      BY <2>7, <2>9, <2>10, <3>1 DEF CountInv
  <2>. QED
    BY <2>8, <2>10, <2>11, <2>12, <2>13, <2>14 DEF IInv
<1>2. IInv /\ [Next]_vars => IInv'
  BY NextPreserves
<1>. QED
  BY <1>1, <1>2, PTL DEF Spec

(* Every variable keeps its type: the balance and daily_spent never become  *)
(* negative.                                                                *)
THEOREM TypeCorrect == Spec => []TypeOK
<1>1. IInv => TypeOK
  BY DEF IInv
<1>. QED
  BY <1>1, Invariance, PTL

(* As long as no funding wrote over a later balance, the balance is what was *)
(* put on the card less the claims that stand.                              *)
THEOREM BalanceAddsUp == Spec => []BalanceIsExact
<1>1. IInv => BalanceIsExact
  BY DEF IInv
<1>. QED
  BY <1>1, Invariance, PTL

(* daily_spent counts no claim twice, none that was given back, and none of *)
(* another window.                                                          *)
THEOREM CountsOnce == Spec => []NothingCountedTwice
<1>1. IInv => NothingCountedTwice
  BY DEF IInv, CountInv, NothingCountedTwice
<1>. QED
  BY <1>1, Invariance, PTL

(* A claim never takes what stands in its window past the limit in force,   *)
(* but for what claims from before the window took off the count.           *)
THEOREM LimitHolds == Spec => WindowWithinLimit
<1>1. IInv /\ [Next]_vars
         => [\A q \in Spends : claim[q].state = "none" /\ claim'[q].state = "held"
               => card.limit = NoLimit
                  \/ Total(SpentIn(card.window))' <= card.limit + Total(CrossedInto(card.window))']_vars
  <2>. SUFFICES ASSUME IInv, Next, NEW q \in Spends, claim[q].state = "none",
                       claim'[q].state = "held", card.limit # NoLimit
                PROVE  Total(SpentIn(card.window))'
                         <= card.limit + Total(CrossedInto(card.window))'
    OBVIOUS
  <2>1. PICK r \in Spends : Claim(r) \/ Restore(r)
    BY DEF Next, TopUp, WindowEnds, ResetDailyLimits, ResetDailySpent, OpenWindow, SetLimit,
       SetStatus, ReadBalance, WriteBalance, WriteFails
  <2>2. ~Restore(r)
    <3>. SUFFICES ASSUME Restore(r)
                  PROVE  claim'[q].state # "held"
      OBVIOUS
    <3>1. claim \in [Spends -> Claims]
      BY DEF IInv, TypeOK, Claims
    <3>. QED
      BY <3>1 DEF Restore, Restorable, Claims
  <2>. QED
    BY <2>1, <2>2, ClaimPreserves
<1>. QED
  BY <1>1, Invariance, PTL DEF Spec, WindowWithinLimit

===============================================================================
